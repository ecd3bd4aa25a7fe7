------------------------- MODULE StreamBufferProofs -------------------------
(***************************************************************************)
(* Theorems about StreamBuffer: its memory is sound and it implements      *)
(* ByteQueue, for any number of objects, blocks, sizes and calls.          *)
(*                                                                         *)
(* The invariant (Sound) is stronger than what the runs check: a free cell *)
(* is at one place only of all lists, its own list included.  Without the  *)
(* latter, a byte that is stored in a free cell could change a used one of *)
(* the same stream buffer.                                                 *)
(*                                                                         *)
(* A list of buffers matters only as the row of its cells.  The first      *)
(* parts say what Cells, Ends, FindLocation, TakeCells and DropCells do    *)
(* for lists of any length; they are proved with LeastNumber.  The next    *)
(* ones say which changes of a row keep Sound (Replaced, Inserted, Moved,  *)
(* Copied) and what a step that stores bytes changes (StoredAt).  Then     *)
(* there is a lemma for each operation.                                    *)
(***************************************************************************)
EXTENDS StreamBuffer, SequenceTheorems, WellFoundedInduction, TLAPS

USE BlocksAssumption, SizesAssumption

-----------------------------------------------------------------------------
(* Induction *)

\* Less than, as a relation
Before == {ss \in Nat \X Nat : ss[1] < ss[2]}

\* A set of numbers has a smallest one: what fails somewhere fails somewhere first.
LEMMA LeastNumber ==
  ASSUME NEW T, T \subseteq Nat, T # {}
  PROVE  \E m \in T : \A k \in T : m <= k
<1>1. IsWellFoundedOn(Before, Nat)
  BY NatLessThanWellFounded DEF OpToRel, Before
<1>2. \A x, y \in Nat : y < x => <<y, x>> \in Before
  BY DEF Before
<1>3. PICK m \in T : \A k \in T : ~(<<k, m>> \in Before)
  BY <1>1, WFMin
<1>4. m \in Nat /\ \A k \in T : k \in Nat /\ ~(k < m)
  BY <1>2, <1>3
<1>5. \A k \in T : m <= k
  BY <1>4
<1> QED
  BY <1>5

-----------------------------------------------------------------------------
(* The cells of a list of buffers *)

\* A part of a block
Buffer == {b \in [base : Blocks, data : 0 .. BlockMax, size : 0 .. BlockMax] : b.data + b.size <= BlockMax}
Cell == Blocks \X (1 .. BlockMax)

\* The cells of one buffer
LEMMA BufferCellsAre ==
  ASSUME NEW b \in Buffer
  PROVE  /\ BufferCells(b) \in Seq(Cell) /\ Len(BufferCells(b)) = b.size /\ b.size \in Nat
         /\ \A i \in 1 .. b.size : BufferCells(b)[i] = <<b.base, b.data + i>>
<1>1. b.base \in Blocks /\ b.data \in Nat /\ b.size \in Nat /\ b.data + b.size <= BlockMax
  BY DEF Buffer
<1>2. \A i \in 1 .. b.size : <<b.base, b.data + i>> \in Cell
  BY <1>1 DEF Cell
<1>3. BufferCells(b) \in [1 .. b.size -> Cell]
  BY <1>2 DEF BufferCells
<1>4. BufferCells(b) \in Seq(Cell)
  BY <1>1, <1>3
<1>5. DOMAIN BufferCells(b) = 1 .. b.size
  BY DEF BufferCells
<1>6. Len(BufferCells(b)) = b.size
  BY <1>1, <1>4, <1>5, LenProperties
<1>7. \A i \in 1 .. b.size : BufferCells(b)[i] = <<b.base, b.data + i>>
  BY DEF BufferCells
<1> QED
  BY <1>1, <1>4, <1>6, <1>7

\* f[k] is the row of cells of the first k buffers, for k up to n.
CellsOf(f, bs, n) == f = [k \in 0 .. n |-> IF k = 0 THEN <<>> ELSE f[k - 1] \o BufferCells(bs[k])]

\* The recursion that defines Cells has a solution, ...
LEMMA CellsExist ==
  ASSUME NEW bs \in Seq(Buffer), NEW n \in 0 .. Len(bs)
  PROVE  \E f : CellsOf(f, bs, n) /\ f[n] \in Seq(Cell)
<1> DEFINE Good(k) == \E f : CellsOf(f, bs, k) /\ f[k] \in Seq(Cell)
           T == {k \in 0 .. Len(bs) : ~Good(k)}
<1>1. Good(0)
  <2> DEFINE f == [k \in 0 .. 0 |-> <<>>]
  <2>1. CellsOf(f, bs, 0)
    BY DEF CellsOf
  <2>2. f[0] \in Seq(Cell)
    OBVIOUS
  <2> QED
    BY <2>1, <2>2
<1>2. ASSUME NEW m \in 1 .. Len(bs), Good(m - 1) PROVE Good(m)
  <2>1. PICK f : CellsOf(f, bs, m - 1) /\ f[m - 1] \in Seq(Cell)
    BY <1>2
  <2> DEFINE g == [k \in 0 .. m |-> IF k < m THEN f[k] ELSE f[m - 1] \o BufferCells(bs[m])]
  <2>2. \A k \in 0 .. m - 1 : g[k] = f[k]
    OBVIOUS
  <2>3. g[m] = f[m - 1] \o BufferCells(bs[m])
    OBVIOUS
  <2>4. bs[m] \in Buffer
    BY ElementOfSeq
  <2>5. g[m] \in Seq(Cell)
    BY <2>1, <2>3, <2>4, BufferCellsAre, ConcatProperties
  <2>6. \A k \in 0 .. m - 1 : f[k] = IF k = 0 THEN <<>> ELSE f[k - 1] \o BufferCells(bs[k])
    BY <2>1 DEF CellsOf
  <2>7. \A k \in 0 .. m : g[k] = IF k = 0 THEN <<>> ELSE g[k - 1] \o BufferCells(bs[k])
    <3> SUFFICES ASSUME NEW k \in 0 .. m
                 PROVE  g[k] = IF k = 0 THEN <<>> ELSE g[k - 1] \o BufferCells(bs[k])
      OBVIOUS
    <3> HIDE DEF g
    <3>1. CASE k = m
      <4>1. m - 1 \in 0 .. m - 1 /\ m # 0
        BY LenProperties
      <4>2. g[m - 1] = f[m - 1]
        BY <2>2, <4>1
      <4> QED
        BY <2>3, <3>1, <4>1, <4>2
    <3>2. CASE k < m
      BY <2>2, <2>6, <3>2
    <3> QED
      BY <3>1, <3>2
  <2>8. CellsOf(g, bs, m)
    BY <2>7 DEF CellsOf
  <2> QED
    BY <2>5, <2>8
<1> HIDE DEF Good
<1>3. ASSUME T # {} PROVE FALSE
  <2>1. PICK m \in T : \A k \in T : m <= k
    <3>1. T \subseteq Nat
      OBVIOUS
    <3> HIDE DEF T
    <3> QED
      BY <1>3, <3>1, LeastNumber
  <2>2. m # 0 /\ m - 1 \in 0 .. Len(bs) /\ m - 1 \notin T
    BY <1>1, <2>1
  <2> QED
    BY <1>2, <2>1, <2>2
<1>4. Good(n)
  BY <1>3
<1> QED
  BY <1>4 DEF Good

\* ... and only one, which depends on the buffers it counts only.
LEMMA CellsUnique ==
  ASSUME NEW bs, NEW cs, NEW f, NEW g, NEW m \in Nat, NEW n \in Nat, NEW k \in Nat, k <= m, k <= n,
         CellsOf(f, bs, m), CellsOf(g, cs, n), \A i \in 1 .. k : bs[i] = cs[i]
  PROVE  f[k] = g[k]
<1> DEFINE T == {i \in 0 .. k : f[i] # g[i]}
<1>1. \A i \in 0 .. m : f[i] = IF i = 0 THEN <<>> ELSE f[i - 1] \o BufferCells(bs[i])
  BY DEF CellsOf
<1>2. \A i \in 0 .. n : g[i] = IF i = 0 THEN <<>> ELSE g[i - 1] \o BufferCells(cs[i])
  BY DEF CellsOf
<1>3. ASSUME T # {} PROVE FALSE
  <2>1. PICK i \in T : \A j \in T : i <= j
    <3>1. T \subseteq Nat
      OBVIOUS
    <3> HIDE DEF T
    <3> QED
      BY <1>3, <3>1, LeastNumber
  <2>2. i # 0
    BY <1>1, <1>2, <2>1
  <2>3. i - 1 \in 0 .. k /\ f[i - 1] = g[i - 1]
    BY <2>1, <2>2
  <2>4. bs[i] = cs[i]
    BY <2>1, <2>2
  <2>5. f[i] = g[i]
    BY <1>1, <1>2, <2>2, <2>3, <2>4
  <2> QED
    BY <2>1, <2>5
<1> QED
  BY <1>3

\* Cells(bs) is what the recursion says.
LEMMA CellsDefined ==
  ASSUME NEW bs \in Seq(Buffer)
  PROVE  Cells(bs) \in Seq(Cell) /\ \E f : CellsOf(f, bs, Len(bs)) /\ Cells(bs) = f[Len(bs)]
<1>1. PICK f : CellsOf(f, bs, Len(bs)) /\ f[Len(bs)] \in Seq(Cell)
  BY CellsExist
<1>2. \E g : CellsOf(g, bs, Len(bs)) /\ Cells(bs) = g[Len(bs)]
  BY <1>1 DEF Cells, CellsOf
<1>3. \A g : CellsOf(g, bs, Len(bs)) => g[Len(bs)] = f[Len(bs)]
  BY <1>1, CellsUnique
<1> QED
  BY <1>1, <1>2, <1>3

\* A buffer at the end of the list adds its cells.
LEMMA CellsAppend ==
  /\ Cells(<<>>) = <<>>
  /\ \A bs \in Seq(Buffer), b \in Buffer : Cells(Append(bs, b)) = Cells(bs) \o BufferCells(b)
<1>1. Cells(<<>>) = <<>>
  <2>1. <<>> \in Seq(Buffer) /\ Len(<<>>) = 0
    OBVIOUS
  <2>2. PICK f : CellsOf(f, <<>>, 0) /\ Cells(<<>>) = f[0]
    BY <2>1, CellsDefined
  <2> QED
    BY <2>2 DEF CellsOf
<1>2. ASSUME NEW bs \in Seq(Buffer), NEW b \in Buffer
      PROVE  Cells(Append(bs, b)) = Cells(bs) \o BufferCells(b)
  <2> DEFINE cs == Append(bs, b)
             n == Len(bs)
  <2>1. cs \in Seq(Buffer) /\ Len(cs) = n + 1 /\ cs[n + 1] = b /\ (\A i \in 1 .. n : cs[i] = bs[i]) /\ n \in Nat
    BY AppendProperties
  <2>2. PICK f : CellsOf(f, bs, n) /\ Cells(bs) = f[n]
    BY CellsDefined
  <2> HIDE DEF cs
  <2>3. PICK g : CellsOf(g, cs, n + 1) /\ Cells(cs) = g[n + 1]
    BY <2>1, CellsDefined
  <2> HIDE DEF n
  <2>4. f[n] = g[n]
    BY <2>1, <2>2, <2>3, CellsUnique
  <2>5. g[n + 1] = g[n] \o BufferCells(cs[n + 1])
    BY <2>1, <2>3, SMTT(30) DEF CellsOf
  <2> QED
    BY <2>1, <2>2, <2>3, <2>4, <2>5 DEF cs
<1> QED
  BY <1>1, <1>2

\* The list as a whole, and a list of one buffer
LEMMA CellsType ==
  ASSUME NEW bs \in Seq(Buffer)
  PROVE  Cells(bs) \in Seq(Cell) /\ Len(Cells(bs)) \in Nat
BY CellsDefined, LenProperties

\* The cells of a list of one buffer
LEMMA CellsOfOne ==
  ASSUME NEW b \in Buffer
  PROVE  <<b>> \in Seq(Buffer) /\ Cells(<<b>>) = BufferCells(b)
<1>1. <<>> \in Seq(Buffer) /\ <<b>> = Append(<<>>, b) /\ <<b>> \in Seq(Buffer)
  OBVIOUS
<1>2. Cells(<<b>>) = <<>> \o BufferCells(b)
  BY <1>1, CellsAppend
<1>3. BufferCells(b) \in Seq(Cell)
  BY BufferCellsAre
<1> QED
  BY <1>1, <1>2, <1>3, ConcatEmptySeq

\* Concatenation is associative, for sequences of buffers and of cells.
LEMMA Associative ==
  /\ \A s, t, u \in Seq(Buffer) : (s \o t) \o u = s \o (t \o u)
  /\ \A s, t, u \in Seq(Cell) : (s \o t) \o u = s \o (t \o u)
<1>1. ASSUME NEW s \in Seq(Buffer), NEW t \in Seq(Buffer), NEW u \in Seq(Buffer)
      PROVE  (s \o t) \o u = s \o (t \o u)
  BY ConcatAssociative, SMTT(30)
<1>2. ASSUME NEW s \in Seq(Cell), NEW t \in Seq(Cell), NEW u \in Seq(Cell)
      PROVE  (s \o t) \o u = s \o (t \o u)
  BY ConcatAssociative, SMTT(30)
<1> QED
  BY <1>1, <1>2, Zenon

\* The cells of two lists, one behind the other
LEMMA CellsConcat ==
  ASSUME NEW as \in Seq(Buffer), NEW cs \in Seq(Buffer)
  PROVE  as \o cs \in Seq(Buffer) /\ Cells(as \o cs) = Cells(as) \o Cells(cs)
<1> DEFINE Good(n) == \A bs \in Seq(Buffer) : Len(bs) = n => Cells(as \o bs) = Cells(as) \o Cells(bs)
           T == {n \in Nat : ~Good(n)}
<1>1. Good(0)
  <2> SUFFICES ASSUME NEW bs \in Seq(Buffer), Len(bs) = 0 PROVE Cells(as \o bs) = Cells(as) \o Cells(bs)
    OBVIOUS
  <2>1. bs = <<>>
    BY EmptySeq
  <2>2. as \o bs = as
    BY <2>1, ConcatEmptySeq
  <2>3. Cells(as) \in Seq(Cell) /\ Cells(bs) = <<>>
    BY <2>1, CellsType, CellsAppend
  <2>4. Cells(as) \o <<>> = Cells(as)
    BY <2>3, ConcatEmptySeq
  <2> QED
    BY <2>2, <2>3, <2>4
<1>2. ASSUME NEW n \in Nat, Good(n) PROVE Good(n + 1)
  <2> SUFFICES ASSUME NEW bs \in Seq(Buffer), Len(bs) = n + 1 PROVE Cells(as \o bs) = Cells(as) \o Cells(bs)
    OBVIOUS
  <2>1. bs # <<>>
    OBVIOUS
  <2>2. PICK ds \in Seq(Buffer), b \in Buffer : bs = Append(ds, b)
    BY <2>1, SequenceEmptyOrAppend, SMTT(30)
  <2>3. Len(ds) = n
    BY <2>2, AppendProperties, LenProperties
  <2>4. Cells(as \o ds) = Cells(as) \o Cells(ds)
    BY <1>2, <2>3
  <2>5. as \o ds \in Seq(Buffer) /\ <<b>> \in Seq(Buffer)
    BY ConcatProperties, CellsOfOne
  <2>6. as \o bs = Append(as \o ds, b)
    <3>1. bs = ds \o <<b>>
      BY <2>2, AppendIsConcat
    <3>2. as \o (ds \o <<b>>) = (as \o ds) \o <<b>>
      <4> DEFINE one == <<b>>
      <4>1. one \in Seq(Buffer)
        BY <2>5
      <4> HIDE DEF one
      <4>2. (as \o ds) \o one = as \o (ds \o one)
        BY <4>1, Associative, ZenonT(30)
      <4> QED
        BY <4>2 DEF one
    <3>3. (as \o ds) \o <<b>> = Append(as \o ds, b)
      BY <2>5, AppendIsConcat
    <3> QED
      BY <3>1, <3>2, <3>3
  <2>7. Cells(as \o bs) = Cells(as \o ds) \o BufferCells(b) /\ Cells(bs) = Cells(ds) \o BufferCells(b)
    BY <2>2, <2>5, <2>6, CellsAppend
  <2>8. Cells(as) \in Seq(Cell) /\ Cells(ds) \in Seq(Cell) /\ BufferCells(b) \in Seq(Cell)
    BY CellsType, BufferCellsAre
  <2>9. (Cells(as) \o Cells(ds)) \o BufferCells(b) = Cells(as) \o (Cells(ds) \o BufferCells(b))
    BY <2>8, Associative, ZenonT(30)
  <2> QED
    BY <2>4, <2>7, <2>9
<1> HIDE DEF Good
<1>3. ASSUME T # {} PROVE FALSE
  <2>1. PICK m \in T : \A k \in T : m <= k
    <3>1. T \subseteq Nat
      OBVIOUS
    <3> HIDE DEF T
    <3> QED
      BY <1>3, <3>1, LeastNumber
  <2>2. m # 0 /\ m - 1 \in Nat /\ m - 1 \notin T
    BY <1>1, <2>1
  <2>3. Good(m - 1) /\ m = (m - 1) + 1
    BY <2>1, <2>2
  <2> QED
    BY <1>2, <2>1, <2>2, <2>3
<1>4. Good(Len(cs))
  BY <1>3, LenProperties
<1>5. Cells(as \o cs) = Cells(as) \o Cells(cs)
  BY <1>4 DEF Good
<1> QED
  BY <1>5, ConcatProperties

\* A list, taken apart before its k-th buffer, and at it
LEMMA TakenApart ==
  ASSUME NEW bs \in Seq(Buffer), NEW k \in 1 .. Len(bs) + 1
  PROVE  LET front == SubSeq(bs, 1, k - 1)
             back == SubSeq(bs, k, Len(bs))
             behind == SubSeq(bs, k + 1, Len(bs))
         IN  /\ front \in Seq(Buffer) /\ back \in Seq(Buffer) /\ behind \in Seq(Buffer)
             /\ Cells(bs) = Cells(front) \o Cells(back)
             /\ k <= Len(bs) => /\ bs[k] \in Buffer /\ back = <<bs[k]>> \o behind
                                /\ Cells(back) = BufferCells(bs[k]) \o Cells(behind)
<1> DEFINE front == SubSeq(bs, 1, k - 1)
           back == SubSeq(bs, k, Len(bs))
           behind == SubSeq(bs, k + 1, Len(bs))
<1>1. Len(bs) \in Nat /\ \A i \in 1 .. Len(bs) : bs[i] \in Buffer
  BY LenProperties, ElementOfSeq
<1>2. front \in Seq(Buffer) /\ back \in Seq(Buffer) /\ behind \in Seq(Buffer)
  <2>1. \A i \in 1 .. k - 1 : bs[i] \in Buffer
    BY <1>1
  <2>2. \A i \in k .. Len(bs) : bs[i] \in Buffer
    BY <1>1
  <2>3. \A i \in k + 1 .. Len(bs) : bs[i] \in Buffer
    BY <1>1
  <2>4. 1 \in Int /\ k - 1 \in Int /\ k \in Int /\ k + 1 \in Int /\ Len(bs) \in Int
    BY <1>1
  <2> QED
    BY <2>1, <2>2, <2>3, <2>4, SubSeqProperties
<1>3. front \o back = bs
  <2>1. SubSeq(bs, 1, k - 1) \o SubSeq(bs, (k - 1) + 1, Len(bs)) = SubSeq(bs, 1, Len(bs))
    <3>1. 1 \in 1 .. Len(bs) + 1 /\ k - 1 \in 1 - 1 .. Len(bs) /\ Len(bs) \in k - 1 .. Len(bs)
      BY <1>1
    <3> QED
      BY <3>1, ConcatAdjacentSubSeq
  <2>2. (k - 1) + 1 = k
    BY <1>1
  <2> QED
    BY <2>1, <2>2, SubSeqFull
<1>4. Cells(bs) = Cells(front) \o Cells(back)
  BY <1>2, <1>3, CellsConcat
<1>5. ASSUME k <= Len(bs) PROVE bs[k] \in Buffer /\ back = <<bs[k]>> \o behind
  <2>1. k \in 1 .. Len(bs) /\ Len(bs) \in k .. Len(bs)
    BY <1>1, <1>5
  <2> QED
    BY <1>1, <2>1, SubSeqRecursiveFirst
<1>6. ASSUME k <= Len(bs) PROVE Cells(back) = BufferCells(bs[k]) \o Cells(behind)
  <2>1. <<bs[k]>> \in Seq(Buffer) /\ Cells(<<bs[k]>>) = BufferCells(bs[k])
    BY <1>5, <1>6, CellsOfOne
  <2> HIDE DEF back, behind
  <2>2. Cells(<<bs[k]>> \o behind) = Cells(<<bs[k]>>) \o Cells(behind)
    BY <1>2, <2>1, CellsConcat
  <2> QED
    BY <1>5, <1>6, <2>1, <2>2
<1> QED
  BY <1>2, <1>4, <1>5, <1>6
-----------------------------------------------------------------------------
(* Locations in a list *)

\* The recursion that defines Ends counts the cells.
LEMMA EndsAre ==
  ASSUME NEW bs \in Seq(Buffer)
  PROVE  /\ \A k \in 0 .. Len(bs) : Ends(bs)[k] = Len(Cells(SubSeq(bs, 1, k))) /\ Ends(bs)[k] \in Nat
         /\ Ends(bs)[0] = 0
         /\ \A k \in 1 .. Len(bs) : Ends(bs)[k] = Ends(bs)[k - 1] + bs[k].size
         /\ Ends(bs)[Len(bs)] = Len(Cells(bs))
<1> DEFINE n == Len(bs)
           C(k) == Cells(SubSeq(bs, 1, k))
           F == [k \in 0 .. n |-> Len(C(k))]
           Solves(f) == f = [k \in 0 .. n |-> IF k = 0 THEN 0 ELSE f[k - 1] + bs[k].size]
<1>1. n \in Nat
  BY LenProperties
<1>2. C(0) = <<>> /\ SubSeq(bs, 1, n) = bs
  <2>1. 1 \in Int /\ 0 \in Int /\ 0 < 1
    OBVIOUS
  <2>2. SubSeq(bs, 1, 0) = <<>>
    BY <2>1, SubSeqEmpty
  <2> QED
    BY <2>2, CellsAppend, SubSeqFull
<1>3. \A k \in 0 .. n : SubSeq(bs, 1, k) \in Seq(Buffer) /\ Len(C(k)) \in Nat
  <2> SUFFICES ASSUME NEW k \in 0 .. n PROVE SubSeq(bs, 1, k) \in Seq(Buffer) /\ Len(C(k)) \in Nat
    OBVIOUS
  <2>1. \A i \in 1 .. k : bs[i] \in Buffer
    BY <1>1, ElementOfSeq
  <2>2. SubSeq(bs, 1, k) \in Seq(Buffer)
    BY <1>1, <2>1, SubSeqProperties
  <2> QED
    BY <2>2, CellsType
<1>4. \A k \in 1 .. n : Len(C(k)) = Len(C(k - 1)) + bs[k].size
  <2> SUFFICES ASSUME NEW k \in 1 .. n PROVE Len(C(k)) = Len(C(k - 1)) + bs[k].size
    OBVIOUS
  <2>1. k - 1 \in 0 .. n /\ bs[k] \in Buffer /\ 1 \in 1 .. Len(bs) /\ k \in 1 .. Len(bs)
    BY <1>1, ElementOfSeq
  <2> DEFINE front == SubSeq(bs, 1, k - 1)
  <2>2. front \in Seq(Buffer) /\ Len(C(k - 1)) \in Nat
    BY <1>3, <2>1
  <2>3. SubSeq(bs, 1, k) = front \o <<bs[k]>>
    BY <2>1, SubSeqRecursiveSecond
  <2>4. <<bs[k]>> \in Seq(Buffer) /\ Cells(<<bs[k]>>) = BufferCells(bs[k])
    BY <2>1, CellsOfOne
  <2> HIDE DEF front
  <2>5. Cells(front \o <<bs[k]>>) = Cells(front) \o BufferCells(bs[k])
    BY <2>2, <2>4, CellsConcat
  <2>6. Cells(front) \in Seq(Cell) /\ BufferCells(bs[k]) \in Seq(Cell) /\ Len(BufferCells(bs[k])) = bs[k].size
    BY <2>1, <2>2, CellsType, BufferCellsAre
  <2>7. Len(Cells(front) \o BufferCells(bs[k])) = Len(Cells(front)) + bs[k].size
    BY <2>6, ConcatProperties
  <2> QED
    BY <2>3, <2>5, <2>7 DEF front
<1> HIDE DEF C
<1>5. Solves(F)
  <2> SUFFICES ASSUME NEW k \in 0 .. n PROVE F[k] = IF k = 0 THEN 0 ELSE F[k - 1] + bs[k].size
    OBVIOUS
  <2>1. CASE k = 0
    BY <1>2, <2>1
  <2>2. CASE k # 0
    <3>1. k \in 1 .. n /\ k - 1 \in 0 .. n
      BY <1>1, <2>2
    <3> HIDE DEF n
    <3> QED
      BY <1>4, <2>2, <3>1
  <2> QED
    BY <2>1, <2>2
<1>6. Solves(Ends(bs))
  <2>1. Solves(CHOOSE f : Solves(f))
    <3> HIDE DEF F, Solves
    <3> QED
      BY <1>5
  <2> QED
    BY <2>1 DEF Ends
<1>7. \A k \in 0 .. n : Ends(bs)[k] = F[k]
  <2> DEFINE T == {k \in 0 .. n : Ends(bs)[k] # F[k]}
             E == Ends(bs)
  <2>1. \A k \in 0 .. n : E[k] = IF k = 0 THEN 0 ELSE E[k - 1] + bs[k].size
    BY <1>6
  <2>2. \A k \in 0 .. n : F[k] = IF k = 0 THEN 0 ELSE F[k - 1] + bs[k].size
    BY <1>5
  <2>3. ASSUME T # {} PROVE FALSE
    <3>1. PICK i \in T : \A j \in T : i <= j
      <4>1. T \subseteq Nat
        BY <1>1
      <4> HIDE DEF T
      <4> QED
        BY <2>3, <4>1, LeastNumber
    <3> HIDE DEF E, F, n
    <3>2. i # 0
      BY <1>1, <2>1, <2>2, <3>1 DEF E
    <3>3. i - 1 \in 0 .. n /\ E[i - 1] = F[i - 1]
      BY <1>1, <3>1, <3>2 DEF E
    <3>4. E[i] = F[i]
      BY <1>1, <2>1, <2>2, <3>1, <3>2, <3>3
    <3> QED
      BY <3>1, <3>4 DEF E
  <2> QED
    BY <2>3
<1>8. \A k \in 0 .. n : Ends(bs)[k] = Len(C(k)) /\ Ends(bs)[k] \in Nat
  BY <1>3, <1>7
<1>9. Ends(bs)[0] = 0
  BY <1>1, <1>2, <1>8
<1>10. \A k \in 1 .. n : Ends(bs)[k] = Ends(bs)[k - 1] + bs[k].size
  <2> SUFFICES ASSUME NEW k \in 1 .. n PROVE Ends(bs)[k] = Ends(bs)[k - 1] + bs[k].size
    OBVIOUS
  <2>1. k \in 0 .. n /\ k - 1 \in 0 .. n
    BY <1>1
  <2> HIDE DEF n
  <2> QED
    BY <1>4, <1>8, <2>1
<1>11. Ends(bs)[n] = Len(Cells(bs))
  <2> HIDE DEF n
  <2>1. C(n) = Cells(bs)
    BY <1>2, Zenon DEF C
  <2>2. n \in 0 .. n
    BY <1>1
  <2> QED
    BY <1>8, <2>1, <2>2
<1> QED
  BY <1>8, <1>9, <1>10, <1>11 DEF C

\* Covering(bs, n) is the first k such that k buffers hold n cells.
LEMMA CoveringIs ==
  ASSUME NEW bs \in Seq(Buffer), NEW n \in 0 .. Len(Cells(bs))
  PROVE  /\ Covering(bs, n) \in 0 .. Len(bs)
         /\ Ends(bs)[Covering(bs, n)] >= n
         /\ \A j \in 0 .. Covering(bs, n) - 1 : Ends(bs)[j] < n
<1> DEFINE T == {k \in 0 .. Len(bs) : Ends(bs)[k] >= n}
<1>1. Len(bs) \in Nat /\ Len(Cells(bs)) \in Nat
  BY LenProperties, CellsType
<1>2. T # {}
  BY <1>1, EndsAre
<1>3. PICK k \in T : \A j \in T : k <= j
  <2>1. T \subseteq Nat
    BY <1>1
  <2> HIDE DEF T
  <2> QED
    BY <1>2, <2>1, LeastNumber
<1>4. \A j \in 0 .. Len(bs) : Ends(bs)[j] \in Nat
  BY EndsAre
<1>5. \A j \in 0 .. k - 1 : Ends(bs)[j] < n
  BY <1>1, <1>3, <1>4
<1> DEFINE P(x) == Ends(bs)[x] >= n /\ \A j \in 0 .. x - 1 : Ends(bs)[j] < n
<1>6. P(k) /\ k \in 0 .. Len(bs)
  BY <1>3, <1>5
<1>7. Covering(bs, n) = CHOOSE x \in 0 .. Len(bs) : P(x)
  BY DEF Covering
<1> HIDE DEF P, T
<1>8. P(Covering(bs, n)) /\ Covering(bs, n) \in 0 .. Len(bs)
  BY <1>6, <1>7
<1> QED
  BY <1>8 DEF P

\* findLocation finds the buffer and the offset of the n-th cell.
LEMMA Location ==
  ASSUME NEW bs \in Seq(Buffer), NEW n \in 0 .. Len(Cells(bs))
  PROVE  LET l == FindLocation(bs, n)
         IN  /\ l.i \in 1 .. Len(bs) + 1 /\ l.offset \in Nat
             /\ l.offset # 0 => l.i <= Len(bs) /\ l.offset < bs[l.i].size
             /\ Len(Cells(SubSeq(bs, 1, l.i - 1))) + l.offset = n
<1> DEFINE k == Covering(bs, n)
           E == Ends(bs)
           l == FindLocation(bs, n)
<1>1. Len(bs) \in Nat /\ Len(Cells(bs)) \in Nat /\ n \in Nat
  BY LenProperties, CellsType
<1>2. k \in 0 .. Len(bs) /\ E[k] >= n /\ \A j \in 0 .. k - 1 : E[j] < n
  BY CoveringIs
<1>3. /\ \A j \in 0 .. Len(bs) : E[j] = Len(Cells(SubSeq(bs, 1, j))) /\ E[j] \in Nat
      /\ E[0] = 0
      /\ \A j \in 1 .. Len(bs) : E[j] = E[j - 1] + bs[j].size
  BY EndsAre
<1>4. l = IF E[k] = n THEN [i |-> k + 1, offset |-> 0] ELSE [i |-> k, offset |-> n - (E[k] - bs[k].size)]
  BY DEF FindLocation
<1> HIDE DEF k, E, l
<1>5. CASE E[k] = n
  <2>1. l.i = k + 1 /\ l.offset = 0 /\ l.i - 1 = k
    BY <1>2, <1>4, <1>5
  <2> QED
    BY <1>1, <1>2, <1>3, <1>5, <2>1 DEF l
<1>6. CASE E[k] # n
  <2>1. l.i = k /\ l.offset = n - (E[k] - bs[k].size)
    BY <1>4, <1>6
  <2>2. k # 0
    BY <1>1, <1>2, <1>3, <1>6
  <2>3. k \in 1 .. Len(bs) /\ k - 1 \in 0 .. Len(bs) /\ k - 1 \in 0 .. k - 1 /\ k \in 0 .. Len(bs)
    BY <1>1, <1>2, <2>2
  <2>4. E[k] = E[k - 1] + bs[k].size /\ E[k] \in Nat /\ E[k - 1] \in Nat /\ E[k - 1] < n /\ E[k] > n
    BY <1>1, <1>2, <1>3, <1>6, <2>3
  <2>5. bs[k].size \in Nat
    BY <2>3, ElementOfSeq, BufferCellsAre
  <2>6. l.offset = n - E[k - 1] /\ l.offset \in Nat /\ l.offset < bs[k].size
    <3>1. \A x, y, z \in Nat : x = y + z /\ y < n /\ n < x => /\ n - (x - z) = n - y /\ n - y \in Nat
                                                              /\ n - y < z
      BY <1>1
    <3> DEFINE x == E[k]
               y == E[k - 1]
               z == bs[k].size
    <3>2. x \in Nat /\ y \in Nat /\ z \in Nat /\ x = y + z /\ y < n /\ n < x /\ l.offset = n - (x - z)
      BY <1>1, <2>1, <2>4, <2>5
    <3> HIDE DEF x, y, z
    <3>3. l.offset = n - y /\ l.offset \in Nat /\ l.offset < z
      BY <3>1, <3>2
    <3> QED
      BY <3>3 DEF y, z
  <2>7. Len(Cells(SubSeq(bs, 1, k - 1))) = E[k - 1]
    BY <1>3, <2>3
  <2> QED
    BY <1>1, <2>1, <2>3, <2>4, <2>6, <2>7, SMTT(30) DEF l
<1> QED
  BY <1>5, <1>6
-----------------------------------------------------------------------------
(* Splitting a list *)

\* A buffer that is split keeps its cells.
LEMMA SplitBuffer ==
  ASSUME NEW b \in Buffer, NEW n \in 0 .. b.size
  PROVE  /\ UpTo(b, n) \in Buffer /\ From(b, n) \in Buffer
         /\ UpTo(b, n).size = n /\ From(b, n).size = b.size - n
         /\ From(b, n).base = b.base /\ From(b, n).data = b.data + n
         /\ BufferCells(b) = BufferCells(UpTo(b, n)) \o BufferCells(From(b, n))
<1> DEFINE u == UpTo(b, n)
           f == From(b, n)
<1>1. /\ b \in [base : Blocks, data : 0 .. BlockMax, size : 0 .. BlockMax]
      /\ b.data + b.size <= BlockMax /\ b.data \in Nat /\ b.size \in Nat /\ n \in Nat /\ BlockMax \in Nat
  BY DEF Buffer
<1>2. u = [base |-> b.base, data |-> b.data, size |-> n]
  BY <1>1 DEF UpTo
<1>3. f = [base |-> b.base, data |-> b.data + n, size |-> b.size - n]
  <2> DEFINE c == [b EXCEPT !.data = @ + n]
  <2>1. c = [base |-> b.base, data |-> b.data + n, size |-> b.size]
    BY <1>1
  <2>2. f = [c EXCEPT !.size = @ - n]
    BY Zenon DEF From
  <2> HIDE DEF c
  <2> QED
    BY <1>1, <2>1, <2>2
<1> HIDE DEF u, f
<1>4. u.base = b.base /\ u.data = b.data /\ u.size = n /\ f.base = b.base /\ f.data = b.data + n /\ f.size = b.size - n
  BY <1>2, <1>3
<1>5. u \in Buffer
  BY <1>1, <1>2 DEF Buffer
<1>6. f \in Buffer
  BY <1>1, <1>3 DEF Buffer
<1>7. /\ BufferCells(b) \in Seq(Cell) /\ Len(BufferCells(b)) = b.size
      /\ \A i \in 1 .. b.size : BufferCells(b)[i] = <<b.base, b.data + i>>
  BY BufferCellsAre
<1>8. /\ BufferCells(u) \in Seq(Cell) /\ Len(BufferCells(u)) = n
      /\ \A i \in 1 .. n : BufferCells(u)[i] = <<b.base, b.data + i>>
  BY <1>4, <1>5, BufferCellsAre
<1>9. /\ BufferCells(f) \in Seq(Cell) /\ Len(BufferCells(f)) = b.size - n
      /\ \A i \in 1 .. b.size - n : BufferCells(f)[i] = <<b.base, b.data + n + i>>
  BY <1>4, <1>6, BufferCellsAre
<1> DEFINE B == BufferCells(b)
           U == BufferCells(u)
           F == BufferCells(f)
<1>10. B = U \o F
  <2> HIDE DEF B, U, F
  <2>1. U \o F \in Seq(Cell) /\ Len(U \o F) = b.size
    <3>1. n + (b.size - n) = b.size
      BY <1>1
    <3>2. U \in Seq(Cell) /\ F \in Seq(Cell) /\ Len(U) + Len(F) = n + (b.size - n)
      BY <1>8, <1>9 DEF U, F
    <3>3. U \o F \in Seq(Cell) /\ Len(U \o F) = Len(U) + Len(F)
      BY <3>2, ConcatProperties
    <3> QED
      BY <3>1, <3>2, <3>3
  <2>2. \A i \in 1 .. b.size : (U \o F)[i] = IF i <= n THEN U[i] ELSE F[i - n]
    <3>1. n + (b.size - n) = b.size
      BY <1>1
    <3> QED
      BY <1>8, <1>9, <3>1, ConcatProperties, SMTT(30) DEF U, F
  <2>3. ASSUME NEW i \in 1 .. b.size PROVE B[i] = (U \o F)[i]
    <3>1. CASE i <= n
      <4>1. i \in 1 .. n
        BY <1>1, <3>1
      <4> QED
        BY <1>7, <1>8, <2>2, <3>1, <4>1 DEF B, U
    <3>2. CASE ~(i <= n)
      <4>1. i - n \in 1 .. b.size - n /\ b.data + n + (i - n) = b.data + i
        BY <1>1, <3>2
      <4> QED
        BY <1>7, <1>9, <2>2, <3>2, <4>1 DEF B, F
    <3> QED
      BY <3>1, <3>2
  <2> QED
    BY <1>7, <2>1, <2>3, SeqEqual DEF B
<1> QED
  BY <1>4, <1>5, <1>6, <1>10 DEF u, f

\* A list, split inside its k-th buffer
LEMMA SplitAt ==
  ASSUME NEW bs \in Seq(Buffer), NEW k \in 1 .. Len(bs), NEW n \in 0 .. bs[k].size
  PROVE  LET front == SubSeq(bs, 1, k - 1) \o <<UpTo(bs[k], n)>>
             behind == SubSeq(bs, k + 1, Len(bs))
             back == <<From(bs[k], n)>> \o behind
         IN  /\ front \in Seq(Buffer) /\ back \in Seq(Buffer) /\ behind \in Seq(Buffer)
             /\ Cells(bs) = Cells(front) \o Cells(back)
             /\ Len(Cells(front)) = Len(Cells(SubSeq(bs, 1, k - 1))) + n
             /\ Cells(back) = BufferCells(From(bs[k], n)) \o Cells(behind)
<1> DEFINE f == SubSeq(bs, 1, k - 1)
           h == SubSeq(bs, k + 1, Len(bs))
           b == bs[k]
           u == UpTo(b, n)
           v == From(b, n)
<1>1. Len(bs) \in Nat /\ k \in 1 .. Len(bs) + 1 /\ k <= Len(bs) /\ b \in Buffer
  BY LenProperties, ElementOfSeq
<1>2. /\ f \in Seq(Buffer) /\ h \in Seq(Buffer) /\ SubSeq(bs, k, Len(bs)) \in Seq(Buffer)
      /\ Cells(bs) = Cells(f) \o Cells(SubSeq(bs, k, Len(bs)))
      /\ Cells(SubSeq(bs, k, Len(bs))) = BufferCells(b) \o Cells(h)
  BY <1>1, TakenApart
<1> HIDE DEF f, h, b
<1>3. u \in Buffer /\ v \in Buffer /\ BufferCells(b) = BufferCells(u) \o BufferCells(v) /\ u.size = n
  BY <1>1, SplitBuffer DEF b
<1> HIDE DEF u, v
<1>4. /\ <<u>> \in Seq(Buffer) /\ Cells(<<u>>) = BufferCells(u)
      /\ <<v>> \in Seq(Buffer) /\ Cells(<<v>>) = BufferCells(v)
  BY <1>3, CellsOfOne
<1>5. f \o <<u>> \in Seq(Buffer) /\ Cells(f \o <<u>>) = Cells(f) \o BufferCells(u)
  BY <1>2, <1>4, CellsConcat, ZenonT(30)
<1>6. <<v>> \o h \in Seq(Buffer) /\ Cells(<<v>> \o h) = BufferCells(v) \o Cells(h)
  <2> DEFINE one == <<v>>
  <2>1. one \in Seq(Buffer) /\ Cells(one) = BufferCells(v)
    BY <1>4
  <2> HIDE DEF one
  <2>2. one \o h \in Seq(Buffer) /\ Cells(one \o h) = Cells(one) \o Cells(h)
    BY <1>2, <2>1, CellsConcat
  <2> QED
    BY <2>1, <2>2 DEF one
<1>7. /\ BufferCells(u) \in Seq(Cell) /\ BufferCells(v) \in Seq(Cell) /\ Len(BufferCells(u)) = n
      /\ Cells(f) \in Seq(Cell) /\ Cells(h) \in Seq(Cell)
  BY <1>2, <1>3, BufferCellsAre, CellsType
<1>8. Len(Cells(f) \o BufferCells(u)) = Len(Cells(f)) + n
  BY <1>7, ConcatProperties
<1>9. Cells(f) \o ((BufferCells(u) \o BufferCells(v)) \o Cells(h)) =
        (Cells(f) \o BufferCells(u)) \o (BufferCells(v) \o Cells(h))
  <2>1. BufferCells(v) \o Cells(h) \in Seq(Cell)
    BY <1>7, ConcatProperties
  <2>2. (BufferCells(u) \o BufferCells(v)) \o Cells(h) = BufferCells(u) \o (BufferCells(v) \o Cells(h))
    BY <1>7, Associative, ZenonT(30)
  <2>3. (Cells(f) \o BufferCells(u)) \o (BufferCells(v) \o Cells(h)) =
          Cells(f) \o (BufferCells(u) \o (BufferCells(v) \o Cells(h)))
    BY <1>7, <2>1, Associative, ZenonT(30)
  <2> QED
    BY <2>2, <2>3, Zenon
<1>10. Cells(bs) = Cells(f \o <<u>>) \o Cells(<<v>> \o h)
  BY <1>2, <1>3, <1>5, <1>6, <1>9, Zenon
<1> QED
  BY <1>2, <1>5, <1>6, <1>8, <1>10 DEF f, h, b, u, v

\* TakeCells and DropCells split the list behind its first n cells.
LEMMA Split ==
  ASSUME NEW bs \in Seq(Buffer), NEW n \in 0 .. Len(Cells(bs))
  PROVE  /\ TakeCells(bs, n) \in Seq(Buffer) /\ DropCells(bs, n) \in Seq(Buffer)
         /\ Cells(bs) = Cells(TakeCells(bs, n)) \o Cells(DropCells(bs, n))
         /\ Len(Cells(TakeCells(bs, n))) = n
<1> DEFINE l == FindLocation(bs, n)
           take == TakeCells(bs, n)
           drop == DropCells(bs, n)
<1>1. /\ l.i \in 1 .. Len(bs) + 1 /\ l.offset \in Nat
      /\ l.offset # 0 => l.i <= Len(bs) /\ l.offset < bs[l.i].size
      /\ Len(Cells(SubSeq(bs, 1, l.i - 1))) + l.offset = n
  BY Location
<1>2. take = SubSeq(bs, 1, l.i - 1) \o (IF l.offset = 0 THEN <<>> ELSE <<UpTo(bs[l.i], l.offset)>>)
  BY DEF TakeCells
<1>3. drop = IF l.offset = 0 THEN SubSeq(bs, l.i, Len(bs))
             ELSE <<From(bs[l.i], l.offset)>> \o SubSeq(bs, l.i + 1, Len(bs))
  BY DEF DropCells
<1> HIDE DEF l, take, drop
<1>4. CASE l.offset = 0
  <2>1. /\ SubSeq(bs, 1, l.i - 1) \in Seq(Buffer) /\ SubSeq(bs, l.i, Len(bs)) \in Seq(Buffer)
        /\ Cells(bs) = Cells(SubSeq(bs, 1, l.i - 1)) \o Cells(SubSeq(bs, l.i, Len(bs)))
    BY <1>1, TakenApart
  <2>2. take = SubSeq(bs, 1, l.i - 1)
    <3>1. SubSeq(bs, 1, l.i - 1) \o <<>> = SubSeq(bs, 1, l.i - 1)
      BY <2>1, ConcatEmptySeq
    <3> QED
      BY <1>2, <1>4, <3>1
  <2>3. drop = SubSeq(bs, l.i, Len(bs))
    BY <1>3, <1>4
  <2>4. Len(Cells(SubSeq(bs, 1, l.i - 1))) = n
    <3>1. Len(Cells(SubSeq(bs, 1, l.i - 1))) \in Nat
      BY <2>1, CellsType
    <3> QED
      BY <1>1, <1>4, <3>1
  <2> QED
    BY <2>1, <2>2, <2>3, <2>4 DEF take, drop
<1>5. CASE l.offset # 0
  <2>1. Len(bs) \in Nat
    BY LenProperties
  <2>2. l.i \in 1 .. Len(bs)
    BY <1>1, <1>5, <2>1
  <2>3. bs[l.i].size \in Nat
    BY <2>2, ElementOfSeq, BufferCellsAre
  <2>4. l.offset \in 0 .. bs[l.i].size
    BY <1>1, <1>5, <2>3, SMTT(30)
  <2>5. /\ take = SubSeq(bs, 1, l.i - 1) \o <<UpTo(bs[l.i], l.offset)>>
        /\ drop = <<From(bs[l.i], l.offset)>> \o SubSeq(bs, l.i + 1, Len(bs))
    BY <1>2, <1>3, <1>5
  <2>6. /\ take \in Seq(Buffer) /\ drop \in Seq(Buffer) /\ Cells(bs) = Cells(take) \o Cells(drop)
        /\ Len(Cells(take)) = Len(Cells(SubSeq(bs, 1, l.i - 1))) + l.offset
    BY <2>2, <2>4, <2>5, SplitAt
  <2> QED
    BY <1>1, <2>6 DEF take, drop
<1> QED
  BY <1>4, <1>5
-----------------------------------------------------------------------------
(* The inductive invariant *)

\* The members of a stream buffer
Members == [buffers : Seq(Buffer), usedSize : Nat, totalSize : Nat]

\* The cells of stream buffer o, in the state s of all of them
CellsIn(s, o) == Cells(s[o].buffers)

\* No stream buffer has the i-th cell of o at any other place.
Own(s, o, i) ==
    \A p \in Objects : \A j \in 1 .. Len(CellsIn(s, p)) :
        p # o \/ j # i => CellsIn(s, p)[j] # CellsIn(s, o)[i]

\* The counters are right, and a free cell is at one place only: also the same
\* stream buffer does not have it twice.
Sound(s) ==
    /\ s \in [Objects -> Members]
    /\ \A o \in Objects : s[o].totalSize = Len(CellsIn(s, o)) /\ s[o].usedSize <= s[o].totalSize
    /\ \A o \in Objects : \A i \in s[o].usedSize + 1 .. s[o].totalSize : Own(s, o, i)

Memory == [Blocks -> [1 .. BlockMax -> 0 .. MaxBytes]]
Byte(m, c) == m[c[1]][c[2]]

Inv == Sound(sb) /\ mem \in Memory /\ stored \in 0 .. MaxBytes

\* What Sound says of one stream buffer
LEMMA SoundMembers ==
  ASSUME NEW s, Sound(s), NEW o \in Objects
  PROVE  /\ s[o] \in Members /\ s[o].buffers \in Seq(Buffer) /\ s[o].usedSize \in Nat /\ s[o].totalSize \in Nat
         /\ s[o].totalSize = Len(CellsIn(s, o)) /\ s[o].usedSize <= s[o].totalSize
         /\ CellsIn(s, o) \in Seq(Cell) /\ CellsIn(s, o) = Cells(s[o].buffers)
         /\ \A j \in 1 .. Len(CellsIn(s, o)) : CellsIn(s, o)[j] \in Cell
         /\ \A i \in s[o].usedSize + 1 .. s[o].totalSize : Own(s, o, i)
<1>1. s[o] \in Members /\ s[o].totalSize = Len(CellsIn(s, o)) /\ s[o].usedSize <= s[o].totalSize
  BY DEF Sound
<1>2. s[o].buffers \in Seq(Buffer) /\ s[o].usedSize \in Nat /\ s[o].totalSize \in Nat
  BY <1>1 DEF Members
<1>3. CellsIn(s, o) \in Seq(Cell) /\ CellsIn(s, o) = Cells(s[o].buffers)
  BY <1>2, CellsType DEF CellsIn
<1>4. \A j \in 1 .. Len(CellsIn(s, o)) : CellsIn(s, o)[j] \in Cell
  BY <1>3, ElementOfSeq
<1>5. \A i \in s[o].usedSize + 1 .. s[o].totalSize : Own(s, o, i)
  BY DEF Sound
<1> QED
  BY <1>1, <1>2, <1>3, <1>4, <1>5

\* From s, x cells of o behind the first a ones are replaced by n cells of a new block, with the members t
\* as the result.  That is what allocate, getMutableArray, cutHead and forceLinearize do; n and x may be 0.
Replaces(s, o, t, a, x, n) ==
    LET old == CellsIn(s, o)
        new == Cells(t.buffers)
    IN  /\ Sound(s) /\ o \in Objects /\ t \in Members /\ a \in Nat /\ x \in Nat /\ n \in Nat
        /\ a + x <= Len(old) /\ Len(new) = Len(old) - x + n
        /\ \A i \in 1 .. a : new[i] = old[i]
        /\ \A i \in a + n + 1 .. Len(new) : new[i] = old[i - n + x]
        /\ \A i \in a + 1 .. a + n : \A p \in Objects : \A j \in 1 .. Len(CellsIn(s, p)) :
               CellsIn(s, p)[j] # new[i]
        /\ \A i, j \in a + 1 .. a + n : i # j => new[i] # new[j]
        /\ t.totalSize = Len(new) /\ t.usedSize <= t.totalSize
        /\ \A i \in 1 .. a : i > t.usedSize => i > s[o].usedSize
        /\ \A i \in a + n + 1 .. Len(new) : i > t.usedSize => i - n + x > s[o].usedSize

\* The result is sound.
LEMMA Replaced ==
  ASSUME NEW s, NEW o, NEW t, NEW a, NEW x, NEW n, Replaces(s, o, t, a, x, n)
  PROVE  Sound([s EXCEPT ![o] = t])
<1> SUFFICES ASSUME Sound(s), o \in Objects, t \in Members, a \in Nat, x \in Nat, n \in Nat,
                    LET old == CellsIn(s, o)
                        new == Cells(t.buffers)
                    IN  /\ a + x <= Len(old) /\ Len(new) = Len(old) - x + n
                        /\ \A i \in 1 .. a : new[i] = old[i]
                        /\ \A i \in a + n + 1 .. Len(new) : new[i] = old[i - n + x]
                        /\ \A i \in a + 1 .. a + n : \A p \in Objects : \A j \in 1 .. Len(CellsIn(s, p)) :
                               CellsIn(s, p)[j] # new[i]
                        /\ \A i, j \in a + 1 .. a + n : i # j => new[i] # new[j]
                        /\ t.totalSize = Len(new) /\ t.usedSize <= t.totalSize
                        /\ \A i \in 1 .. a : i > t.usedSize => i > s[o].usedSize
                        /\ \A i \in a + n + 1 .. Len(new) : i > t.usedSize => i - n + x > s[o].usedSize
             PROVE  Sound([s EXCEPT ![o] = t])
  BY Zenon DEF Replaces
<1> DEFINE r == [s EXCEPT ![o] = t]
           old == CellsIn(s, o)
           new == Cells(t.buffers)
           u == s[o].usedSize
           w == t.usedSize
<1>1. /\ a + x <= Len(old) /\ Len(new) = Len(old) - x + n
      /\ \A i \in 1 .. a : new[i] = old[i]
      /\ \A i \in a + n + 1 .. Len(new) : new[i] = old[i - n + x]
      /\ \A i \in a + 1 .. a + n : \A p \in Objects : \A j \in 1 .. Len(CellsIn(s, p)) :
             CellsIn(s, p)[j] # new[i]
      /\ \A i, j \in a + 1 .. a + n : i # j => new[i] # new[j]
      /\ t.totalSize = Len(new) /\ w <= t.totalSize
      /\ \A i \in 1 .. a : i > w => i > u
      /\ \A i \in a + n + 1 .. Len(new) : i > w => i - n + x > u
  OBVIOUS
<1>2. r \in [Objects -> Members] /\ r[o] = t /\ \A p \in Objects \ {o} : r[p] = s[p]
  BY DEF Sound
<1> HIDE DEF r
<1>3. CellsIn(r, o) = new /\ \A p \in Objects \ {o} : CellsIn(r, p) = CellsIn(s, p)
  BY <1>2 DEF CellsIn
<1>4. w \in Nat /\ u \in Nat /\ Len(new) \in Nat /\ Len(old) \in Nat /\ s[o].totalSize = Len(old)
  <2>1. t.buffers \in Seq(Buffer) /\ w \in Nat
    BY DEF Members
  <2> QED
    BY <2>1, SoundMembers, CellsType
<1>5. \A p \in Objects : r[p].totalSize = Len(CellsIn(r, p)) /\ r[p].usedSize <= r[p].totalSize
  <2> SUFFICES ASSUME NEW p \in Objects
               PROVE  r[p].totalSize = Len(CellsIn(r, p)) /\ r[p].usedSize <= r[p].totalSize
    OBVIOUS
  <2>1. CASE p = o
    BY <1>1, <1>2, <1>3, <2>1
  <2>2. CASE p # o
    <3>1. r[p] = s[p] /\ CellsIn(r, p) = CellsIn(s, p)
      BY <1>2, <1>3, <2>2
    <3> QED
      BY <3>1, SoundMembers
  <2> QED
    BY <2>1, <2>2
<1>6. \A i \in u + 1 .. Len(old) : Own(s, o, i)
  BY <1>4, SoundMembers
<1> DEFINE O == Len(old)
           N == Len(new)
<1>10. w \in Nat /\ u \in Nat /\ N \in Nat /\ O \in Nat /\ a + x <= O /\ N = O - x + n
  BY <1>1, <1>4
<1>11. /\ \A i \in 1 .. a : new[i] = old[i] /\ (i > w => i > u)
       /\ \A i \in a + n + 1 .. N : new[i] = old[i - n + x] /\ (i > w => i - n + x > u)
  BY <1>1
<1>12. /\ \A i \in a + 1 .. a + n : \A p \in Objects : \A j \in 1 .. Len(CellsIn(s, p)) : CellsIn(s, p)[j] # new[i]
       /\ \A i, j \in a + 1 .. a + n : i # j => new[i] # new[j]
  BY <1>1
<1>13. t.totalSize = N
  BY <1>1
<1> HIDE DEF old, new, u, w, O, N
<1>14. /\ \A j \in 1 .. a : j \in 1 .. O
       /\ \A j \in a + n + 1 .. N : j - n + x \in 1 .. O
       /\ \A j \in 1 .. N : j \in 1 .. a \/ j \in a + 1 .. a + n \/ j \in a + n + 1 .. N
       /\ \A i \in 1 .. a, j \in a + n + 1 .. N : j - n + x # i
       /\ \A i, j \in a + n + 1 .. N : i # j => j - n + x # i - n + x
  <2>1. \A j \in 1 .. a : j \in 1 .. O
    BY <1>10
  <2>2. \A j \in a + n + 1 .. N : j - n + x \in 1 .. O
    BY <1>10
  <2>3. \A j \in 1 .. N : j \in 1 .. a \/ j \in a + 1 .. a + n \/ j \in a + n + 1 .. N
    BY <1>10
  <2>4. \A i \in 1 .. a, j \in a + n + 1 .. N : j - n + x # i
    BY <1>10
  <2>5. \A i, j \in a + n + 1 .. N : i # j => j - n + x # i - n + x
    BY <1>10
  <2> QED
    BY <2>1, <2>2, <2>3, <2>4, <2>5
<1>7. ASSUME NEW i \in w + 1 .. N PROVE Own(r, o, i)
  <2> SUFFICES ASSUME NEW p \in Objects, NEW j \in 1 .. Len(CellsIn(r, p)), p # o \/ j # i
               PROVE  CellsIn(r, p)[j] # new[i]
    BY <1>3 DEF Own
  <2>1. CASE i \in a + 1 .. a + n
    <3>1. CASE p # o
      BY <1>3, <1>12, <2>1, <3>1
    <3>2. CASE p = o
      <4>1. j \in 1 .. N /\ j # i /\ CellsIn(r, p) = new
        BY <1>3, <3>2 DEF N
      <4>2. CASE j \in 1 .. a
        <5>1. new[j] = old[j] /\ j \in 1 .. O
          BY <1>11, <1>14, <4>2
        <5> QED
          BY <1>12, <2>1, <4>1, <5>1 DEF old, O
      <4>3. CASE j \in a + 1 .. a + n
        BY <1>12, <2>1, <4>1, <4>3
      <4>4. CASE j \in a + n + 1 .. N
        <5>1. new[j] = old[j - n + x] /\ j - n + x \in 1 .. O
          BY <1>11, <1>14, <4>4
        <5> QED
          BY <1>12, <2>1, <4>1, <5>1 DEF old, O
      <4> QED
        BY <1>14, <4>1, <4>2, <4>3, <4>4
    <3> QED
      BY <3>1, <3>2
  <2>2. ASSUME NEW k \in u + 1 .. O, new[i] = old[k],
               \A m \in 1 .. a : m # i => m # k,
               \A m \in a + n + 1 .. N : m # i => m - n + x # k
        PROVE  CellsIn(r, p)[j] # new[i]
    <3>1. Own(s, o, k)
      BY <1>6, <2>2 DEF O
    <3>2. CASE p # o
      BY <1>3, <2>2, <3>1, <3>2 DEF Own, old
    <3>3. CASE p = o
      <4>1. j \in 1 .. N /\ j # i /\ CellsIn(r, p) = new
        BY <1>3, <3>3 DEF N
      <4>2. \A m \in 1 .. O : m # k => old[m] # old[k]
        BY <3>1 DEF Own, old, O
      <4>3. CASE j \in 1 .. a
        <5>1. new[j] = old[j] /\ j \in 1 .. O /\ j # k
          BY <1>11, <1>14, <2>2, <4>1, <4>3
        <5> QED
          BY <2>2, <4>1, <4>2, <5>1
      <4>4. CASE j \in a + 1 .. a + n
        <5>1. k \in 1 .. Len(CellsIn(s, o))
          BY <1>10, <2>2 DEF old, O
        <5>2. old[k] # new[j]
          BY <1>12, <4>4, <5>1 DEF old
        <5> QED
          BY <2>2, <4>1, <5>2
      <4>5. CASE j \in a + n + 1 .. N
        <5>1. new[j] = old[j - n + x] /\ j - n + x \in 1 .. O /\ j - n + x # k
          BY <1>11, <1>14, <2>2, <4>1, <4>5
        <5> QED
          BY <2>2, <4>1, <4>2, <5>1
      <4> QED
        BY <1>14, <4>1, <4>3, <4>4, <4>5
    <3> QED
      BY <3>2, <3>3
  <2>3. CASE i \in 1 .. a
    <3>1. new[i] = old[i] /\ i > u /\ i \in 1 .. O
      BY <1>10, <1>11, <1>14, <2>3
    <3>3. i \in u + 1 .. O
      BY <1>10, <3>1
    <3>2. \A m \in a + n + 1 .. N : m - n + x # i
      BY <1>11, <1>14, <2>3
    <3> QED
      BY <2>2, <3>1, <3>2, <3>3
  <2>4. CASE i \in a + n + 1 .. N
    <3> DEFINE k == i - n + x
    <3>4. new[i] = old[k] /\ k > u /\ k \in 1 .. O
      BY <1>10, <1>11, <1>14, <2>4
    <3>2. \A m \in 1 .. a : m # k
      BY <1>14, <2>4
    <3>3. \A m \in a + n + 1 .. N : m # i => m - n + x # k
      BY <1>14, <2>4
    <3> HIDE DEF k
    <3>1. k \in u + 1 .. O
      BY <1>10, <3>4
    <3> QED
      BY <2>2, <3>1, <3>2, <3>3, <3>4
  <2> QED
    BY <1>10, <1>14, <2>1, <2>3, <2>4
<1>8. ASSUME NEW q \in Objects \ {o}, NEW i \in s[q].usedSize + 1 .. s[q].totalSize PROVE Own(r, q, i)
  <2>1. Own(s, q, i) /\ i \in 1 .. Len(CellsIn(s, q)) /\ CellsIn(r, q) = CellsIn(s, q)
    <3>1. s[q].usedSize \in Nat /\ s[q].totalSize \in Nat /\ s[q].totalSize = Len(CellsIn(s, q)) /\ Own(s, q, i)
      BY SoundMembers
    <3>2. i \in 1 .. s[q].totalSize
      <4>1. \A y, z \in Nat : \A k \in y + 1 .. z : k \in 1 .. z
        OBVIOUS
      <4> QED
        BY <3>1, <4>1
    <3>3. CellsIn(r, q) = CellsIn(s, q)
      BY <1>3
    <3> QED
      BY <3>1, <3>2, <3>3
  <2> SUFFICES ASSUME NEW p \in Objects, NEW j \in 1 .. Len(CellsIn(r, p)), p # q \/ j # i
               PROVE  CellsIn(r, p)[j] # CellsIn(s, q)[i]
    BY <2>1 DEF Own
  <2>2. CASE p # o
    BY <1>3, <2>1, <2>2 DEF Own
  <2>3. CASE p = o
    <3>1. j \in 1 .. N /\ CellsIn(r, p) = new
      BY <1>3, <2>3 DEF N
    <3>2. \A m \in 1 .. O : old[m] # CellsIn(s, q)[i]
      BY <2>1 DEF Own, old, O
    <3>3. CASE j \in 1 .. a
      <4>1. new[j] = old[j] /\ j \in 1 .. O
        BY <1>11, <1>14, <3>3
      <4> QED
        BY <3>1, <3>2, <4>1
    <3>4. CASE j \in a + 1 .. a + n
      BY <1>12, <2>1, <3>1, <3>4
    <3>5. CASE j \in a + n + 1 .. N
      <4>1. new[j] = old[j - n + x] /\ j - n + x \in 1 .. O
        BY <1>11, <1>14, <3>5
      <4> QED
        BY <3>1, <3>2, <4>1
    <3> QED
      BY <1>14, <3>1, <3>3, <3>4, <3>5
  <2> QED
    BY <2>2, <2>3
<1>9. ASSUME NEW q \in Objects, NEW i \in r[q].usedSize + 1 .. r[q].totalSize PROVE Own(r, q, i)
  <2>1. CASE q = o
    <3>1. r[q].usedSize = w /\ r[q].totalSize = N
      BY <1>2, <1>13, <2>1 DEF w
    <3> QED
      BY <1>7, <2>1, <3>1
  <2>2. CASE q # o
    BY <1>2, <1>8, <2>2
  <2> QED
    BY <2>1, <2>2
<1> QED
  BY <1>2, <1>5, <1>9 DEF Sound, r

\* From s, the used cells of p are put between the used and the free cells of o, with the members t as the
\* result.  That is what appendStreamBuffer does.
Inserts(s, o, p, t) ==
    LET old == CellsIn(s, o)
        new == Cells(t.buffers)
        u == s[o].usedSize
        v == s[p].usedSize
    IN  /\ Len(new) = Len(old) + v /\ t.totalSize = Len(new) /\ t.usedSize = u + v
        /\ \A i \in 1 .. u : new[i] = old[i]
        /\ \A i \in u + 1 .. u + v : new[i] = CellsIn(s, p)[i - u]
        /\ \A i \in u + v + 1 .. Len(new) : new[i] = old[i - v]

\* The result is sound.
LEMMA Inserted ==
  ASSUME NEW s, Sound(s), NEW o \in Objects, NEW p \in Objects, o # p, NEW t \in Members, Inserts(s, o, p, t)
  PROVE  Sound([s EXCEPT ![o] = t])
<1> DEFINE r == [s EXCEPT ![o] = t]
           old == CellsIn(s, o)
           new == Cells(t.buffers)
           mid == CellsIn(s, p)
           u == s[o].usedSize
           v == s[p].usedSize
           O == Len(old)
           N == Len(new)
           P == Len(mid)
<1>1. N = O + v /\ t.totalSize = N /\ t.usedSize = u + v
  BY Zenon DEF Inserts
<1>2. /\ \A i \in 1 .. u : new[i] = old[i]
      /\ \A i \in u + 1 .. u + v : new[i] = mid[i - u]
      /\ \A i \in u + v + 1 .. N : new[i] = old[i - v]
  BY Zenon DEF Inserts
<1>3. r \in [Objects -> Members] /\ r[o] = t /\ \A q \in Objects \ {o} : r[q] = s[q]
  BY DEF Sound
<1> HIDE DEF r
<1>4. CellsIn(r, o) = new /\ \A q \in Objects \ {o} : CellsIn(r, q) = CellsIn(s, q)
  BY <1>3 DEF CellsIn
<1>5. u \in Nat /\ v \in Nat /\ O \in Nat /\ P \in Nat /\ u <= O /\ v <= P
  <2>1. s[o].usedSize \in Nat /\ s[o].totalSize \in Nat /\ s[o].totalSize = Len(CellsIn(s, o)) /\ s[o].usedSize <= s[o].totalSize
    BY SoundMembers
  <2>2. s[p].usedSize \in Nat /\ s[p].totalSize \in Nat /\ s[p].totalSize = Len(CellsIn(s, p)) /\ s[p].usedSize <= s[p].totalSize
    BY SoundMembers
  <2> QED
    BY <2>1, <2>2
<1>6. \A i \in u + 1 .. O : Own(s, o, i)
  BY SoundMembers
<1> HIDE DEF old, new, mid, u, v, O, N, P
<1>7. N \in Nat /\ \A q \in Objects : r[q].totalSize = Len(CellsIn(r, q)) /\ r[q].usedSize <= r[q].totalSize
  <2> SUFFICES ASSUME NEW q \in Objects
               PROVE  N \in Nat /\ r[q].totalSize = Len(CellsIn(r, q)) /\ r[q].usedSize <= r[q].totalSize
    BY <1>1, <1>5
  <2>1. N \in Nat /\ u + v <= N
    BY <1>1, <1>5
  <2>2. CASE q = o
    BY <1>1, <1>3, <1>4, <2>1, <2>2 DEF N
  <2>3. CASE q # o
    <3>1. r[q] = s[q] /\ CellsIn(r, q) = CellsIn(s, q)
      BY <1>3, <1>4, <2>3
    <3> QED
      BY <2>1, <3>1, SoundMembers
  <2> QED
    BY <2>2, <2>3
<1>8. /\ \A j \in 1 .. u : j \in 1 .. O
      /\ \A j \in u + 1 .. u + v : j - u \in 1 .. P /\ j - u <= v
      /\ \A j \in u + v + 1 .. N : j - v \in u + 1 .. O /\ j - v \in 1 .. O
      /\ \A j \in 1 .. N : j \in 1 .. u \/ j \in u + 1 .. u + v \/ j \in u + v + 1 .. N
      /\ \A i, j \in u + v + 1 .. N : i # j => j - v # i - v
      /\ \A i \in 1 .. u, j \in u + v + 1 .. N : i # j - v
  <2>1. \A j \in 1 .. u : j \in 1 .. O
    BY <1>5
  <2>2. \A j \in u + 1 .. u + v : j - u \in 1 .. P /\ j - u <= v
    BY <1>5
  <2>3. \A j \in u + v + 1 .. N : j - v \in u + 1 .. O /\ j - v \in 1 .. O
    BY <1>1, <1>5
  <2>4. \A j \in 1 .. N : j \in 1 .. u \/ j \in u + 1 .. u + v \/ j \in u + v + 1 .. N
    BY <1>5, <1>7
  <2>5. \A i, j \in u + v + 1 .. N : i # j => j - v # i - v
    BY <1>5, <1>7
  <2>6. \A i \in 1 .. u, j \in u + v + 1 .. N : i # j - v
    BY <1>5, <1>7
  <2> QED
    BY <2>1, <2>2, <2>3, <2>4, <2>5, <2>6
<1>9. ASSUME NEW i \in u + v + 1 .. N PROVE Own(r, o, i)
  <2> DEFINE k == i - v
  <2>1. k \in u + 1 .. O /\ new[i] = old[k] /\ Own(s, o, k)
    BY <1>2, <1>6, <1>8
  <2>6. (\A j \in 1 .. u : j # k) /\ \A j \in u + v + 1 .. N : j # i => j - v # k
    BY <1>8
  <2> HIDE DEF k
  <2> SUFFICES ASSUME NEW q \in Objects, NEW j \in 1 .. Len(CellsIn(r, q)), q # o \/ j # i
               PROVE  CellsIn(r, q)[j] # new[i]
    BY <1>4 DEF Own
  <2>2. CASE q # o
    BY <1>4, <2>1, <2>2 DEF Own, old
  <2>3. CASE q = o
    <3>1. j \in 1 .. N /\ j # i /\ CellsIn(r, q) = new
      BY <1>4, <2>3 DEF N
    <3>2. \A m \in 1 .. O : m # k => old[m] # old[k]
      BY <2>1 DEF Own, old, O
    <3>3. \A m \in 1 .. P : mid[m] # old[k]
      BY <2>1 DEF Own, old, mid, P
    <3>4. CASE j \in 1 .. u
      BY <1>2, <1>8, <2>1, <2>6, <3>1, <3>2, <3>4
    <3>5. CASE j \in u + 1 .. u + v
      BY <1>2, <1>8, <2>1, <3>1, <3>3, <3>5
    <3>6. CASE j \in u + v + 1 .. N
      BY <1>2, <1>8, <2>1, <2>6, <3>1, <3>2, <3>6
    <3> QED
      BY <1>8, <3>1, <3>4, <3>5, <3>6
  <2> QED
    BY <2>2, <2>3
<1>10. ASSUME NEW q \in Objects \ {o}, NEW i \in s[q].usedSize + 1 .. s[q].totalSize PROVE Own(r, q, i)
  <2>1. Own(s, q, i) /\ i \in 1 .. Len(CellsIn(s, q)) /\ CellsIn(r, q) = CellsIn(s, q) /\ s[q].usedSize \in Nat
    BY <1>4, SoundMembers
  <2> SUFFICES ASSUME NEW m \in Objects, NEW j \in 1 .. Len(CellsIn(r, m)), m # q \/ j # i
               PROVE  CellsIn(r, m)[j] # CellsIn(s, q)[i]
    BY <2>1 DEF Own
  <2>2. CASE m # o
    BY <1>4, <2>1, <2>2 DEF Own
  <2>3. CASE m = o
    <3>1. j \in 1 .. N /\ CellsIn(r, m) = new
      BY <1>4, <2>3 DEF N
    <3>2. \A n \in 1 .. O : old[n] # CellsIn(s, q)[i]
      BY <2>1 DEF Own, old, O
    <3>3. \A n \in 1 .. P : n <= v => mid[n] # CellsIn(s, q)[i]
      <4>1. CASE q = p
        <5>1. i > v
          BY <2>1, <4>1 DEF v
        <5>2. \A n \in 1 .. P : n <= v => n # i
          BY <1>5, <2>1, <5>1
        <5> QED
          BY <2>1, <4>1, <5>2 DEF Own, mid, P
      <4>2. CASE q # p
        BY <2>1, <4>2 DEF Own, mid, P
      <4> QED
        BY <4>1, <4>2
    <3>4. CASE j \in 1 .. u
      BY <1>2, <1>8, <3>1, <3>2, <3>4
    <3>5. CASE j \in u + 1 .. u + v
      BY <1>2, <1>8, <3>1, <3>3, <3>5
    <3>6. CASE j \in u + v + 1 .. N
      BY <1>2, <1>8, <3>1, <3>2, <3>6
    <3> QED
      BY <1>8, <3>1, <3>4, <3>5, <3>6
  <2> QED
    BY <2>2, <2>3
<1>11. ASSUME NEW q \in Objects, NEW i \in r[q].usedSize + 1 .. r[q].totalSize PROVE Own(r, q, i)
  <2>1. CASE q = o
    BY <1>1, <1>3, <1>9, <2>1
  <2>2. CASE q # o
    BY <1>3, <1>10, <2>2
  <2> QED
    BY <2>1, <2>2
<1> QED
  BY <1>3, <1>7, <1>11 DEF Sound, r

\* From s, the first n cells of o move to p, in place of the cells of p, with the members rest and head as
\* the result.  That is what spliceHead does.
Moves(s, o, n, rest, head) ==
    LET old == CellsIn(s, o)
        u == s[o].usedSize
    IN  /\ Len(Cells(rest.buffers)) = Len(old) - n /\ rest.totalSize = s[o].totalSize - n
        /\ rest.usedSize = u - Less(n, u)
        /\ \A i \in 1 .. Len(old) - n : Cells(rest.buffers)[i] = old[n + i]
        /\ Len(Cells(head.buffers)) = n /\ head.totalSize = n /\ head.usedSize = Less(n, u)
        /\ \A i \in 1 .. n : Cells(head.buffers)[i] = old[i]

\* The result is sound.
LEMMA Moved ==
  ASSUME NEW s, Sound(s), NEW o \in Objects, NEW p \in Objects, o # p, NEW n \in 0 .. s[o].totalSize,
         NEW rest \in Members, NEW head \in Members, Moves(s, o, n, rest, head)
  PROVE  Sound([s EXCEPT ![o] = rest, ![p] = head])
<1> DEFINE r == [s EXCEPT ![o] = rest, ![p] = head]
           old == CellsIn(s, o)
           u == s[o].usedSize
           O == Len(old)
           R == Cells(rest.buffers)
           H == Cells(head.buffers)
<1>1. /\ Len(R) = O - n /\ rest.totalSize = s[o].totalSize - n /\ rest.usedSize = u - Less(n, u)
      /\ Len(H) = n /\ head.totalSize = n /\ head.usedSize = Less(n, u)
  BY Zenon DEF Moves
<1>2. (\A i \in 1 .. O - n : R[i] = old[n + i]) /\ \A i \in 1 .. n : H[i] = old[i]
  BY Zenon DEF Moves
<1>3. r \in [Objects -> Members] /\ r[o] = rest /\ r[p] = head /\ \A q \in Objects \ {o, p} : r[q] = s[q]
  BY DEF Sound
<1> HIDE DEF r
<1>4. CellsIn(r, o) = R /\ CellsIn(r, p) = H /\ \A q \in Objects \ {o, p} : CellsIn(r, q) = CellsIn(s, q)
  BY <1>3 DEF CellsIn
<1>5. u \in Nat /\ O \in Nat /\ u <= O /\ s[o].totalSize = O
  BY SoundMembers
<1>6. \A i \in u + 1 .. O : Own(s, o, i)
  BY SoundMembers
<1> HIDE DEF old, u, O, R, H
<1>7. /\ n \in Nat /\ n <= O /\ rest.totalSize = O - n /\ O - n \in Nat
      /\ rest.usedSize \in Nat /\ rest.usedSize <= O - n /\ \A i \in rest.usedSize + 1 .. O - n : n + i \in u + 1 .. O
      /\ head.usedSize \in Nat /\ head.usedSize <= n /\ \A i \in head.usedSize + 1 .. n : i \in u + 1 .. O
  BY <1>1, <1>5 DEF Less
<1>8. \A q \in Objects : r[q].totalSize = Len(CellsIn(r, q)) /\ r[q].usedSize <= r[q].totalSize
  <2> SUFFICES ASSUME NEW q \in Objects PROVE r[q].totalSize = Len(CellsIn(r, q)) /\ r[q].usedSize <= r[q].totalSize
    OBVIOUS
  <2>1. CASE q = o
    BY <1>1, <1>3, <1>4, <1>7, <2>1
  <2>2. CASE q = p
    BY <1>1, <1>3, <1>4, <1>7, <2>2
  <2>3. CASE q \notin {o, p}
    <3>1. r[q] = s[q] /\ CellsIn(r, q) = CellsIn(s, q)
      BY <1>3, <1>4, <2>3
    <3> QED
      BY <3>1, SoundMembers
  <2> QED
    BY <2>1, <2>2, <2>3
<1>9. (\A i \in 1 .. O - n : n + i \in 1 .. O) /\ \A i \in 1 .. n : i \in 1 .. O
  BY <1>5, <1>7
\* Where the cells of r come from: place k of m
<1>10. ASSUME NEW m \in Objects, NEW k, Own(s, m, k), NEW q \in Objects, NEW j \in 1 .. Len(CellsIn(r, q)),
              q \notin {o, p} => q # m \/ j # k,
              q = o => o # m \/ n + j # k,
              q = p => o # m \/ j # k
       PROVE  CellsIn(r, q)[j] # CellsIn(s, m)[k]
  <2>1. CASE q \notin {o, p}
    BY <1>4, <1>10, <2>1 DEF Own
  <2>2. \A i \in 1 .. O : o # m \/ i # k => old[i] # CellsIn(s, m)[k]
    BY <1>10 DEF Own, old, O
  <2>3. CASE q = o
    <3>1. CellsIn(r, q) = R /\ j \in 1 .. O - n
      BY <1>1, <1>4, <2>3
    <3> QED
      BY <1>2, <1>9, <1>10, <2>2, <2>3, <3>1
  <2>4. CASE q = p
    <3>1. CellsIn(r, q) = H /\ j \in 1 .. n
      BY <1>1, <1>4, <2>4
    <3> QED
      BY <1>2, <1>9, <1>10, <2>2, <2>4, <3>1
  <2> QED
    BY <2>1, <2>3, <2>4
<1>11. ASSUME NEW q \in Objects, NEW i \in r[q].usedSize + 1 .. r[q].totalSize PROVE Own(r, q, i)
  <2> SUFFICES ASSUME NEW m \in Objects, NEW j \in 1 .. Len(CellsIn(r, m)), m # q \/ j # i
               PROVE  CellsIn(r, m)[j] # CellsIn(r, q)[i]
    BY DEF Own
  <2>1. CASE q = o
    <3>1. i \in rest.usedSize + 1 .. O - n /\ i \in 1 .. O - n
      BY <1>3, <1>7, <2>1
    <3>2. Own(s, o, n + i) /\ CellsIn(r, q)[i] = old[n + i] /\ n + i \in Nat /\ n + i > n
      BY <1>2, <1>4, <1>6, <1>7, <2>1, <3>1
    <3>3. m = o => n + j # n + i
      BY <1>7, <2>1, <3>1
    <3>4. m = p => j # n + i
      <4>1. m = p => j \in 1 .. n
        BY <1>1, <1>4
      <4> QED
        BY <1>7, <3>2, <4>1
    <3> QED
      BY <1>10, <3>2, <3>3, <3>4 DEF old
  <2>2. CASE q = p
    <3>1. i \in head.usedSize + 1 .. n /\ i \in 1 .. n
      BY <1>3, <1>1, <1>7, <2>2
    <3>2. Own(s, o, i) /\ CellsIn(r, q)[i] = old[i]
      BY <1>2, <1>4, <1>6, <1>7, <2>2, <3>1
    <3>3. m = o => n + j # i
      <4>1. m = o => j \in 1 .. O - n
        BY <1>1, <1>4
      <4> QED
        BY <1>7, <3>1, <4>1
    <3> QED
      BY <1>10, <2>2, <3>2, <3>3 DEF old
  <2>3. CASE q \notin {o, p}
    <3>1. Own(s, q, i) /\ CellsIn(r, q) = CellsIn(s, q)
      BY <1>3, <1>4, <2>3, SoundMembers
    <3> QED
      BY <1>10, <2>3, <3>1
  <2> QED
    BY <2>1, <2>2, <2>3
<1> QED
  BY <1>3, <1>8, <1>11 DEF Sound, r

\* A stream buffer without free space is copied.
LEMMA Copied ==
  ASSUME NEW s, Sound(s), NEW o \in Objects, NEW p \in Objects, o # p, s[o].usedSize = s[o].totalSize
  PROVE  Sound([s EXCEPT ![p] = s[o]])
<1> DEFINE r == [s EXCEPT ![p] = s[o]]
<1>1. r \in [Objects -> Members] /\ r[p] = s[o] /\ \A q \in Objects \ {p} : r[q] = s[q]
  BY SoundMembers DEF Sound
<1> HIDE DEF r
<1>2. CellsIn(r, p) = CellsIn(s, o) /\ \A q \in Objects \ {p} : CellsIn(r, q) = CellsIn(s, q)
  BY <1>1 DEF CellsIn
<1>3. \A q \in Objects : r[q].totalSize = Len(CellsIn(r, q)) /\ r[q].usedSize <= r[q].totalSize
  <2> SUFFICES ASSUME NEW q \in Objects PROVE r[q].totalSize = Len(CellsIn(r, q)) /\ r[q].usedSize <= r[q].totalSize
    OBVIOUS
  <2>1. CASE q = p
    BY <1>1, <1>2, <2>1, SoundMembers
  <2>2. CASE q # p
    BY <1>1, <1>2, <2>2, SoundMembers
  <2> QED
    BY <2>1, <2>2
<1>4. ASSUME NEW q \in Objects, NEW i \in r[q].usedSize + 1 .. r[q].totalSize PROVE Own(r, q, i)
  <2>1. s[o].totalSize \in Nat
    BY SoundMembers
  <2>2. q # p /\ q # o
    BY <1>1, <2>1
  <2>3. Own(s, q, i) /\ CellsIn(r, q) = CellsIn(s, q)
    BY <1>1, <1>2, <2>2, SoundMembers
  <2> SUFFICES ASSUME NEW m \in Objects, NEW j \in 1 .. Len(CellsIn(r, m)), m # q \/ j # i
               PROVE  CellsIn(r, m)[j] # CellsIn(s, q)[i]
    BY <2>3 DEF Own
  <2>4. CASE m = p
    BY <1>2, <2>2, <2>3, <2>4 DEF Own
  <2>5. CASE m # p
    BY <1>2, <2>3, <2>5 DEF Own
  <2> QED
    BY <2>4, <2>5
<1> QED
  BY <1>1, <1>3, <1>4 DEF Sound, r
-----------------------------------------------------------------------------
(* Memory *)

\* RoundUp rounds up.
LEMMA RoundUpIs ==
  ASSUME NEW n \in Nat
  PROVE  RoundUp(n) \in Nat /\ RoundUp(n) >= n
<1>1. Align \in Nat \ {0}
  OBVIOUS
<1> QED
  BY <1>1 DEF RoundUp

\* Every cell of a list is in the block of one of its buffers.
LEMMA CellInBlock ==
  ASSUME NEW bs \in Seq(Buffer), NEW j \in 1 .. Len(Cells(bs))
  PROVE  \E k \in 1 .. Len(bs) : Cells(bs)[j][1] = bs[k].base
<1> DEFINE k == Covering(bs, j)
           E == Ends(bs)
<1>1. Len(bs) \in Nat /\ Len(Cells(bs)) \in Nat /\ j \in 0 .. Len(Cells(bs)) /\ j \in Nat
  BY LenProperties, CellsType
<1>2. k \in 0 .. Len(bs) /\ E[k] >= j /\ \A i \in 0 .. k - 1 : E[i] < j
  BY <1>1, CoveringIs
<1>3. E[0] = 0
  BY EndsAre
<1> HIDE DEF k
<1>4. k \in 1 .. Len(bs) /\ k - 1 \in 0 .. Len(bs) /\ k - 1 \in 0 .. k - 1 /\ k \in 1 .. Len(bs) + 1 /\ k <= Len(bs)
  BY <1>1, <1>2, <1>3
<1> DEFINE f == Cells(SubSeq(bs, 1, k - 1))
           b == BufferCells(bs[k])
           h == Cells(SubSeq(bs, k + 1, Len(bs)))
<1>5. Len(f) = E[k - 1] /\ E[k - 1] \in Nat /\ E[k] = E[k - 1] + bs[k].size
  BY <1>4, EndsAre
<1>6. /\ SubSeq(bs, 1, k - 1) \in Seq(Buffer) /\ SubSeq(bs, k + 1, Len(bs)) \in Seq(Buffer)
      /\ Cells(bs) = f \o (b \o h) /\ bs[k] \in Buffer
  BY <1>4, TakenApart
<1>7. f \in Seq(Cell) /\ b \in Seq(Cell) /\ h \in Seq(Cell)
  BY <1>6, CellsType, BufferCellsAre
<1>8. Len(b) = bs[k].size /\ bs[k].size \in Nat /\ \A i \in 1 .. bs[k].size : b[i] = <<bs[k].base, bs[k].data + i>>
  BY <1>6, BufferCellsAre
<1>9. Len(h) \in Nat
  BY <1>7, LenProperties
<1> HIDE DEF f, b, h, E
<1> DEFINE i == j - Len(f)
<1>10. j > Len(f) /\ i \in 1 .. bs[k].size
  BY <1>1, <1>2, <1>4, <1>5, <1>8, SMTT(30)
<1>11. b \o h \in Seq(Cell) /\ Len(b \o h) = Len(b) + Len(h) /\ (b \o h)[i] = b[i]
  <2>1. i \in 1 .. Len(b) + Len(h) /\ i <= Len(b)
    BY <1>8, <1>9, <1>10, SMTT(30)
  <2> HIDE DEF i
  <2> QED
    BY <1>7, <2>1, ConcatProperties
<1>12. (f \o (b \o h))[j] = (b \o h)[i]
  <2>1. j \in 1 .. Len(f) + Len(b \o h) /\ ~(j <= Len(f))
    <3>1. Len(f \o (b \o h)) = Len(f) + Len(b \o h)
      BY <1>7, <1>11, ConcatProperties
    <3> QED
      BY <1>6, <1>1, <1>5, <1>10, <3>1, SMTT(30)
  <2> QED
    BY <1>7, <1>11, <2>1, ConcatProperties
<1>13. Cells(bs)[j][1] = bs[k].base
  <2> HIDE DEF i
  <2>1. Cells(bs)[j] = b[i]
    BY <1>6, <1>11, <1>12
  <2>2. b[i] = <<bs[k].base, bs[k].data + i>>
    BY <1>8, <1>10
  <2> QED
    BY <2>1, <2>2
<1> QED
  BY <1>4, <1>13

\* A new buffer is large enough, and in a block that no stream buffer refers to.
LEMMA NewBufferIs ==
  ASSUME Sound(sb), NEW need \in Nat, CanAllocate(need)
  PROVE  LET b == NewBuffer(need)
         IN  /\ b \in Buffer /\ b.size >= need /\ b.data = 0
             /\ \A i \in 1 .. b.size, p \in Objects : \A j \in 1 .. Len(CellsIn(sb, p)) :
                    CellsIn(sb, p)[j] # BufferCells(b)[i]
             /\ \A i, j \in 1 .. b.size : i # j => BufferCells(b)[i] # BufferCells(b)[j]
<1> DEFINE F == Blocks \ InUse
           b == NewBuffer(need)
           P(c) == \A d \in F : c <= d
<1>1. F # {} /\ RoundUp(need) <= BlockMax /\ BlockMax \in Nat
  BY DEF CanAllocate
<1>2. F \subseteq Nat
  OBVIOUS
<1>3. \E c \in F : P(c)
  <2> HIDE DEF F
  <2> QED
    BY <1>1, <1>2, LeastNumber
<1>4. b = [base |-> CHOOSE c \in F : P(c), data |-> 0, size |-> RoundUp(need)]
  BY DEF NewBuffer
<1> HIDE DEF F, b, P
<1>5. b.base \in F /\ b.data = 0 /\ b.size = RoundUp(need)
  BY <1>3, <1>4
<1>6. b.size \in Nat /\ b.size >= need
  BY <1>5, RoundUpIs
<1>7. b \in Buffer
  <2>1. b.base \in Blocks /\ b.data \in 0 .. BlockMax /\ b.size \in 0 .. BlockMax /\ b.data + b.size <= BlockMax
    BY <1>1, <1>5, <1>6 DEF F
  <2>2. b = [base |-> b.base, data |-> b.data, size |-> b.size]
    BY <1>4
  <2> QED
    BY <2>1, <2>2 DEF Buffer
<1>8. \A i \in 1 .. b.size : BufferCells(b)[i] = <<b.base, b.data + i>>
  BY <1>7, BufferCellsAre
<1>9. ASSUME NEW p \in Objects, NEW j \in 1 .. Len(CellsIn(sb, p)) PROVE CellsIn(sb, p)[j][1] \in InUse
  <2>1. sb[p].buffers \in Seq(Buffer) /\ CellsIn(sb, p) = Cells(sb[p].buffers)
    BY SoundMembers
  <2>2. PICK k \in 1 .. Len(sb[p].buffers) : CellsIn(sb, p)[j][1] = sb[p].buffers[k].base
    <3>1. j \in 1 .. Len(Cells(sb[p].buffers))
      BY <2>1
    <3>2. \E k \in 1 .. Len(sb[p].buffers) : Cells(sb[p].buffers)[j][1] = sb[p].buffers[k].base
      BY <2>1, <3>1, CellInBlock
    <3> QED
      BY <2>1, <3>2
  <2>3. k \in DOMAIN sb[p].buffers
    BY <2>1, LenProperties
  <2> QED
    BY <2>2, <2>3 DEF InUse
<1>10. b.base \notin InUse
  BY <1>5 DEF F
<1>11. \A i \in 1 .. b.size, p \in Objects : \A j \in 1 .. Len(CellsIn(sb, p)) : CellsIn(sb, p)[j] # BufferCells(b)[i]
  BY <1>8, <1>9, <1>10
<1>12. \A i, j \in 1 .. b.size : i # j => BufferCells(b)[i] # BufferCells(b)[j]
  <2> SUFFICES ASSUME NEW i \in 1 .. b.size, NEW j \in 1 .. b.size, i # j PROVE BufferCells(b)[i] # BufferCells(b)[j]
    OBVIOUS
  <2>1. b.data + i # b.data + j
    BY <1>5, <1>6
  <2> QED
    BY <1>8, <2>1
<1> QED
  BY <1>5, <1>6, <1>7, <1>11, <1>12 DEF b

\* The step stores the bytes "from" in the cells "to", n places of o behind the k-th one, that are
\* nobody else's.
StoresAt(o, k, n, to, from) ==
    /\ Sound(sb') /\ mem \in Memory /\ o \in Objects /\ k \in Nat /\ n \in Nat
    /\ Store(to, from) /\ DOMAIN to = 1 .. n /\ k + n <= Len(CellsIn(sb', o))
    /\ \A i \in 1 .. n : to[i] = CellsIn(sb', o)[k + i] /\ from[i] \in 0 .. MaxBytes
    /\ \A i \in k + 1 .. k + n : Own(sb', o, i)

\* Such a step leaves all other places alone.
LEMMA StoredAt ==
  ASSUME NEW o, NEW k, NEW n, NEW to, NEW from, StoresAt(o, k, n, to, from)
  PROVE  /\ mem' \in Memory
         /\ \A p \in Objects : \A j \in 1 .. Len(CellsIn(sb', p)) :
                Byte(mem', CellsIn(sb', p)[j]) =
                    IF p = o /\ j \in k + 1 .. k + n THEN from[j - k] ELSE Byte(mem, CellsIn(sb', p)[j])
<1> SUFFICES ASSUME Sound(sb'), mem \in Memory, o \in Objects, k \in Nat, n \in Nat,
                    Store(to, from), DOMAIN to = 1 .. n, k + n <= Len(CellsIn(sb', o)),
                    \A i \in 1 .. n : to[i] = CellsIn(sb', o)[k + i] /\ from[i] \in 0 .. MaxBytes,
                    \A i \in k + 1 .. k + n : Own(sb', o, i)
             PROVE  /\ mem' \in Memory
                    /\ \A p \in Objects : \A j \in 1 .. Len(CellsIn(sb', p)) :
                           Byte(mem', CellsIn(sb', p)[j]) =
                               IF p = o /\ j \in k + 1 .. k + n THEN from[j - k] ELSE Byte(mem, CellsIn(sb', p)[j])
  BY Zenon DEF StoresAt
<1> DEFINE byte(c) == IF \E j \in DOMAIN to : to[j] = c THEN from[CHOOSE j \in DOMAIN to : to[j] = c]
                      ELSE mem[c[1]][c[2]]
<1>1. mem' = [b \in Blocks |-> [i \in 1 .. BlockMax |-> IF <<b, i>> \in Covered' THEN byte(<<b, i>>) ELSE 0]]
  <2>1. PICK covered \in {Covered'}, cells \in {to}, bytes \in {from} :
            LET get(c) == IF \E j \in DOMAIN cells : cells[j] = c THEN bytes[CHOOSE j \in DOMAIN cells : cells[j] = c]
                          ELSE mem[c[1]][c[2]]
            IN  mem' = [b \in Blocks |-> [i \in 1 .. BlockMax |->
                            IF <<b, i>> \in covered THEN get(<<b, i>>) ELSE 0]]
    BY Zenon DEF Store
  <2>2. covered = Covered' /\ cells = to /\ bytes = from
    OBVIOUS
  <2> QED
    BY <2>1, <2>2, Zenon
<1>2. \A c \in Cell : c[1] \in Blocks /\ c[2] \in 1 .. BlockMax /\ c = <<c[1], c[2]>> /\ mem[c[1]][c[2]] \in 0 .. MaxBytes
  <2>1. \A c \in Cell : c[1] \in Blocks /\ c[2] \in 1 .. BlockMax /\ c = <<c[1], c[2]>>
    BY DEF Cell
  <2>2. \A b \in Blocks, i \in 1 .. BlockMax : mem[b][i] \in 0 .. MaxBytes
    BY DEF Memory
  <2> QED
    BY <2>1, <2>2
<1>3. \A c \in Cell : byte(c) \in 0 .. MaxBytes
  <2> SUFFICES ASSUME NEW c \in Cell PROVE byte(c) \in 0 .. MaxBytes
    OBVIOUS
  <2>1. CASE \E j \in DOMAIN to : to[j] = c
    <3>1. (CHOOSE j \in DOMAIN to : to[j] = c) \in 1 .. n
      BY <2>1
    <3> QED
      BY <2>1, <3>1
  <2>2. CASE ~\E j \in DOMAIN to : to[j] = c
    BY <1>2, <2>2
  <2> QED
    BY <2>1, <2>2
<1> HIDE DEF byte
<1>4. mem' \in Memory
  <2>1. \A b \in Blocks, i \in 1 .. BlockMax : <<b, i>> \in Cell
    BY DEF Cell
  <2>2. MaxBytes \in Nat
    OBVIOUS
  <2> QED
    BY <1>1, <1>3, <2>1, <2>2 DEF Memory
<1>5. \A c \in Cell : c \in Covered' => Byte(mem', c) = byte(c)
  BY <1>1, <1>2 DEF Byte
<1>6. ASSUME NEW p \in Objects, NEW j \in 1 .. Len(CellsIn(sb', p))
      PROVE  Byte(mem', CellsIn(sb', p)[j]) =
                 IF p = o /\ j \in k + 1 .. k + n THEN from[j - k] ELSE Byte(mem, CellsIn(sb', p)[j])
  <2> DEFINE c == CellsIn(sb', p)[j]
  <2>1. CellsIn(sb', p) \in Seq(Cell) /\ CellsIn(sb', p) = Cells(sb'[p].buffers) /\ c \in Cell
    BY <1>6, SoundMembers
  <2>2. c \in Covered'
    <3>1. j \in DOMAIN Cells(sb'[p].buffers)
      BY <2>1, LenProperties
    <3>2. c \in Range(Cells(sb'[p].buffers))
      BY <2>1, <3>1 DEF Range
    <3> QED
      BY <3>2 DEF Covered
  <2>3. Byte(mem', c) = byte(c)
    BY <1>5, <2>1, <2>2
  <2>4. CASE p = o /\ j \in k + 1 .. k + n
    <3>1. j - k \in 1 .. n /\ k + (j - k) = j
      BY <2>4
    <3>2. to[j - k] = c
      BY <2>4, <3>1
    <3>3. \A i \in 1 .. n : to[i] = c => i = j - k
      <4> SUFFICES ASSUME NEW i \in 1 .. n, to[i] = c PROVE i = j - k
        OBVIOUS
      <4>1. Own(sb', o, j)
        BY <2>4
      <4>2. k + i \in 1 .. Len(CellsIn(sb', o)) /\ to[i] = CellsIn(sb', o)[k + i]
        <5>1. Len(CellsIn(sb', o)) \in Nat
          BY SoundMembers
        <5> QED
          BY <5>1
      <4>3. k + i = j
        BY <2>4, <4>1, <4>2 DEF Own
      <4> QED
        BY <4>3
    <3>4. byte(c) = from[j - k]
      <4> HIDE DEF c
      <4>1. (CHOOSE i \in DOMAIN to : to[i] = c) = j - k
        BY <3>1, <3>2, <3>3
      <4> QED
        BY <3>1, <3>2, <4>1 DEF byte
    <3> QED
      BY <2>3, <2>4, <3>4
  <2>5. CASE ~(p = o /\ j \in k + 1 .. k + n)
    <3>1. ASSUME NEW i \in 1 .. n, to[i] = c PROVE FALSE
      <4>1. k + i \in k + 1 .. k + n /\ to[i] = CellsIn(sb', o)[k + i]
        OBVIOUS
      <4>2. Own(sb', o, k + i) /\ (p # o \/ j # k + i)
        BY <2>5, <4>1
      <4> QED
        BY <3>1, <4>1, <4>2 DEF Own
    <3>2. byte(c) = mem[c[1]][c[2]]
      BY <3>1 DEF byte
    <3> QED
      BY <2>3, <2>5, <3>2 DEF Byte
  <2> QED
    BY <2>4, <2>5
<1> QED
  BY <1>4, <1>6

\* A step that stores nothing leaves all places alone.
LEMMA StoredNothing ==
  ASSUME Sound(sb'), mem \in Memory, Store(<<>>, <<>>), NEW o \in Objects
  PROVE  /\ mem' \in Memory
         /\ \A p \in Objects : \A j \in 1 .. Len(CellsIn(sb', p)) :
                Byte(mem', CellsIn(sb', p)[j]) = Byte(mem, CellsIn(sb', p)[j])
<1> DEFINE e == <<>>
<1>1. DOMAIN e = 1 .. 0 /\ 0 \in Nat /\ Store(e, e)
  OBVIOUS
<1>2. Len(CellsIn(sb', o)) \in Nat
  BY SoundMembers
<1>3. 0 + 0 <= Len(CellsIn(sb', o))
  BY <1>2
<1> HIDE DEF e
<1>4. /\ mem' \in Memory
      /\ \A p \in Objects : \A j \in 1 .. Len(CellsIn(sb', p)) :
                Byte(mem', CellsIn(sb', p)[j]) =
                    IF p = o /\ j \in 0 + 1 .. 0 + 0 THEN e[j - 0] ELSE Byte(mem, CellsIn(sb', p)[j])
  <2>1. \A i \in 1 .. 0 : e[i] = CellsIn(sb', o)[0 + i] /\ e[i] \in 0 .. MaxBytes
    OBVIOUS
  <2>2. \A i \in 0 + 1 .. 0 + 0 : Own(sb', o, i)
    OBVIOUS
  <2>3. StoresAt(o, 0, 0, e, e)
    BY <1>1, <1>3, <2>1, <2>2 DEF StoresAt
  <2> QED
    BY <2>3, StoredAt
<1> QED
  BY <1>4
-----------------------------------------------------------------------------
(* The content, and steps that append to it *)

\* The used bytes of o, in the states s of the stream buffers and m of the memory
Bytes(s, m, o) == [i \in 1 .. s[o].usedSize |-> Byte(m, CellsIn(s, o)[i])]

AllBytes(s, m) == [o \in Objects |-> Bytes(s, m, o)]

\* Content(o) loads the bytes of the used cells.
LEMMA ContentIs ==
  ASSUME NEW s, NEW m, Sound(s), NEW o \in Objects
  PROVE  LET used == SubSeq(Cells(s[o].buffers), 1, s[o].usedSize)
         IN  [i \in DOMAIN used |-> m[used[i][1]][used[i][2]]] = Bytes(s, m, o)
<1> DEFINE c == Cells(s[o].buffers)
           u == s[o].usedSize
           used == SubSeq(c, 1, u)
<1>1. c = CellsIn(s, o) /\ c \in Seq(Cell) /\ u \in Nat /\ u <= Len(c) /\ Len(c) \in Nat
  BY SoundMembers
<1>2. \A i \in 1 .. u : c[i] \in Cell
  BY <1>1, SoundMembers
<1> HIDE DEF c, u
<1>3. used \in Seq(Cell) /\ Len(used) = u /\ \A i \in 1 .. u : used[i] = c[i]
  <2>1. 1 \in Int /\ u \in Int
    BY <1>1
  <2>2. /\ used \in Seq(Cell) /\ Len(used) = (IF 1 <= u THEN u - 1 + 1 ELSE 0)
        /\ \A i \in 1 .. u - 1 + 1 : used[i] = c[1 + i - 1]
    BY <1>2, <2>1, SubSeqProperties
  <2>3. u - 1 + 1 = u /\ \A i \in 1 .. u : 1 + i - 1 = i
    BY <1>1
  <2>4. Len(used) = u
    BY <1>1, <2>2, <2>3
  <2> HIDE DEF used
  <2> QED
    BY <2>2, <2>3, <2>4
<1>4. DOMAIN used = 1 .. u
  BY <1>3, LenProperties
<1> HIDE DEF used
<1>5. [i \in DOMAIN used |-> m[used[i][1]][used[i][2]]] = [i \in 1 .. u |-> m[c[i][1]][c[i][2]]]
  BY <1>3, <1>4
<1> QED
  BY <1>1, <1>5 DEF Bytes, Byte, c, u, used

\* The abstract content before and after a step
LEMMA Contents ==
  ASSUME Sound(sb), Sound(sb')
  PROVE  /\ [o \in Objects |-> Content(o)] = AllBytes(sb, mem)
         /\ [o \in Objects |-> Content(o)]' = AllBytes(sb', mem')
         /\ \A o \in Objects : Content(o) = Bytes(sb, mem, o)
<1>1. \A o \in Objects : Content(o) = Bytes(sb, mem, o)
  BY ContentIs DEF Content, Load
<1>2. \A o \in Objects : Content(o)' = Bytes(sb', mem', o)
  <2> SUFFICES ASSUME NEW o \in Objects PROVE Content(o)' = Bytes(sb', mem', o)
    OBVIOUS
  <2> DEFINE used == SubSeq(Cells(sb'[o].buffers), 1, sb'[o].usedSize)
  <2>1. [i \in DOMAIN used |-> mem'[used[i][1]][used[i][2]]] = Bytes(sb', mem', o)
    BY ContentIs
  <2>2. Content(o)' = [i \in DOMAIN used |-> mem'[used[i][1]][used[i][2]]]
    BY DEF Content, Load
  <2> QED
    BY <2>1, <2>2
<1> QED
  BY <1>1, <1>2 DEF AllBytes

\* The bytes are bytes.
LEMMA BytesAre ==
  ASSUME NEW s, NEW m \in Memory, Sound(s), NEW o \in Objects
  PROVE  /\ Bytes(s, m, o) \in Seq(0 .. MaxBytes) /\ Len(Bytes(s, m, o)) = s[o].usedSize
         /\ \A i \in 1 .. s[o].usedSize : /\ Bytes(s, m, o)[i] = Byte(m, CellsIn(s, o)[i])
                                          /\ Bytes(s, m, o)[i] \in 0 .. MaxBytes
<1> DEFINE u == s[o].usedSize
           B == Bytes(s, m, o)
<1>1. u \in Nat /\ u <= Len(CellsIn(s, o)) /\ Len(CellsIn(s, o)) \in Nat
  BY SoundMembers
<1>2. \A i \in 1 .. u : CellsIn(s, o)[i] \in Cell
  BY <1>1, SoundMembers
<1>3. \A c \in Cell : Byte(m, c) \in 0 .. MaxBytes
  BY DEF Cell, Memory, Byte
<1>4. B = [i \in 1 .. u |-> Byte(m, CellsIn(s, o)[i])]
  BY DEF Bytes
<1> HIDE DEF u, B
<1>5. B \in [1 .. u -> 0 .. MaxBytes] /\ \A i \in 1 .. u : B[i] = Byte(m, CellsIn(s, o)[i]) /\ B[i] \in 0 .. MaxBytes
  BY <1>2, <1>3, <1>4
<1>6. B \in Seq(0 .. MaxBytes)
  BY <1>1, <1>5
<1>7. DOMAIN B = 1 .. u
  BY <1>4
<1>8. Len(B) = u
  BY <1>1, <1>6, <1>7, LenProperties
<1> QED
  BY <1>5, <1>6, <1>8 DEF u, B

\* Steps that change no content and return nothing are steps of ByteQueue: empty reads.
LEMMA SameContent ==
  ASSUME Sound(sb), Sound(sb'), mem \in Memory, NEW o \in Objects, AllBytes(sb', mem') = AllBytes(sb, mem),
         stored' = stored, result' = <<>>
  PROVE  Abstract!Next
<1> DEFINE A == [q \in Objects |-> Content(q)]
<1>1. A = AllBytes(sb, mem) /\ A' = A
  BY Contents
<1>2. A[o] \in Seq(0 .. MaxBytes)
  BY <1>1, BytesAre DEF AllBytes
<1> HIDE DEF A
<1>3. Len(A[o]) \in Nat
  BY <1>2, LenProperties
<1>4. SubSeq(A[o], 0 + 1, 0 + 0) = <<>>
  <2>1. 0 + 1 = 1 /\ 0 + 0 = 0 /\ 0 < 1 /\ 0 \in Int /\ 1 \in Int
    OBVIOUS
  <2>2. SubSeq(A[o], 1, 0) = <<>>
    BY <2>1, SubSeqEmpty
  <2> QED
    BY <2>1, <2>2
<1>5. 0 \in 0 .. Len(A[o]) /\ 0 + 0 <= Len(A[o])
  BY <1>3
<1>6. /\ 0 + 0 <= Len(A[o]) /\ result' = SubSeq(A[o], 0 + 1, 0 + 0) /\ A' = A /\ stored' = stored
  BY <1>1, <1>4, <1>5
<1>7. Abstract!Read(o, 0, 0)
  BY <1>6 DEF Abstract!Read, A
<1> QED
  BY <1>5, <1>7 DEF Abstract!Next, A

\* How to recognise a concatenation
LEMMA IsConcat ==
  ASSUME NEW S, NEW s \in Seq(S), NEW t \in Seq(S), NEW r \in Seq(S), Len(r) = Len(s) + Len(t),
         \A i \in 1 .. Len(s) : r[i] = s[i], \A i \in 1 .. Len(t) : r[Len(s) + i] = t[i]
  PROVE  r = s \o t
<1>1. Len(s) \in Nat /\ Len(t) \in Nat
  BY LenProperties
<1>2. s \o t \in Seq(S) /\ Len(s \o t) = Len(s) + Len(t)
  BY ConcatProperties
<1>3. \A i \in 1 .. Len(s) + Len(t) : (s \o t)[i] = IF i <= Len(s) THEN s[i] ELSE t[i - Len(s)]
  BY ConcatProperties
<1>4. ASSUME NEW i \in 1 .. Len(r) PROVE r[i] = (s \o t)[i]
  <2>1. CASE i <= Len(s)
    <3>1. i \in 1 .. Len(s) /\ i \in 1 .. Len(s) + Len(t)
      BY <1>1, <2>1
    <3> QED
      BY <1>3, <2>1, <3>1
  <2>2. CASE ~(i <= Len(s))
    <3>1. i - Len(s) \in 1 .. Len(t) /\ i \in 1 .. Len(s) + Len(t) /\ Len(s) + (i - Len(s)) = i
      BY <1>1, <2>2
    <3> QED
      BY <1>3, <2>2, <3>1
  <2> QED
    BY <2>1, <2>2
<1> QED
  BY <1>2, <1>4, SeqEqual

\* Growth of the used part
LEMMA MoreUsed ==
  ASSUME NEW s, Sound(s), NEW o \in Objects, NEW t \in Members, t.buffers = s[o].buffers,
         t.totalSize = s[o].totalSize, s[o].usedSize <= t.usedSize, t.usedSize <= t.totalSize
  PROVE  /\ Sound([s EXCEPT ![o] = t])
         /\ \A q \in Objects : CellsIn([s EXCEPT ![o] = t], q) = CellsIn(s, q)
<1> DEFINE r == [s EXCEPT ![o] = t]
<1>1. r \in [Objects -> Members] /\ r[o] = t /\ \A p \in Objects \ {o} : r[p] = s[p]
  BY DEF Sound
<1> HIDE DEF r
<1>2. \A q \in Objects : r[q].buffers = s[q].buffers /\ r[q].totalSize = s[q].totalSize
  BY <1>1
<1>3. \A q \in Objects : CellsIn(r, q) = CellsIn(s, q)
  BY <1>2 DEF CellsIn
<1>4. \A q \in Objects : r[q].totalSize = Len(CellsIn(r, q)) /\ r[q].usedSize <= r[q].totalSize
  BY <1>1, <1>2, <1>3, SoundMembers
<1>5. ASSUME NEW q \in Objects, NEW i \in r[q].usedSize + 1 .. r[q].totalSize PROVE Own(r, q, i)
  <2>1. s[q].usedSize \in Nat /\ s[q].totalSize \in Nat /\ r[q].usedSize \in Nat
    BY <1>1, SoundMembers DEF Members
  <2>2. s[q].usedSize <= r[q].usedSize
    BY <1>1, <2>1
  <2>3. i \in s[q].usedSize + 1 .. s[q].totalSize
    BY <1>2, <2>1, <2>2
  <2>4. Own(s, q, i)
    BY <2>3, SoundMembers
  <2> QED
    BY <1>3, <2>4 DEF Own
<1> QED
  BY <1>1, <1>3, <1>4, <1>5 DEF Sound, r

\* A step that replaces the members of o by a, and then appends n new bytes in the first free cells
Fills(o, n, a, to) ==
    /\ a \in Members /\ Sound([sb EXCEPT ![o] = a])
    /\ a.usedSize = sb[o].usedSize /\ a.usedSize + n <= a.totalSize
    /\ \A j \in 1 .. a.usedSize : Cells(a.buffers)[j] = CellsIn(sb, o)[j]
    /\ sb' = [sb EXCEPT ![o] = [a EXCEPT !.usedSize = @ + n]]
    /\ DOMAIN to = 1 .. n /\ \A i \in 1 .. n : to[i] = Cells(a.buffers)[a.usedSize + i]
    /\ Store(to, Fresh(n)) /\ stored + n <= MaxBytes /\ stored' = stored + n /\ result' = <<>>

\* The bytes z + 1, ..., z + n
Numbered(z, n) == [i \in 1 .. n |-> z + i]

\* From s and m to r and k, the bytes z + 1, ..., z + n are added behind the used ones of o.
Grows(s, r, m, k, o, n, z) ==
    /\ m \in Memory /\ k \in Memory /\ Sound(s) /\ Sound(r) /\ o \in Objects
    /\ n \in Nat /\ z \in Nat /\ z + n <= MaxBytes
    /\ r[o].usedSize = s[o].usedSize + n /\ \A j \in 1 .. s[o].usedSize : CellsIn(r, o)[j] = CellsIn(s, o)[j]
    /\ \A q \in Objects \ {o} : CellsIn(r, q) = CellsIn(s, q) /\ r[q] = s[q]
    /\ \A p \in Objects : \A j \in 1 .. Len(CellsIn(r, p)) :
           Byte(k, CellsIn(r, p)[j]) =
               IF p = o /\ j \in s[o].usedSize + 1 .. s[o].usedSize + n THEN z + (j - s[o].usedSize)
               ELSE Byte(m, CellsIn(r, p)[j])

\* That is what happens to the content, too.
LEMMA FilledBytes ==
  ASSUME NEW s, NEW r, NEW m, NEW k, NEW o, NEW n, NEW z, Grows(s, r, m, k, o, n, z)
  PROVE  /\ \A q \in Objects \ {o} : Bytes(r, k, q) = Bytes(s, m, q)
         /\ Bytes(r, k, o) = Bytes(s, m, o) \o Numbered(z, n)
<1>1. m \in Memory /\ k \in Memory /\ Sound(s) /\ Sound(r) /\ o \in Objects
  BY Zenon DEF Grows
<1>2. n \in Nat /\ z \in Nat /\ z + n <= MaxBytes /\ r[o].usedSize = s[o].usedSize + n
  BY Zenon DEF Grows
<1>3. \A j \in 1 .. s[o].usedSize : CellsIn(r, o)[j] = CellsIn(s, o)[j]
  BY Zenon DEF Grows
<1>4. \A q \in Objects \ {o} : CellsIn(r, q) = CellsIn(s, q) /\ r[q] = s[q]
  BY Zenon DEF Grows
<1>5. \A p \in Objects : \A j \in 1 .. Len(CellsIn(r, p)) :
          Byte(k, CellsIn(r, p)[j]) =
              IF p = o /\ j \in s[o].usedSize + 1 .. s[o].usedSize + n THEN z + (j - s[o].usedSize)
              ELSE Byte(m, CellsIn(r, p)[j])
  BY Zenon DEF Grows
<1>6. \A q \in Objects \ {o} : Bytes(r, k, q) = Bytes(s, m, q)
  <2> SUFFICES ASSUME NEW q \in Objects \ {o} PROVE Bytes(r, k, q) = Bytes(s, m, q)
    OBVIOUS
  <2>1. CellsIn(r, q) = CellsIn(s, q) /\ r[q].usedSize = s[q].usedSize
    BY <1>4
  <2>2. \A i \in 1 .. s[q].usedSize : i \in 1 .. Len(CellsIn(s, q))
    <3>1. s[q].usedSize \in Nat /\ Len(CellsIn(s, q)) \in Nat /\ s[q].usedSize <= Len(CellsIn(s, q))
      BY <1>1, SoundMembers
    <3> QED
      BY <3>1
  <2>3. \A i \in 1 .. s[q].usedSize : Byte(k, CellsIn(r, q)[i]) = Byte(m, CellsIn(s, q)[i])
    BY <1>5, <2>1, <2>2
  <2> QED
    BY <2>1, <2>3 DEF Bytes
<1> DEFINE old == Bytes(s, m, o)
           new == Bytes(r, k, o)
           F == [i \in 1 .. n |-> z + i]
           u == s[o].usedSize
<1>7. old \in Seq(0 .. MaxBytes) /\ Len(old) = u /\ \A i \in 1 .. u : old[i] = Byte(m, CellsIn(s, o)[i])
  BY <1>1, BytesAre
<1>8. new \in Seq(0 .. MaxBytes) /\ Len(new) = u + n /\ \A i \in 1 .. u + n : new[i] = Byte(k, CellsIn(r, o)[i])
  <2>1. /\ new \in Seq(0 .. MaxBytes) /\ Len(new) = r[o].usedSize
        /\ \A i \in 1 .. r[o].usedSize : new[i] = Byte(k, CellsIn(r, o)[i])
    BY <1>1, BytesAre
  <2> QED
    BY <1>2, <2>1
<1>9. F \in Seq(0 .. MaxBytes) /\ Len(F) = n /\ \A i \in 1 .. n : F[i] = z + i
  <2>1. F \in [1 .. n -> 0 .. MaxBytes] /\ DOMAIN F = 1 .. n
    <3>1. MaxBytes \in Nat
      OBVIOUS
    <3>2. \A i \in 1 .. n : z + i \in 0 .. MaxBytes
      BY <1>2, <3>1
    <3> QED
      BY <3>2
  <2>2. F \in Seq(0 .. MaxBytes)
    BY <1>2, <2>1
  <2>3. \A i \in 1 .. n : F[i] = z + i
    OBVIOUS
  <2> HIDE DEF F
  <2>4. Len(F) = n
    BY <1>2, <2>1, <2>2, LenProperties
  <2> QED
    BY <2>2, <2>3, <2>4
<1>10. u \in Nat /\ u + n <= Len(CellsIn(r, o)) /\ Len(CellsIn(r, o)) \in Nat
  <2>1. r[o].usedSize <= Len(CellsIn(r, o)) /\ Len(CellsIn(r, o)) \in Nat /\ s[o].usedSize \in Nat
    BY <1>1, SoundMembers
  <2> QED
    BY <1>2, <2>1
<1>11. \A i \in 1 .. u : CellsIn(r, o)[i] = CellsIn(s, o)[i]
  BY <1>3
<1>12. \A j \in 1 .. Len(CellsIn(r, o)) :
          Byte(k, CellsIn(r, o)[j]) = IF j \in u + 1 .. u + n THEN z + (j - u) ELSE Byte(m, CellsIn(r, o)[j])
  BY <1>1, <1>5
<1>13. new = old \o F
  <2> HIDE DEF old, new, F, u
  <2>1. ASSUME NEW i \in 1 .. u PROVE new[i] = old[i]
    <3>1. i \in 1 .. Len(CellsIn(r, o)) /\ i \in 1 .. u + n /\ ~(i \in u + 1 .. u + n)
      BY <1>2, <1>10
    <3>2. Byte(k, CellsIn(r, o)[i]) = Byte(m, CellsIn(r, o)[i])
      BY <1>12, <3>1
    <3> QED
      BY <1>7, <1>8, <1>11, <3>1, <3>2
  <2>2. ASSUME NEW i \in 1 .. n PROVE new[u + i] = F[i]
    <3>1. u + i \in 1 .. Len(CellsIn(r, o)) /\ u + i \in u + 1 .. u + n /\ u + i \in 1 .. u + n /\ z + ((u + i) - u) = z + i
      BY <1>2, <1>10
    <3>2. Byte(k, CellsIn(r, o)[u + i]) = z + i
      BY <1>12, <3>1
    <3> QED
      BY <1>8, <1>9, <3>1, <3>2
  <2>3. Len(new) = Len(old) + Len(F)
    BY <1>7, <1>8, <1>9
  <2>4. \A i \in 1 .. Len(old) : new[i] = old[i]
    BY <1>7, <2>1
  <2>5. \A i \in 1 .. Len(F) : new[Len(old) + i] = F[i]
    BY <1>7, <1>9, <2>2
  <2> QED
    BY <1>7, <1>8, <1>9, <2>3, <2>4, <2>5, IsConcat
<1> QED
  BY <1>6, <1>13 DEF Numbered

\* Such a step keeps the invariant, and appends to the queue of bytes.
LEMMA Filled ==
  ASSUME Inv, NEW o \in Objects, NEW n \in Sizes, NEW a, NEW to, Fills(o, n, a, to)
  PROVE  Inv' /\ Abstract!Next
<1> DEFINE s == [sb EXCEPT ![o] = a]
           b == [a EXCEPT !.usedSize = @ + n]
           u == a.usedSize
           C == Cells(a.buffers)
           L == Len(C)
<1>1. /\ s[o] = a /\ CellsIn(s, o) = C /\ Sound(s) /\ a \in Members
      /\ \A q \in Objects \ {o} : s[q] = sb[q] /\ CellsIn(s, q) = CellsIn(sb, q)
  BY DEF Inv, Sound, CellsIn, Fills
<1>2. u \in Nat /\ n \in Nat /\ n # 0 /\ u + n <= L /\ L \in Nat /\ a.totalSize = L
  <2>1. s[o].usedSize \in Nat /\ s[o].totalSize \in Nat /\ s[o].totalSize = Len(CellsIn(s, o))
    BY <1>1, SoundMembers
  <2>2. a.usedSize + n <= a.totalSize
    BY DEF Fills
  <2> QED
    BY <1>1, <2>1, <2>2
<1>3. b \in Members /\ b.usedSize = u + n /\ b.totalSize = a.totalSize /\ b.buffers = a.buffers
  <2>1. b = [buffers |-> a.buffers, usedSize |-> a.usedSize + n, totalSize |-> a.totalSize]
    BY <1>1 DEF Members
  <2>2. a.buffers \in Seq(Buffer) /\ a.totalSize \in Nat /\ a.usedSize + n \in Nat
    BY <1>1, <1>2 DEF Members
  <2> HIDE DEF b
  <2> QED
    BY <2>1, <2>2 DEF Members
<1>4. sb' = [s EXCEPT ![o] = b]
  <2>1. sb' = [sb EXCEPT ![o] = b]
    BY DEF Fills
  <2> HIDE DEF b
  <2> QED
    BY <2>1 DEF Inv, Sound
<1> HIDE DEF s, b, u, C, L
<1>5. Sound(sb') /\ \A q \in Objects : CellsIn(sb', q) = CellsIn(s, q)
  <2>1. s[o].usedSize <= b.usedSize /\ b.usedSize <= b.totalSize /\ b.buffers = s[o].buffers /\ b.totalSize = s[o].totalSize
    BY <1>1, <1>2, <1>3 DEF u
  <2>2. Sound([s EXCEPT ![o] = b]) /\ \A q \in Objects : CellsIn([s EXCEPT ![o] = b], q) = CellsIn(s, q)
    BY <1>1, <1>3, <2>1, MoreUsed
  <2> QED
    BY <1>4, <2>2
<1>6. sb'[o].usedSize = u + n /\ CellsIn(sb', o) = C /\ \A q \in Objects \ {o} : CellsIn(sb', q) = CellsIn(sb, q) /\ sb'[q] = sb[q]
  BY <1>1, <1>3, <1>4, <1>5 DEF Sound
<1>7. \A i \in u + 1 .. u + n : Own(sb', o, i)
  <2> SUFFICES ASSUME NEW i \in u + 1 .. u + n PROVE Own(sb', o, i)
    OBVIOUS
  <2>1. i \in s[o].usedSize + 1 .. s[o].totalSize
    <3>1. i \in u + 1 .. L
      BY <1>2
    <3> QED
      BY <1>1, <1>2, <3>1 DEF u
  <2>2. Own(s, o, i)
    BY <1>1, <2>1, SoundMembers
  <2> QED
    BY <1>5, <2>2 DEF Own
<1>8. /\ stored \in Nat /\ mem \in Memory /\ Sound(sb) /\ stored + n <= MaxBytes /\ stored + n \in 0 .. MaxBytes
      /\ stored' = stored + n /\ result' = <<>>
  <2>1. stored + n <= MaxBytes /\ stored' = stored + n /\ result' = <<>>
    BY DEF Fills
  <2> QED
    BY <1>2, <2>1 DEF Inv
<1>9. \A i \in 1 .. n : Fresh(n)[i] = stored + i /\ Fresh(n)[i] \in 0 .. MaxBytes
  BY <1>2, <1>8 DEF Fresh
<1>10. /\ mem' \in Memory
       /\ \A p \in Objects : \A j \in 1 .. Len(CellsIn(sb', p)) :
              Byte(mem', CellsIn(sb', p)[j]) =
                  IF p = o /\ j \in u + 1 .. u + n THEN Fresh(n)[j - u] ELSE Byte(mem, CellsIn(sb', p)[j])
  <2>1. DOMAIN to = 1 .. n /\ Store(to, Fresh(n)) /\ \A i \in 1 .. n : to[i] = C[u + i]
    BY DEF Fills, C, u
  <2>2. \A i \in 1 .. n : to[i] = CellsIn(sb', o)[u + i] /\ Fresh(n)[i] \in 0 .. MaxBytes
    BY <1>6, <1>9, <2>1
  <2>3. u + n <= Len(CellsIn(sb', o))
    BY <1>2, <1>6 DEF L
  <2> QED
    <3> DEFINE fr == Fresh(n)
    <3>1. Sound(sb')
      BY <1>5
    <3>2. mem \in Memory /\ u \in Nat /\ n \in Nat
      BY <1>2, <1>8
    <3>3. Store(to, fr) /\ DOMAIN to = 1 .. n
      BY <2>1
    <3>4. \A i \in 1 .. n : to[i] = CellsIn(sb', o)[u + i] /\ fr[i] \in 0 .. MaxBytes
      BY <2>2
    <3> HIDE DEF fr
    <3>5. /\ mem' \in Memory
          /\ \A p \in Objects : \A j \in 1 .. Len(CellsIn(sb', p)) :
                Byte(mem', CellsIn(sb', p)[j]) =
                    IF p = o /\ j \in u + 1 .. u + n THEN fr[j - u] ELSE Byte(mem, CellsIn(sb', p)[j])
      <4>1. StoresAt(o, u, n, to, fr)
        BY <1>7, <2>3, <3>1, <3>2, <3>3, <3>4, Zenon DEF StoresAt
      <4> QED
        BY <4>1, StoredAt
    <3> QED
      BY <3>5 DEF fr
<1>11. Inv'
  BY <1>5, <1>8, <1>10 DEF Inv
<1>12. AllBytes(sb', mem') = [AllBytes(sb, mem) EXCEPT ![o] = @ \o [i \in 1 .. n |-> stored + i]]
  <2>1. sb[o].usedSize = u /\ \A j \in 1 .. u : C[j] = CellsIn(sb, o)[j]
    BY DEF Fills, C, u
  <2>2. sb'[o].usedSize = sb[o].usedSize + n /\ \A j \in 1 .. sb[o].usedSize : CellsIn(sb', o)[j] = CellsIn(sb, o)[j]
    BY <1>6, <2>1
  <2>3. \A j \in u + 1 .. u + n : j - u \in 1 .. n
    BY <1>2
  <2>4. \A p \in Objects : \A j \in 1 .. Len(CellsIn(sb', p)) :
             Byte(mem', CellsIn(sb', p)[j]) =
                 IF p = o /\ j \in sb[o].usedSize + 1 .. sb[o].usedSize + n THEN stored + (j - sb[o].usedSize)
                 ELSE Byte(mem, CellsIn(sb', p)[j])
    BY <1>9, <1>10, <2>1, <2>3
  <2> QED
    <3>1. Sound(sb') /\ Sound(sb)
      BY <1>5, <1>8
    <3>2. mem \in Memory /\ mem' \in Memory /\ stored \in Nat /\ n \in Nat /\ stored + n <= MaxBytes
      BY <1>2, <1>8, <1>10
    <3>3. \A q \in Objects \ {o} : CellsIn(sb', q) = CellsIn(sb, q) /\ sb'[q] = sb[q]
      BY <1>6
    <3> QED
      <4>1. Grows(sb, sb', mem, mem', o, n, stored)
        BY <2>2, <2>4, <3>1, <3>2, <3>3, Zenon DEF Grows
      <4> QED
        <5>1. /\ \A q \in Objects \ {o} : Bytes(sb', mem', q) = Bytes(sb, mem, q)
              /\ Bytes(sb', mem', o) = Bytes(sb, mem, o) \o Numbered(stored, n)
          BY <4>1, FilledBytes
        <5> QED
          BY <5>1 DEF AllBytes, Numbered
<1>13. Abstract!AppendBytes(o, n)
  BY <1>5, <1>8, <1>12, Contents DEF Abstract!AppendBytes
<1> QED
  BY <1>11, <1>13 DEF Abstract!Next
\* The elements of a concatenation of cells
LEMMA ConcatAt ==
  ASSUME NEW s \in Seq(Cell), NEW t \in Seq(Cell)
  PROVE  /\ s \o t \in Seq(Cell) /\ Len(s \o t) = Len(s) + Len(t) /\ Len(s) \in Nat /\ Len(t) \in Nat
         /\ \A i \in 1 .. Len(s) : (s \o t)[i] = s[i]
         /\ \A i \in 1 .. Len(t) : (s \o t)[Len(s) + i] = t[i]
<1>1. Len(s) \in Nat /\ Len(t) \in Nat
  BY LenProperties
<1>2. s \o t \in Seq(Cell) /\ Len(s \o t) = Len(s) + Len(t)
  BY ConcatProperties
<1>3. \A i \in 1 .. Len(s) + Len(t) : (s \o t)[i] = IF i <= Len(s) THEN s[i] ELSE t[i - Len(s)]
  BY ConcatProperties
<1>4. \A i \in 1 .. Len(s) : i \in 1 .. Len(s) + Len(t) /\ i <= Len(s)
  BY <1>1
<1>5. \A i \in 1 .. Len(t) : Len(s) + i \in 1 .. Len(s) + Len(t) /\ ~(Len(s) + i <= Len(s)) /\ (Len(s) + i) - Len(s) = i
  BY <1>1
<1>6. \A i \in 1 .. Len(s) : (s \o t)[i] = s[i]
  BY <1>3, <1>4
<1>7. \A i \in 1 .. Len(t) : (s \o t)[Len(s) + i] = t[i]
  BY <1>3, <1>5
<1> QED
  BY <1>1, <1>2, <1>6, <1>7

\* The cells from a location to the end of its buffer
LEMMA InOneBuffer ==
  ASSUME NEW bs \in Seq(Buffer), NEW n \in 0 .. Len(Cells(bs)), FindLocation(bs, n).i <= Len(bs)
  PROVE  LET l == FindLocation(bs, n)
             b == bs[l.i]
         IN  /\ l.i \in 1 .. Len(bs) /\ b \in Buffer /\ l.offset \in 0 .. b.size /\ SizeLeft(bs, l) = b.size - l.offset
             /\ SizeLeft(bs, l) \in Nat /\ n + SizeLeft(bs, l) <= Len(Cells(bs))
             /\ \A i \in 1 .. SizeLeft(bs, l) : Cells(bs)[n + i] = <<b.base, b.data + l.offset + i>>
<1> DEFINE l == FindLocation(bs, n)
           b == bs[l.i]
           left == SizeLeft(bs, l)
           front == SubSeq(bs, 1, l.i - 1) \o <<UpTo(b, l.offset)>>
           behind == SubSeq(bs, l.i + 1, Len(bs))
           back == <<From(b, l.offset)>> \o behind
           f == Cells(front)
           v == BufferCells(From(b, l.offset))
           h == Cells(behind)
<1>1. /\ l.i \in 1 .. Len(bs) + 1 /\ l.offset \in Nat
      /\ l.offset # 0 => l.i <= Len(bs) /\ l.offset < bs[l.i].size
      /\ Len(Cells(SubSeq(bs, 1, l.i - 1))) + l.offset = n
  BY Location
<1>2. l.i <= Len(bs)
  OBVIOUS
<1> HIDE DEF l
<1>3. l.i \in 1 .. Len(bs)
  BY <1>1, <1>2, LenProperties
<1>4. b \in Buffer /\ b.size \in Nat
  BY <1>3, ElementOfSeq, BufferCellsAre
<1>5. l.offset \in 0 .. b.size
  <2>1. CASE l.offset = 0
    BY <1>4, <2>1
  <2>2. CASE l.offset # 0
    <3>1. l.offset < b.size
      BY <1>1, <2>2
    <3> DEFINE x == l.offset
               y == b.size
    <3>2. x \in Nat /\ y \in Nat /\ x < y
      BY <1>1, <1>4, <3>1
    <3> HIDE DEF x, y
    <3>3. x \in 0 .. y
      BY <3>2
    <3> QED
      BY <3>3 DEF x, y
  <2> QED
    BY <2>1, <2>2
<1>6. /\ front \in Seq(Buffer) /\ behind \in Seq(Buffer) /\ Cells(bs) = f \o Cells(back)
      /\ Len(f) = Len(Cells(SubSeq(bs, 1, l.i - 1))) + l.offset /\ Cells(back) = v \o h
  BY <1>3, <1>5, SplitAt
<1>7. left = b.size - l.offset /\ left \in Nat
  BY <1>4, <1>5 DEF SizeLeft
<1>8. From(b, l.offset) \in Buffer /\ From(b, l.offset).size = left /\ From(b, l.offset).base = b.base
      /\ From(b, l.offset).data = b.data + l.offset
  BY <1>4, <1>5, <1>7, SplitBuffer
<1>9. v \in Seq(Cell) /\ Len(v) = left /\ \A i \in 1 .. left : v[i] = <<b.base, b.data + l.offset + i>>
  <2> DEFINE w == From(b, l.offset)
  <2>1. w \in Buffer /\ w.size = left /\ w.base = b.base /\ w.data = b.data + l.offset
    BY <1>8
  <2> HIDE DEF w
  <2>2. BufferCells(w) \in Seq(Cell) /\ Len(BufferCells(w)) = w.size /\ \A i \in 1 .. w.size : BufferCells(w)[i] = <<w.base, w.data + i>>
    BY <2>1, BufferCellsAre
  <2> QED
    BY <2>1, <2>2 DEF w
<1>10. f \in Seq(Cell) /\ h \in Seq(Cell) /\ Len(f) = n /\ Len(h) \in Nat /\ n \in Nat
  <2>1. f \in Seq(Cell) /\ h \in Seq(Cell) /\ Len(h) \in Nat /\ Len(Cells(bs)) \in Nat
    BY <1>6, CellsType
  <2> QED
    BY <1>1, <1>6, <2>1
<1>11. Cells(bs) = f \o (v \o h)
  BY <1>6
<1> HIDE DEF f, v, h, left, b
<1>12. v \o h \in Seq(Cell) /\ Len(v \o h) = left + Len(h) /\ \A i \in 1 .. left : (v \o h)[i] = v[i]
  <2>1. v \o h \in Seq(Cell) /\ Len(v \o h) = Len(v) + Len(h) /\ \A i \in 1 .. Len(v) + Len(h) : (v \o h)[i] = IF i <= Len(v) THEN v[i] ELSE h[i - Len(v)]
    BY <1>9, <1>10, ConcatProperties, ZenonT(30)
  <2>2. \A i \in 1 .. left : i \in 1 .. left + Len(h) /\ i <= left
    BY <1>7, <1>10
  <2> QED
    BY <1>9, <2>1, <2>2
<1> DEFINE g == v \o h
<1>13. g \in Seq(Cell) /\ Len(g) = left + Len(h) /\ \A i \in 1 .. left : g[i] = v[i]
  BY <1>12
<1>14. Cells(bs) = f \o g
  BY <1>11
<1> HIDE DEF g
<1>15. Len(f \o g) = n + Len(g) /\ \A i \in 1 .. left : (f \o g)[n + i] = g[i]
  <2>1. Len(f \o g) = Len(f) + Len(g) /\ \A i \in 1 .. Len(g) : (f \o g)[Len(f) + i] = g[i]
    BY <1>10, <1>13, ConcatAt
  <2>2. \A i \in 1 .. left : i \in 1 .. left + Len(h)
    BY <1>7, <1>10
  <2> QED
    BY <1>10, <1>13, <2>1, <2>2
<1>16. n + left <= Len(Cells(bs))
  BY <1>7, <1>10, <1>13, <1>14, <1>15, SMTT(30)
<1>17. \A i \in 1 .. left : Cells(bs)[n + i] = <<b.base, b.data + l.offset + i>>
  BY <1>9, <1>13, <1>14, <1>15
<1> QED
  BY <1>3, <1>4, <1>5, <1>7, <1>16, <1>17 DEF b, left, l

\* What allocate makes of the members: a sound stream buffer with enough free space behind the old cells
LEMMA AllocatedIs ==
  ASSUME Sound(sb), NEW o \in Objects, NEW n \in Nat, MayAllocate(o, n)
  PROVE  LET a == Allocated(o, n)
             b == NewBuffer(n - FreeSize(o))
         IN  /\ a \in Members /\ Sound([sb EXCEPT ![o] = a]) /\ a.usedSize = sb[o].usedSize
             /\ a.usedSize + n <= a.totalSize
             /\ \A j \in 1 .. Len(CellsIn(sb, o)) : Cells(a.buffers)[j] = CellsIn(sb, o)[j]
             /\ FreeSize(o) < n =>
                  /\ a.buffers = Append(sb[o].buffers, b) /\ b.size >= n - FreeSize(o)
                  /\ \A i \in 1 .. b.size : Cells(a.buffers)[sb[o].totalSize + i] = <<b.base, b.data + i>>
<1> DEFINE a == Allocated(o, n)
           f == FreeSize(o)
           old == CellsIn(sb, o)
           t == sb[o].totalSize
           u == sb[o].usedSize
           bs == sb[o].buffers
<1>1. sb[o] \in Members /\ bs \in Seq(Buffer) /\ u \in Nat /\ t \in Nat /\ u <= t /\ t = Len(old) /\ old = Cells(bs) /\ f = t - u
      /\ old \in Seq(Cell) /\ sb[o] = [buffers |-> bs, usedSize |-> u, totalSize |-> t]
  <2>1. sb[o] = [buffers |-> bs, usedSize |-> u, totalSize |-> t]
    BY SoundMembers DEF Members
  <2> QED
    BY <2>1, SoundMembers DEF FreeSize
<1>2. f \in Nat
  BY <1>1
<1>3. CASE f >= n
  <2>1. a = sb[o]
    BY <1>3 DEF Allocated
  <2>2. [sb EXCEPT ![o] = sb[o]] = sb
    BY DEF Sound
  <2>3. ~(f < n) /\ u + n <= t
    BY <1>1, <1>2, <1>3
  <2> QED
    BY <1>1, <2>1, <2>2, <2>3
<1>4. CASE ~(f >= n)
  <2> DEFINE b == NewBuffer(n - f)
             new == Cells(a.buffers)
             B == BufferCells(b)
  <2>1. CanAllocate(n - f) /\ n - f \in Nat
    BY <1>2, <1>4 DEF MayAllocate
  <2>2. /\ b \in Buffer /\ b.size >= n - f
        /\ \A i \in 1 .. b.size, p \in Objects : \A j \in 1 .. Len(CellsIn(sb, p)) : CellsIn(sb, p)[j] # B[i]
        /\ \A i, j \in 1 .. b.size : i # j => B[i] # B[j]
    BY <2>1, NewBufferIs
  <2>3. a = [sb[o] EXCEPT !.buffers = Append(@, b), !.totalSize = @ + b.size]
    BY <1>4 DEF Allocated
  <2> HIDE DEF b
  <2>4. a = [buffers |-> Append(bs, b), usedSize |-> u, totalSize |-> t + b.size]
    <3> DEFINE c == [sb[o] EXCEPT !.buffers = Append(@, b)]
    <3>1. a = [c EXCEPT !.totalSize = @ + b.size]
      BY <2>3, Zenon
    <3>2. \A x, y, z, v : [[buffers |-> x, usedSize |-> y, totalSize |-> z] EXCEPT !.buffers = v] =
                             [buffers |-> v, usedSize |-> y, totalSize |-> z]
      OBVIOUS
    <3>3. \A x, y, z, v : [[buffers |-> x, usedSize |-> y, totalSize |-> z] EXCEPT !.totalSize = v] =
                             [buffers |-> x, usedSize |-> y, totalSize |-> v]
      OBVIOUS
    <3>4. c = [buffers |-> Append(bs, b), usedSize |-> u, totalSize |-> t]
      <4> DEFINE e == Append(bs, b)
      <4>1. c = [sb[o] EXCEPT !.buffers = e]
        OBVIOUS
      <4> HIDE DEF c, e, bs, u, t
      <4>2. c = [buffers |-> e, usedSize |-> u, totalSize |-> t]
        BY <1>1, <3>2, <4>1
      <4> QED
        BY <4>2 DEF e
    <3> HIDE DEF c
    <3>5. a = [c EXCEPT !.totalSize = t + b.size]
      BY <3>1, <3>4
    <3> HIDE DEF a, bs, u, t
    <3> QED
      BY <3>3, <3>4, <3>5
  <2> HIDE DEF a
  <2>5. a.buffers = Append(bs, b) /\ a.usedSize = u /\ a.totalSize = t + b.size
    BY <2>4
  <2>6. Append(bs, b) \in Seq(Buffer) /\ new = old \o B
    <3>1. Append(bs, b) \in Seq(Buffer)
      BY <1>1, <2>2, AppendProperties
    <3>2. Cells(Append(bs, b)) = Cells(bs) \o B
      BY <1>1, <2>2, CellsAppend, Zenon
    <3> QED
      BY <1>1, <2>5, <3>1, <3>2
  <2>7. b.size \in Nat /\ B \in Seq(Cell) /\ Len(B) = b.size /\ \A i \in 1 .. b.size : B[i] = <<b.base, b.data + i>>
    BY <2>2, BufferCellsAre
  <2>8. a \in Members
    BY <1>1, <2>4, <2>6, <2>7, SMTT(30) DEF Members
  <2> HIDE DEF new, B, t, u, f, old, bs
  <2>9. Len(new) = t + b.size
    <3>1. Len(old \o B) = Len(old) + Len(B)
      BY <1>1, <2>7, ConcatAt
    <3> QED
      BY <1>1, <2>6, <2>7, <3>1
  <2>10. \A j \in 1 .. t : new[j] = old[j]
    BY <1>1, <2>6, <2>7, ConcatAt
  <2>11. \A i \in 1 .. b.size : new[t + i] = B[i]
    BY <1>1, <2>6, <2>7, ConcatAt, SMTT(30)
  <2>12. u + n <= t + b.size
    BY <1>1, <2>2, <2>7, SMTT(30)
  <2>13. Replaces(sb, o, a, t, 0, b.size)
    <3>1. t \in Nat /\ 0 \in Nat /\ b.size \in Nat /\ t + 0 <= Len(old) /\ Len(new) = Len(old) - 0 + b.size
      BY <1>1, <2>7, <2>9
    <3>2. \A i \in t + b.size + 1 .. Len(new) : FALSE
      BY <1>1, <2>7, <2>9, SMTT(30)
    <3>3. \A i \in t + 1 .. t + b.size : i - t \in 1 .. b.size /\ new[i] = B[i - t]
      <4>1. \A i \in t + 1 .. t + b.size : i - t \in 1 .. b.size /\ t + (i - t) = i
        BY <1>1, <2>7, SMTT(30)
      <4> QED
        BY <2>11, <4>1
    <3>4. \A i \in t + 1 .. t + b.size : \A p \in Objects : \A j \in 1 .. Len(CellsIn(sb, p)) : CellsIn(sb, p)[j] # new[i]
      BY <2>2, <3>3
    <3>5. \A i, j \in t + 1 .. t + b.size : i # j => new[i] # new[j]
      <4>1. \A i, j \in t + 1 .. t + b.size : i # j => i - t # j - t
        BY <1>1, <2>7, SMTT(30)
      <4> QED
        BY <2>2, <3>3, <4>1
    <3>6. a.totalSize = Len(new) /\ a.usedSize <= a.totalSize
      BY <1>1, <2>5, <2>7, <2>9, SMTT(30)
    <3>7. \A i \in 1 .. t : i > a.usedSize => i > sb[o].usedSize
      BY <2>5 DEF u
    <3> QED
      BY <2>8, <2>10, <3>1, <3>2, <3>4, <3>5, <3>6, <3>7, Zenon DEF Replaces, old, new
  <2>14. Sound([sb EXCEPT ![o] = a])
    BY <2>13, Replaced
  <2>15. \A i \in 1 .. b.size : new[t + i] = <<b.base, b.data + i>>
    BY <2>7, <2>11
  <2>16. \A j \in 1 .. Len(old) : new[j] = old[j]
    BY <1>1, <2>10
  <2>17. a.usedSize = u /\ a.usedSize + n <= a.totalSize /\ a.buffers = Append(bs, b) /\ b.size >= n - f
    BY <2>2, <2>5, <2>12
  <2> QED
    BY <2>8, <2>14, <2>15, <2>16, <2>17, Zenon DEF a, b, f, new, old, t, u, bs
<1> QED
  BY <1>3, <1>4
\* A part of a row of cells
LEMMA SubSeqAt ==
  ASSUME NEW c \in Seq(Cell), NEW k \in Nat, NEW n \in Nat, k + n <= Len(c)
  PROVE  LET to == SubSeq(c, k + 1, k + n)
         IN  /\ to \in Seq(Cell) /\ DOMAIN to = 1 .. n /\ Len(to) = n
             /\ \A i \in 1 .. n : to[i] = c[k + i]
<1> DEFINE to == SubSeq(c, k + 1, k + n)
<1>1. Len(c) \in Nat
  BY LenProperties
<1>2. \A i \in k + 1 .. k + n : c[i] \in Cell
  <2>1. \A i \in k + 1 .. k + n : i \in 1 .. Len(c)
    BY <1>1
  <2> QED
    BY <2>1, ElementOfSeq
<1>3. k + 1 \in Int /\ k + n \in Int
  OBVIOUS
<1>4. /\ to \in Seq(Cell)
      /\ Len(to) = (IF k + 1 <= k + n THEN (k + n) - (k + 1) + 1 ELSE 0)
      /\ \A i \in 1 .. (k + n) - (k + 1) + 1 : to[i] = c[(k + 1) + i - 1]
  BY <1>2, <1>3, SubSeqProperties
<1>5. (k + n) - (k + 1) + 1 = n /\ \A i \in 1 .. n : (k + 1) + i - 1 = k + i
  OBVIOUS
<1>6. Len(to) = n
  <2> HIDE DEF to
  <2> QED
    BY <1>4
<1>7. \A i \in 1 .. n : to[i] = c[k + i]
  <2> HIDE DEF to
  <2> QED
    BY <1>4, <1>5
<1>8. DOMAIN to = 1 .. n
  BY <1>4, <1>6, LenProperties
<1> QED
  BY <1>4, <1>6, <1>7, <1>8

\* The cells of the two parts of a list
LEMMA SplitCells ==
  ASSUME NEW bs \in Seq(Buffer), NEW n \in 0 .. Len(Cells(bs))
  PROVE  /\ TakeCells(bs, n) \in Seq(Buffer) /\ DropCells(bs, n) \in Seq(Buffer)
         /\ Cells(TakeCells(bs, n)) \in Seq(Cell) /\ Cells(DropCells(bs, n)) \in Seq(Cell)
         /\ Len(Cells(TakeCells(bs, n))) = n /\ Len(Cells(DropCells(bs, n))) = Len(Cells(bs)) - n
         /\ \A i \in 1 .. n : Cells(TakeCells(bs, n))[i] = Cells(bs)[i]
         /\ \A i \in 1 .. Len(Cells(bs)) - n : Cells(DropCells(bs, n))[i] = Cells(bs)[n + i]
<1> DEFINE take == TakeCells(bs, n)
           drop == DropCells(bs, n)
           t == Cells(take)
           d == Cells(drop)
           c == Cells(bs)
<1>1. take \in Seq(Buffer) /\ drop \in Seq(Buffer) /\ c = t \o d /\ Len(t) = n
  BY Split
<1> HIDE DEF take, drop
<1>2. t \in Seq(Cell) /\ d \in Seq(Cell) /\ c \in Seq(Cell)
  BY <1>1, CellsType
<1> HIDE DEF t, d, c
<1>3. /\ Len(t \o d) = Len(t) + Len(d) /\ Len(d) \in Nat /\ Len(t) \in Nat
      /\ \A i \in 1 .. Len(t) : (t \o d)[i] = t[i]
      /\ \A i \in 1 .. Len(d) : (t \o d)[Len(t) + i] = d[i]
  BY <1>2, ConcatAt
<1>4. Len(d) = Len(c) - n
  BY <1>1, <1>3
<1>5. \A i \in 1 .. n : t[i] = c[i]
  BY <1>1, <1>3
<1>6. \A i \in 1 .. Len(d) : d[i] = c[n + i]
  BY <1>1, <1>3
<1> QED
  BY <1>1, <1>2, <1>4, <1>5, <1>6 DEF take, drop, t, d, c

-----------------------------------------------------------------------------
(* The operations *)

\* A step that stores nothing and changes only what is not used
LEMMA OnlyFreeChanged ==
  ASSUME Inv, NEW o \in Objects, Sound(sb'), NothingStored,
         \A p \in Objects : /\ sb'[p].usedSize = sb[p].usedSize
                            /\ \A j \in 1 .. sb[p].usedSize : CellsIn(sb', p)[j] = CellsIn(sb, p)[j]
  PROVE  Inv' /\ Abstract!Next
<1>1. mem \in Memory /\ Sound(sb) /\ stored \in 0 .. MaxBytes
  BY DEF Inv
<1>2. Store(<<>>, <<>>) /\ stored' = stored /\ result' = <<>>
  BY DEF NothingStored
<1>3. /\ mem' \in Memory
      /\ \A p \in Objects : \A j \in 1 .. Len(CellsIn(sb', p)) :
             Byte(mem', CellsIn(sb', p)[j]) = Byte(mem, CellsIn(sb', p)[j])
  BY <1>1, <1>2, StoredNothing
<1>4. Inv'
  BY <1>1, <1>2, <1>3 DEF Inv
<1>5. \A p \in Objects : Bytes(sb', mem', p) = Bytes(sb, mem, p)
  <2> SUFFICES ASSUME NEW p \in Objects PROVE Bytes(sb', mem', p) = Bytes(sb, mem, p)
    OBVIOUS
  <2>1. sb'[p].usedSize \in Nat /\ sb'[p].usedSize <= Len(CellsIn(sb', p)) /\ Len(CellsIn(sb', p)) \in Nat
    BY SoundMembers
  <2>2. \A j \in 1 .. sb'[p].usedSize : j \in 1 .. Len(CellsIn(sb', p))
    BY <2>1
  <2>3. \A j \in 1 .. sb'[p].usedSize : Byte(mem', CellsIn(sb', p)[j]) = Byte(mem, CellsIn(sb, p)[j])
    BY <1>3, <2>2
  <2> QED
    BY <2>3 DEF Bytes
<1>6. AllBytes(sb', mem') = AllBytes(sb, mem)
  BY <1>5 DEF AllBytes
<1>7. Abstract!Next
  BY <1>1, <1>2, <1>6, SameContent
<1> QED
  BY <1>4, <1>7

\* allocate changes nothing of the queue: the memory it adds is free.
LEMMA AllocateStep ==
  ASSUME Inv, NEW o \in Objects, NEW n \in Sizes, Allocate(o, n)
  PROVE  Inv' /\ Abstract!Next
<1> DEFINE a == Allocated(o, n)
<1>1. Sound(sb) /\ n \in Nat
  BY DEF Inv
<1>2. MayAllocate(o, n) /\ sb' = [sb EXCEPT ![o] = a] /\ NothingStored
  BY DEF Allocate
<1>3. /\ Sound([sb EXCEPT ![o] = a]) /\ a.usedSize = sb[o].usedSize
      /\ \A j \in 1 .. Len(CellsIn(sb, o)) : Cells(a.buffers)[j] = CellsIn(sb, o)[j]
  BY <1>1, <1>2, AllocatedIs
<1> HIDE DEF a
<1>4. Sound(sb') /\ sb'[o] = a /\ CellsIn(sb', o) = Cells(a.buffers) /\ \A q \in Objects \ {o} : sb'[q] = sb[q] /\ CellsIn(sb', q) = CellsIn(sb, q)
  BY <1>1, <1>2, <1>3 DEF Sound, CellsIn
<1>5. ASSUME NEW p \in Objects
      PROVE  /\ sb'[p].usedSize = sb[p].usedSize
             /\ \A j \in 1 .. sb[p].usedSize : CellsIn(sb', p)[j] = CellsIn(sb, p)[j]
  <2>1. sb[p].usedSize \in Nat /\ sb[p].usedSize <= Len(CellsIn(sb, p)) /\ Len(CellsIn(sb, p)) \in Nat
    BY <1>1, SoundMembers
  <2>2. \A j \in 1 .. sb[p].usedSize : j \in 1 .. Len(CellsIn(sb, p))
    BY <2>1
  <2>3. CASE p = o
    BY <1>3, <1>4, <2>2, <2>3
  <2>4. CASE p # o
    BY <1>4, <2>4
  <2> QED
    BY <2>3, <2>4
<1> QED
  BY <1>2, <1>4, <1>5, OnlyFreeChanged

\* appendData appends n fresh bytes to the queue: it stores them in the first free cells, which are nowhere else.
LEMMA AppendDataStep ==
  ASSUME Inv, NEW o \in Objects, NEW n \in Sizes, AppendData(o, n)
  PROVE  Inv' /\ Abstract!Next
<1> DEFINE a == Allocated(o, n)
           to == SubSeq(Cells(a.buffers), a.usedSize + 1, a.usedSize + n)
<1>1. Sound(sb) /\ n \in Nat
  BY DEF Inv
<1>2. /\ MayAllocate(o, n) /\ stored + n <= MaxBytes /\ sb' = [sb EXCEPT ![o] = [a EXCEPT !.usedSize = @ + n]]
      /\ Store(to, Fresh(n)) /\ stored' = stored + n /\ result' = <<>>
  BY DEF AppendData
<1>3. /\ a \in Members /\ Sound([sb EXCEPT ![o] = a]) /\ a.usedSize = sb[o].usedSize
      /\ a.usedSize + n <= a.totalSize
      /\ \A j \in 1 .. Len(CellsIn(sb, o)) : Cells(a.buffers)[j] = CellsIn(sb, o)[j]
  BY <1>1, <1>2, AllocatedIs
<1> HIDE DEF a
<1>4. \A j \in 1 .. a.usedSize : Cells(a.buffers)[j] = CellsIn(sb, o)[j]
  <2>1. sb[o].usedSize \in Nat /\ sb[o].usedSize <= Len(CellsIn(sb, o)) /\ Len(CellsIn(sb, o)) \in Nat
    BY <1>1, SoundMembers
  <2>2. \A j \in 1 .. sb[o].usedSize : j \in 1 .. Len(CellsIn(sb, o))
    BY <2>1
  <2> QED
    BY <1>3, <2>2
<1>5. a.usedSize \in Nat /\ Cells(a.buffers) \in Seq(Cell) /\ a.usedSize + n <= Len(Cells(a.buffers))
  <2> DEFINE s == [sb EXCEPT ![o] = a]
  <2>1. s[o] = a
    BY <1>1 DEF Sound
  <2>2. Sound(s)
    BY <1>3
  <2> HIDE DEF s
  <2>3. s[o].usedSize \in Nat /\ CellsIn(s, o) \in Seq(Cell) /\ CellsIn(s, o) = Cells(s[o].buffers) /\ s[o].totalSize = Len(CellsIn(s, o))
    BY <2>2, SoundMembers
  <2> QED
    BY <1>3, <2>1, <2>3
<1>6. DOMAIN to = 1 .. n /\ \A i \in 1 .. n : to[i] = Cells(a.buffers)[a.usedSize + i]
  BY <1>1, <1>5, SubSeqAt, SMTT(30)
<1> HIDE DEF to
<1>7. Fills(o, n, a, to)
  BY <1>2, <1>3, <1>4, <1>6, Zenon DEF Fills
<1> QED
  BY <1>7, Filled

\* A step that fills the first free cells of o and leaves its list alone
LEMMA FilledInPlace ==
  ASSUME Inv, NEW o \in Objects, NEW n \in Sizes, NEW to,
         sb[o].usedSize + n <= sb[o].totalSize, sb' = [sb EXCEPT ![o].usedSize = @ + n],
         DOMAIN to = 1 .. n, \A i \in 1 .. n : to[i] = CellsIn(sb, o)[sb[o].usedSize + i],
         Store(to, Fresh(n)), stored + n <= MaxBytes, stored' = stored + n, result' = <<>>
  PROVE  Inv' /\ Abstract!Next
<1> DEFINE a == sb[o]
<1>1. Sound(sb) /\ a \in Members
  BY SoundMembers DEF Inv
<1>2. [sb EXCEPT ![o] = a] = sb /\ sb' = [sb EXCEPT ![o] = [a EXCEPT !.usedSize = @ + n]]
  BY <1>1 DEF Sound
<1>3. Cells(a.buffers) = CellsIn(sb, o)
  BY DEF CellsIn
<1>4. Fills(o, n, a, to)
  BY <1>1, <1>2, <1>3, Zenon DEF Fills
<1> QED
  BY <1>4, Filled

\* getFreeIOVec, recvmsg and increaseUsed append n fresh bytes to the queue.
LEMMA ReceiveStep ==
  ASSUME Inv, NEW o \in Objects, NEW n \in Sizes, Receive(o, n)
  PROVE  Inv' /\ Abstract!Next
<1> DEFINE bs == sb[o].buffers
           u == sb[o].usedSize
           c == Cells(DropCells(bs, u))
           to == SubSeq(c, 1, n)
<1>1. Sound(sb) /\ n \in Nat
  BY DEF Inv
<1>2. /\ n <= FreeSize(o) /\ stored + n <= MaxBytes /\ sb' = [sb EXCEPT ![o].usedSize = @ + n]
      /\ Store(to, Fresh(n)) /\ stored' = stored + n /\ result' = <<>>
  BY DEF Receive
<1>3. /\ bs \in Seq(Buffer) /\ u \in Nat /\ sb[o].totalSize \in Nat /\ u <= sb[o].totalSize
      /\ sb[o].totalSize = Len(CellsIn(sb, o)) /\ CellsIn(sb, o) = Cells(bs)
  BY <1>1, SoundMembers
<1>4. u + n <= sb[o].totalSize
  BY <1>1, <1>2, <1>3 DEF FreeSize
<1>5. u \in 0 .. Len(Cells(bs))
  BY <1>3
<1>6. c \in Seq(Cell) /\ Len(c) = Len(Cells(bs)) - u /\ \A i \in 1 .. Len(Cells(bs)) - u : c[i] = Cells(bs)[u + i]
  BY <1>3, <1>5, SplitCells
<1> HIDE DEF c, u, bs
<1>7. 0 + n <= Len(c) /\ 0 \in Nat /\ \A i \in 1 .. n : i \in 1 .. Len(Cells(bs)) - u /\ 0 + i = i
  BY <1>1, <1>3, <1>4, <1>6
<1>8. 0 + 1 = 1 /\ 0 + n = n
  BY <1>1
<1>9. DOMAIN to = 1 .. n /\ \A i \in 1 .. n : to[i] = c[i]
  <2> DEFINE r == SubSeq(c, 0 + 1, 0 + n)
  <2>1. DOMAIN r = 1 .. n /\ \A i \in 1 .. n : r[i] = c[0 + i]
    BY <1>1, <1>6, <1>7, SubSeqAt
  <2>2. r = to
    BY <1>8
  <2> HIDE DEF r, to
  <2> QED
    BY <1>7, <2>1, <2>2
<1>10. \A i \in 1 .. n : to[i] = CellsIn(sb, o)[u + i]
  BY <1>3, <1>6, <1>7, <1>9
<1> HIDE DEF to
<1> QED
  BY <1>2, <1>4, <1>9, <1>10, FilledInPlace DEF u

-----------------------------------------------------------------------------
(* A new buffer behind the used data *)

\* "front" holds the used cells of o, and "rest" the cells behind the next x ones; there is memory for n cells.
Between(o, n, front, rest, x) ==
    /\ Sound(sb) /\ o \in Objects /\ n \in Nat /\ CanAllocate(n) /\ x \in Nat
    /\ front \in Seq(Buffer) /\ rest \in Seq(Buffer)
    /\ sb[o].usedSize + x <= sb[o].totalSize
    /\ Len(Cells(front)) = sb[o].usedSize /\ Len(Cells(rest)) = sb[o].totalSize - sb[o].usedSize - x
    /\ \A i \in 1 .. sb[o].usedSize : Cells(front)[i] = CellsIn(sb, o)[i]
    /\ \A i \in 1 .. Len(Cells(rest)) : Cells(rest)[i] = CellsIn(sb, o)[sb[o].usedSize + x + i]

\* The members of o with a new buffer between them
WithBetween(o, n, front, rest, x) ==
    [buffers |-> front \o <<NewBuffer(n)>> \o rest, usedSize |-> sb[o].usedSize,
     totalSize |-> sb[o].totalSize - x + NewBuffer(n).size]

\* With the members a, the cells of the buffer b follow the used ones of o, and n fit in it.
RoomIn(o, n, a, b) ==
    /\ a \in Members /\ Sound([sb EXCEPT ![o] = a]) /\ b.size \in Nat /\ b.size >= n
    /\ \A j \in 1 .. sb[o].usedSize : Cells(a.buffers)[j] = CellsIn(sb, o)[j]
    /\ \A i \in 1 .. b.size : Cells(a.buffers)[sb[o].usedSize + i] = <<b.base, b.data + i>>

\* A new buffer can be put between them.
LEMMA PutBetween ==
  ASSUME NEW o \in Objects, NEW n \in Nat, NEW front \in Seq(Buffer), NEW rest \in Seq(Buffer), NEW x \in Nat,
         Between(o, n, front, rest, x)
  PROVE  RoomIn(o, n, WithBetween(o, n, front, rest, x), NewBuffer(n))
<1> DEFINE b == NewBuffer(n)
           u == sb[o].usedSize
           t == sb[o].totalSize
           z == b.size
           bs == front \o <<b>> \o rest
           a == [buffers |-> bs, usedSize |-> u, totalSize |-> t - x + z]
           old == CellsIn(sb, o)
           F == Cells(front)
           R == Cells(rest)
           B == BufferCells(b)
           new == Cells(bs)
<1>1. Sound(sb) /\ o \in Objects /\ n \in Nat /\ CanAllocate(n) /\ x \in Nat /\ front \in Seq(Buffer) /\ rest \in Seq(Buffer)
  BY Zenon DEF Between
<1>2. u + x <= t /\ Len(F) = u /\ Len(R) = t - u - x
  BY Zenon DEF Between
<1>3. \A i \in 1 .. u : F[i] = old[i]
  BY Zenon DEF Between
<1>4. \A i \in 1 .. Len(R) : R[i] = old[u + x + i]
  BY Zenon DEF Between
<1>5. /\ b \in Buffer /\ z >= n
      /\ \A i \in 1 .. z, p \in Objects : \A j \in 1 .. Len(CellsIn(sb, p)) : CellsIn(sb, p)[j] # B[i]
      /\ \A i, j \in 1 .. z : i # j => B[i] # B[j]
  BY <1>1, NewBufferIs
<1>6. u \in Nat /\ t \in Nat /\ t = Len(old)
  BY <1>1, SoundMembers
<1> HIDE DEF b
<1>7. z \in Nat /\ B \in Seq(Cell) /\ Len(B) = z /\ \A i \in 1 .. z : B[i] = <<b.base, b.data + i>>
  BY <1>5, BufferCellsAre
<1>8. bs \in Seq(Buffer) /\ new = (F \o B) \o R
  <2> DEFINE one == <<b>>
             g == front \o one
  <2>1. one \in Seq(Buffer) /\ Cells(one) = B
    BY <1>5, CellsOfOne
  <2> HIDE DEF one, B
  <2>2. g \in Seq(Buffer) /\ Cells(g) = F \o B
    BY <1>1, <2>1, CellsConcat
  <2> HIDE DEF g
  <2>3. g \o rest \in Seq(Buffer) /\ Cells(g \o rest) = (F \o B) \o R
    BY <1>1, <2>2, CellsConcat
  <2>4. bs = g \o rest
    BY Zenon DEF g, one
  <2> QED
    BY <2>3, <2>4
<1>9. F \in Seq(Cell) /\ R \in Seq(Cell)
  BY <1>1, CellsType
<1> HIDE DEF F, R, B, old, u, t, z, bs
<1> DEFINE D == F \o B
<1>10. D \in Seq(Cell) /\ Len(D) = u + z /\ (\A i \in 1 .. u : D[i] = F[i]) /\ \A i \in 1 .. z : D[u + i] = B[i]
  BY <1>2, <1>7, <1>9, ConcatAt
<1> HIDE DEF D
<1>11. /\ Len(D \o R) = Len(D) + Len(R) /\ (\A i \in 1 .. Len(D) : (D \o R)[i] = D[i])
       /\ \A i \in 1 .. Len(R) : (D \o R)[Len(D) + i] = R[i]
  BY <1>9, <1>10, ConcatAt
<1>12. new = D \o R
  BY <1>8 DEF D
<1> HIDE DEF new
<1>13. Len(new) = t - x + z
  <2>1. Len(new) = (u + z) + (t - u - x)
    BY <1>2, <1>10, <1>11, <1>12
  <2>2. (u + z) + (t - u - x) = t - x + z
    BY <1>1, <1>6, <1>7
  <2> QED
    BY <2>1, <2>2
<1>14. \A i \in 1 .. u : new[i] = old[i]
  <2>1. \A i \in 1 .. u : i \in 1 .. u + z
    BY <1>6, <1>7
  <2> QED
    BY <1>3, <1>10, <1>11, <1>12, <2>1
<1>15. \A i \in 1 .. z : new[u + i] = B[i]
  <2>1. \A i \in 1 .. z : u + i \in 1 .. u + z
    BY <1>6, <1>7
  <2> QED
    BY <1>10, <1>11, <1>12, <2>1
<1>16. \A i \in u + z + 1 .. Len(new) : new[i] = old[i - z + x]
  <2> SUFFICES ASSUME NEW i \in u + z + 1 .. Len(new) PROVE new[i] = old[i - z + x]
    OBVIOUS
  <2> DEFINE k == i - (u + z)
  <2>1. k \in 1 .. Len(R) /\ (u + z) + k = i /\ u + x + k = i - z + x
    BY <1>1, <1>2, <1>6, <1>7, <1>13
  <2> HIDE DEF k
  <2>2. (D \o R)[(u + z) + k] = R[k]
    BY <1>10, <1>11, <2>1
  <2>3. R[k] = old[u + x + k]
    BY <1>4, <2>1
  <2> QED
    BY <1>12, <2>1, <2>2, <2>3
<1>17. a.buffers = bs /\ a.usedSize = u /\ a.totalSize = t - x + z
  OBVIOUS
<1>18. a \in Members
  <2>1. t - x + z \in Nat
    BY <1>1, <1>2, <1>6, <1>7
  <2> QED
    BY <1>6, <1>8, <2>1 DEF Members
<1> HIDE DEF a
<1>19. Replaces(sb, o, a, u, x, z)
  <2> DEFINE A == Cells(a.buffers)
  <2>1. A = new
    BY <1>17 DEF new
  <2>2. u + x <= Len(old) /\ Len(A) = Len(old) - x + z
    BY <1>2, <1>6, <1>13, <2>1
  <2>3. \A i \in u + 1 .. u + z : i - u \in 1 .. z /\ A[i] = B[i - u]
    <3>1. \A i \in u + 1 .. u + z : i - u \in 1 .. z /\ u + (i - u) = i
      BY <1>6, <1>7
    <3> QED
      BY <1>15, <2>1, <3>1
  <2>4. \A i \in u + 1 .. u + z : \A p \in Objects : \A j \in 1 .. Len(CellsIn(sb, p)) : CellsIn(sb, p)[j] # A[i]
    BY <1>5, <2>3 DEF z
  <2>5. \A i, j \in u + 1 .. u + z : i # j => A[i] # A[j]
    <3>1. \A i, j \in u + 1 .. u + z : i # j => i - u # j - u
      BY <1>6, <1>7
    <3> QED
      BY <1>5, <2>3, <3>1 DEF z
  <2>6. a.totalSize = Len(A) /\ a.usedSize <= a.totalSize
    BY <1>1, <1>2, <1>6, <1>7, <1>13, <1>17, <2>1
  <2>7. \A i \in 1 .. u : i > a.usedSize => i > sb[o].usedSize
    BY <1>17 DEF u
  <2>8. \A i \in u + z + 1 .. Len(A) : i > a.usedSize => i - z + x > sb[o].usedSize
    <3>1. \A i \in u + z + 1 .. Len(A) : i - z + x > u
      <4>1. Len(A) \in Nat
        BY <1>17, <1>18, <2>6 DEF Members
      <4> QED
        BY <1>1, <1>6, <1>7, <4>1, SMTT(30)
    <3> QED
      BY <3>1 DEF u
  <2>9. (\A i \in 1 .. u : A[i] = old[i]) /\ \A i \in u + z + 1 .. Len(A) : A[i] = old[i - z + x]
    BY <1>14, <1>16, <2>1
  <2> QED
    BY <1>1, <1>6, <1>7, <1>18, <2>2, <2>4, <2>5, <2>6, <2>7, <2>8, <2>9, Zenon DEF Replaces, old
<1>20. Sound([sb EXCEPT ![o] = a])
  BY <1>19, Replaced
<1>21. \A i \in 1 .. z : new[u + i] = <<b.base, b.data + i>>
  BY <1>7, <1>15 DEF z
<1>22. Cells(a.buffers) = new
  BY <1>17 DEF new
<1>23. z \in Nat /\ z >= n
  BY <1>5, <1>7 DEF z
<1> QED
  BY <1>14, <1>18, <1>20, <1>21, <1>22, <1>23, Zenon DEF a, b, z, u, t, old, bs, WithBetween, RoomIn

\* The cells behind the buffer of a location
LEMMA BehindBuffer ==
  ASSUME NEW bs \in Seq(Buffer), NEW n \in 0 .. Len(Cells(bs)), FindLocation(bs, n).i <= Len(bs)
  PROVE  LET l == FindLocation(bs, n)
             left == SizeLeft(bs, l)
             behind == SubSeq(bs, l.i + 1, Len(bs))
         IN  /\ behind \in Seq(Buffer) /\ Len(Cells(behind)) = Len(Cells(bs)) - n - left
             /\ \A i \in 1 .. Len(Cells(behind)) : Cells(behind)[i] = Cells(bs)[n + left + i]
<1> DEFINE l == FindLocation(bs, n)
           k == l.i
           x == l.offset
           z == bs[k].size
           left == SizeLeft(bs, l)
           front == SubSeq(bs, 1, k)
           behind == SubSeq(bs, k + 1, Len(bs))
           F == Cells(front)
           H == Cells(behind)
           C == Cells(bs)
<1>1. k \in 1 .. Len(bs) /\ bs[k] \in Buffer /\ x \in 0 .. z /\ left = z - x /\ left \in Nat
  BY InOneBuffer
<1>2. Len(Cells(SubSeq(bs, 1, k - 1))) + x = n
  BY Location
<1> HIDE DEF l, left
<1>3. Len(bs) \in Nat /\ k + 1 \in 1 .. Len(bs) + 1 /\ (k + 1) - 1 = k /\ k \in 0 .. Len(bs) /\ k - 1 \in 0 .. Len(bs)
  BY <1>1, LenProperties, SMTT(30)
<1>4. SubSeq(bs, 1, (k + 1) - 1) \in Seq(Buffer) /\ behind \in Seq(Buffer) /\ C = Cells(SubSeq(bs, 1, (k + 1) - 1)) \o H
  BY <1>3, TakenApart
<1>5. front \in Seq(Buffer) /\ C = F \o H
  BY <1>3, <1>4
<1>6. F \in Seq(Cell) /\ H \in Seq(Cell) /\ z \in Nat
  BY <1>1, <1>4, <1>5, CellsType, BufferCellsAre
<1>7. Len(F) = Len(Cells(SubSeq(bs, 1, k - 1))) + z /\ Len(Cells(SubSeq(bs, 1, k - 1))) \in Nat
  <2> HIDE DEF k
  <2>1. /\ \A j \in 0 .. Len(bs) : Ends(bs)[j] = Len(Cells(SubSeq(bs, 1, j))) /\ Ends(bs)[j] \in Nat
        /\ \A j \in 1 .. Len(bs) : Ends(bs)[j] = Ends(bs)[j - 1] + bs[j].size
    BY EndsAre
  <2>2. Ends(bs)[k] = Len(F) /\ Ends(bs)[k - 1] = Len(Cells(SubSeq(bs, 1, k - 1))) /\ Ends(bs)[k - 1] \in Nat
    BY <1>3, <2>1
  <2>3. Ends(bs)[k] = Ends(bs)[k - 1] + z
    BY <1>1, <2>1
  <2> QED
    BY <2>2, <2>3
<1> DEFINE y == Len(Cells(SubSeq(bs, 1, k - 1)))
<1> HIDE DEF F, H, C, k, x, z
<1>8. Len(F) = n + left
  <2>1. y \in Nat /\ Len(F) = y + z /\ y + x = n /\ left = z - x /\ z \in Nat /\ x \in 0 .. z
    BY <1>1, <1>2, <1>6, <1>7
  <2> HIDE DEF y
  <2> QED
    BY <2>1
<1>9. Len(F \o H) = Len(F) + Len(H) /\ Len(H) \in Nat /\ \A i \in 1 .. Len(H) : (F \o H)[Len(F) + i] = H[i]
  BY <1>6, ConcatAt
<1>10. n \in Nat
  BY DEF C
<1>11. Len(H) = Len(C) - n - left
  <2>1. Len(C) = (n + left) + Len(H)
    BY <1>5, <1>8, <1>9
  <2>2. \A p, q, r \in Nat : ((p + q) + r) - p - q = r
    OBVIOUS
  <2>3. n \in Nat /\ left \in Nat /\ Len(H) \in Nat
    BY <1>1, <1>9, <1>10
  <2>4. ((n + left) + Len(H)) - n - left = Len(H)
    BY <2>2, <2>3
  <2> QED
    BY <2>1, <2>4
<1>12. \A i \in 1 .. Len(H) : H[i] = C[n + left + i]
  BY <1>5, <1>8, <1>9
<1> QED
  BY <1>4, <1>11, <1>12 DEF l, left, H, C, k

\* Parts of lists that agree on them are the same.
LEMMA SameParts ==
  ASSUME NEW bs, NEW cs, NEW m \in Int, NEW n \in Int, \A i \in m .. n : bs[i] \in Buffer /\ cs[i] = bs[i]
  PROVE  SubSeq(cs, m, n) = SubSeq(bs, m, n)
<1> DEFINE s == SubSeq(bs, m, n)
           t == SubSeq(cs, m, n)
<1>1. /\ s \in Seq(Buffer) /\ Len(s) = (IF m <= n THEN n - m + 1 ELSE 0)
      /\ \A i \in 1 .. n - m + 1 : s[i] = bs[m + i - 1]
  BY SubSeqProperties
<1>2. \A i \in m .. n : cs[i] \in Buffer
  OBVIOUS
<1>3. /\ t \in Seq(Buffer) /\ Len(t) = (IF m <= n THEN n - m + 1 ELSE 0)
      /\ \A i \in 1 .. n - m + 1 : t[i] = cs[m + i - 1]
  BY <1>2, SubSeqProperties
<1> HIDE DEF s, t
<1>4. \A i \in 1 .. n - m + 1 : m + i - 1 \in m .. n
  OBVIOUS
<1>5. Len(s) = Len(t) /\ \A i \in 1 .. Len(s) : i \in 1 .. n - m + 1
  BY <1>1, <1>3
<1>6. \A i \in 1 .. Len(s) : s[i] = t[i]
  BY <1>1, <1>3, <1>4, <1>5
<1>7. s = t
  BY <1>1, <1>3, <1>5, <1>6, SeqEqual
<1> QED
  BY <1>7 DEF s, t

\* A list with its k-th buffer replaced, and another one inserted behind that
LEMMA InsertedBehind ==
  ASSUME NEW bs \in Seq(Buffer), NEW k \in 1 .. Len(bs), NEW e \in Buffer, NEW b
  PROVE  InsertAt([bs EXCEPT ![k] = e], k + 1, b) = (SubSeq(bs, 1, k - 1) \o <<e>>) \o <<b>> \o SubSeq(bs, k + 1, Len(bs))
<1> DEFINE cs == [bs EXCEPT ![k] = e]
<1>1. Len(bs) \in Nat /\ \A i \in 1 .. Len(bs) : bs[i] \in Buffer
  BY LenProperties, ElementOfSeq
<1>2. cs \in Seq(Buffer) /\ Len(cs) = Len(bs) /\ \A i \in 1 .. Len(bs) : cs[i] = IF i = k THEN e ELSE bs[i]
  BY ExceptSeq
<1> HIDE DEF cs
<1>3. 1 \in 1 .. Len(cs) /\ k \in 1 .. Len(cs) /\ cs[k] = e
  BY <1>1, <1>2
<1>4. SubSeq(cs, 1, k) = SubSeq(cs, 1, k - 1) \o <<e>>
  BY <1>2, <1>3, SubSeqRecursiveSecond
<1>5. SubSeq(cs, 1, k - 1) = SubSeq(bs, 1, k - 1)
  <2>1. \A i \in 1 .. k - 1 : bs[i] \in Buffer /\ cs[i] = bs[i]
    BY <1>1, <1>2
  <2>2. 1 \in Int /\ k - 1 \in Int
    BY <1>1
  <2> QED
    BY <2>1, <2>2, SameParts
<1>6. SubSeq(cs, k + 1, Len(bs)) = SubSeq(bs, k + 1, Len(bs))
  <2>1. \A i \in k + 1 .. Len(bs) : bs[i] \in Buffer /\ cs[i] = bs[i]
    BY <1>1, <1>2
  <2>2. k + 1 \in Int /\ Len(bs) \in Int
    BY <1>1
  <2> QED
    BY <2>1, <2>2, SameParts
<1>7. (k + 1) - 1 = k
  BY <1>1
<1>8. InsertAt(cs, k + 1, b) = SubSeq(cs, 1, (k + 1) - 1) \o <<b>> \o SubSeq(cs, k + 1, Len(cs))
  BY Zenon DEF InsertAt
<1>9. InsertAt(cs, k + 1, b) = (SubSeq(bs, 1, k - 1) \o <<e>>) \o <<b>> \o SubSeq(bs, k + 1, Len(bs))
  BY <1>2, <1>4, <1>5, <1>6, <1>7, <1>8, Zenon
<1> QED
  BY <1>9 DEF cs

\* The step puts a new buffer between them, and fills n of its cells.
FillsBetween(o, n, front, rest, x) ==
    LET b == NewBuffer(n)
    IN  /\ sb' = [sb EXCEPT ![o] = [buffers |-> front \o <<b>> \o rest, usedSize |-> sb[o].usedSize + n,
                                    totalSize |-> sb[o].totalSize - x + b.size]]
        /\ Store([i \in 1 .. n |-> <<b.base, b.data + i>>], Fresh(n))
        /\ stored + n <= MaxBytes /\ stored' = stored + n /\ result' = <<>>

\* Such a step keeps the invariant, and appends to the queue of bytes.
LEMMA FilledBetween ==
  ASSUME Inv, NEW o \in Objects, NEW n \in Sizes, NEW front, NEW rest, NEW x,
         Between(o, n, front, rest, x), FillsBetween(o, n, front, rest, x)
  PROVE  Inv' /\ Abstract!Next
<1> DEFINE b == NewBuffer(n)
           u == sb[o].usedSize
           bs == front \o <<b>> \o rest
           t == sb[o].totalSize - x + b.size
           a == WithBetween(o, n, front, rest, x)
           to == [i \in 1 .. n |-> <<b.base, b.data + i>>]
<1>1. /\ a \in Members /\ Sound([sb EXCEPT ![o] = a]) /\ b.size \in Nat /\ b.size >= n
      /\ \A j \in 1 .. u : Cells(a.buffers)[j] = CellsIn(sb, o)[j]
      /\ \A i \in 1 .. b.size : Cells(a.buffers)[u + i] = <<b.base, b.data + i>>
  <2>1. n \in Nat /\ front \in Seq(Buffer) /\ rest \in Seq(Buffer) /\ x \in Nat
    BY Zenon DEF Between
  <2>2. RoomIn(o, n, WithBetween(o, n, front, rest, x), NewBuffer(n))
    BY <2>1, PutBetween
  <2> QED
    BY <2>2, Zenon DEF RoomIn
<1>2. sb' = [sb EXCEPT ![o] = [buffers |-> bs, usedSize |-> u + n, totalSize |-> t]]
      /\ Store(to, Fresh(n)) /\ stored + n <= MaxBytes /\ stored' = stored + n /\ result' = <<>>
  BY Zenon DEF FillsBetween
<1>3. Sound(sb) /\ n \in Nat /\ u \in Nat
  <2>1. Sound(sb) /\ n \in Nat
    BY DEF Inv
  <2> QED
    BY <2>1, SoundMembers
<1>4. t >= u + b.size
  <2>1. sb[o].usedSize + x <= sb[o].totalSize /\ x \in Nat
    BY Zenon DEF Between
  <2>2. sb[o].totalSize \in Nat /\ b.size \in Nat
    BY <1>1, <1>3, SoundMembers
  <2> DEFINE y == sb[o].totalSize
             z == b.size
  <2>3. u + x <= y /\ x \in Nat /\ y \in Nat /\ z \in Nat
    BY <2>1, <2>2
  <2>4. t = y - x + z
    OBVIOUS
  <2> HIDE DEF u, y, z, t
  <2>5. t >= u + z
    BY <1>3, <2>3, <2>4
  <2> QED
    BY <2>5 DEF z
<1>12. a = [buffers |-> bs, usedSize |-> u, totalSize |-> t]
  BY Zenon DEF WithBetween
<1>5. a.usedSize = u /\ a.totalSize = t
  BY <1>12
<1>6. [a EXCEPT !.usedSize = @ + n] = [buffers |-> bs, usedSize |-> u + n, totalSize |-> t]
  <2> HIDE DEF b, bs, u, t, a
  <2> QED
    BY <1>12
<1>7. DOMAIN to = 1 .. n /\ \A i \in 1 .. n : to[i] = <<b.base, b.data + i>>
  OBVIOUS
<1>8. t \in Nat
  BY <1>1, <1>5 DEF Members
<1> HIDE DEF a, b, to, u, t, bs
<1>9. \A i \in 1 .. n : i \in 1 .. b.size
  BY <1>1, <1>3
<1>10. \A i \in 1 .. n : to[i] = Cells(a.buffers)[a.usedSize + i]
  BY <1>1, <1>5, <1>7, <1>9
<1>11. a.usedSize + n <= a.totalSize
  BY <1>1, <1>3, <1>4, <1>5, <1>8
<1>13. Fills(o, n, a, to)
  <2>1. a.usedSize = sb[o].usedSize
    BY <1>5 DEF u
  <2>2. \A j \in 1 .. a.usedSize : Cells(a.buffers)[j] = CellsIn(sb, o)[j]
    BY <1>1, <1>5
  <2>3. sb' = [sb EXCEPT ![o] = [a EXCEPT !.usedSize = @ + n]]
    BY <1>2, <1>6
  <2> QED
    BY <1>1, <1>2, <1>7, <1>10, <1>11, <2>1, <2>2, <2>3, Zenon DEF Fills
<1> QED
  BY <1>13, Filled

\* getMutableArray appends to the queue, whether it makes a buffer, uses the free one or truncates it.
LEMMA GetMutableArrayStep ==
  ASSUME Inv, NEW o \in Objects, NEW n \in Sizes, GetMutableArray(o, n)
  PROVE  Inv' /\ Abstract!Next
<1> DEFINE s == sb[o]
           bs == s.buffers
           u == s.usedSize
           t == s.totalSize
           l == FindLocation(bs, u)
           C == Cells(bs)
           to(base, data) == [i \in 1 .. n |-> <<base, data + i>>]
<1>1. Sound(sb) /\ n \in Nat /\ n # 0
  BY DEF Inv
<1>2. /\ bs \in Seq(Buffer) /\ u \in Nat /\ t \in Nat /\ u <= t /\ t = Len(C) /\ C = CellsIn(sb, o)
  BY <1>1, SoundMembers
<1>3. u \in 0 .. Len(C)
  BY <1>2
<1>4. stored + n <= MaxBytes /\ stored' = stored + n /\ result' = <<>>
  BY DEF GetMutableArray
<1>5. /\ l.i \in 1 .. Len(bs) + 1 /\ l.offset \in Nat
      /\ l.offset # 0 => l.i <= Len(bs) /\ l.offset < bs[l.i].size
      /\ Len(Cells(SubSeq(bs, 1, l.i - 1))) + l.offset = u
  BY <1>2, <1>3, Location
<1>6. CASE l.i > Len(bs)
  <2> DEFINE a == Allocated(o, n)
             b == NewBuffer(n - FreeSize(o))
             last == Last(a.buffers)
  <2>1. /\ MayAllocate(o, n) /\ sb' = [sb EXCEPT ![o] = [a EXCEPT !.usedSize = @ + n]]
        /\ Store(to(last.base, last.data), Fresh(n))
    <3>1. Len(bs) \in Nat
      BY <1>2, LenProperties
    <3>2. ~(l.i <= Len(bs))
      BY <1>5, <1>6, <3>1
    <3> QED
      BY <3>2, Zenon DEF GetMutableArray
  <2>2. u = t /\ FreeSize(o) = 0 /\ n - FreeSize(o) = n /\ FreeSize(o) < n
    <3>1. Len(bs) \in Nat
      BY <1>2, LenProperties
    <3>2. l.i - 1 = Len(bs) /\ l.offset = 0
      BY <1>5, <1>6, <3>1, SMTT(30)
    <3>3. SubSeq(bs, 1, l.i - 1) = bs
      BY <1>2, <3>2, SubSeqFull
    <3>4. u = t
      <4>1. Len(C) + l.offset = u
        BY <1>5, <3>3
      <4> HIDE DEF C, u, t, l
      <4> QED
        BY <1>2, <3>2, <4>1
    <3> QED
      BY <1>1, <1>2, <3>4 DEF FreeSize
  <2>3. /\ a \in Members /\ Sound([sb EXCEPT ![o] = a]) /\ a.usedSize = u /\ a.usedSize + n <= a.totalSize
        /\ \A j \in 1 .. Len(CellsIn(sb, o)) : Cells(a.buffers)[j] = CellsIn(sb, o)[j]
        /\ a.buffers = Append(bs, b) /\ b.size >= n
        /\ \A i \in 1 .. b.size : Cells(a.buffers)[t + i] = <<b.base, b.data + i>>
    BY <1>1, <2>1, <2>2, AllocatedIs
  <2>4. b \in Buffer /\ b.size \in Nat
    <3>1. CanAllocate(n - FreeSize(o))
      BY <1>1, <2>1, <2>2 DEF MayAllocate
    <3>2. b \in Buffer
      BY <1>1, <2>2, <3>1, NewBufferIs
    <3> QED
      BY <3>2, BufferCellsAre
  <2>5. last = b
    <3>1. Len(Append(bs, b)) = Len(bs) + 1 /\ Append(bs, b)[Len(bs) + 1] = b
      BY <1>2, <2>4, AppendProperties
    <3> QED
      BY <2>3, <3>1 DEF Last
  <2> DEFINE fill == to(b.base, b.data)
  <2>6. DOMAIN fill = 1 .. n /\ \A i \in 1 .. n : fill[i] = <<b.base, b.data + i>>
    OBVIOUS
  <2>7. Store(fill, Fresh(n))
    BY <2>1, <2>5
  <2> HIDE DEF a, b, fill, last, u, t, C, to
  <2>8. \A i \in 1 .. n : i \in 1 .. b.size
    BY <1>1, <2>3, <2>4
  <2>9. \A i \in 1 .. n : fill[i] = Cells(a.buffers)[a.usedSize + i]
    BY <2>2, <2>3, <2>6, <2>8
  <2>10. \A j \in 1 .. a.usedSize : Cells(a.buffers)[j] = CellsIn(sb, o)[j]
    BY <1>2, <2>2, <2>3
  <2>11. a.usedSize = sb[o].usedSize
    BY <2>3 DEF u
  <2>12. Fills(o, n, a, fill)
    BY <1>4, <2>1, <2>3, <2>6, <2>7, <2>9, <2>10, <2>11, Zenon DEF Fills
  <2> QED
    BY <2>12, Filled
<1>7. CASE l.i <= Len(bs) /\ SizeLeft(bs, l) >= n
  <2> DEFINE b == bs[l.i]
             fill == to(b.base, b.data + l.offset)
  <2>1. sb' = [sb EXCEPT ![o].usedSize = @ + n] /\ Store(fill, Fresh(n))
    <3>1. Len(bs) \in Nat
      BY <1>2, LenProperties
    <3>2. /\ l.i \in 1 .. Len(bs) /\ b \in Buffer /\ l.offset \in 0 .. b.size /\ SizeLeft(bs, l) \in Nat
      BY <1>2, <1>3, <1>7, InOneBuffer
    <3>3. ~(l.i > Len(bs)) /\ ~(SizeLeft(bs, l) < n)
      BY <1>1, <1>7, <3>1, <3>2
    <3> QED
      BY <1>7, <3>3, Zenon DEF GetMutableArray
  <2>2. /\ SizeLeft(bs, l) \in Nat /\ u + SizeLeft(bs, l) <= Len(C)
        /\ \A i \in 1 .. SizeLeft(bs, l) : C[u + i] = <<b.base, b.data + l.offset + i>>
    BY <1>2, <1>3, <1>7, InOneBuffer
  <2>3. DOMAIN fill = 1 .. n /\ \A i \in 1 .. n : fill[i] = <<b.base, b.data + l.offset + i>>
    OBVIOUS
  <2> HIDE DEF fill, b, C, u, t, l
  <2>4. (\A i \in 1 .. n : i \in 1 .. SizeLeft(bs, l)) /\ u + n <= t
    BY <1>1, <1>2, <1>7, <2>2
  <2>5. \A i \in 1 .. n : fill[i] = CellsIn(sb, o)[sb[o].usedSize + i]
    BY <1>2, <2>2, <2>3, <2>4 DEF u
  <2> QED
    BY <1>4, <2>1, <2>3, <2>4, <2>5, FilledInPlace DEF u, t
<1>8. CASE l.i <= Len(bs) /\ SizeLeft(bs, l) < n
  <2> DEFINE left == SizeLeft(bs, l)
             b == NewBuffer(n)
             cut == IF l.offset = 0 THEN 0 ELSE left
             at == IF l.offset = 0 THEN l.i ELSE l.i + 1
             cs == IF l.offset = 0 THEN bs ELSE [bs EXCEPT ![l.i] = UpTo(@, l.offset)]
             front == TakeCells(bs, u)
             rest == IF l.offset = 0 THEN DropCells(bs, u) ELSE SubSeq(bs, l.i + 1, Len(bs))
  <2>1. /\ l.i \in 1 .. Len(bs) /\ bs[l.i] \in Buffer /\ l.offset \in 0 .. bs[l.i].size /\ left \in Nat
        /\ u + left <= Len(C)
    BY <1>2, <1>3, <1>8, InOneBuffer
  <2>2. /\ CanAllocate(n) /\ Store(to(b.base, b.data), Fresh(n))
        /\ sb' = [sb EXCEPT ![o] = [buffers |-> InsertAt(cs, at, b), usedSize |-> u + n, totalSize |-> t - cut + b.size]]
    <3>1. Len(bs) \in Nat
      BY <1>2, LenProperties
    <3>2. ~(l.i > Len(bs)) /\ ~(left >= n)
      BY <1>1, <1>8, <2>1, <3>1
    <3> QED
      BY <1>8, <3>2, Zenon DEF GetMutableArray
  <2>3. /\ front \in Seq(Buffer) /\ DropCells(bs, u) \in Seq(Buffer)
        /\ Len(Cells(front)) = u /\ Len(Cells(DropCells(bs, u))) = Len(C) - u
        /\ \A i \in 1 .. u : Cells(front)[i] = C[i]
        /\ \A i \in 1 .. Len(C) - u : Cells(DropCells(bs, u))[i] = C[u + i]
    BY <1>2, <1>3, SplitCells, ZenonT(30)
  <2>4. InsertAt(cs, at, b) = front \o <<b>> \o rest
    <3>1. CASE l.offset = 0
      <4>1. cs = bs /\ at = l.i /\ rest = SubSeq(bs, l.i, Len(bs))
        BY <3>1 DEF DropCells
      <4>2. front = SubSeq(bs, 1, l.i - 1) \o <<>>
        BY <3>1 DEF TakeCells
      <4>3. SubSeq(bs, 1, l.i - 1) \in Seq(Buffer)
        BY <1>2, <1>5, TakenApart
      <4>4. front = SubSeq(bs, 1, l.i - 1)
        BY <4>2, <4>3, ConcatEmptySeq
      <4> HIDE DEF cs, at, rest, front, b, bs
      <4> QED
        BY <4>1, <4>4, Zenon DEF InsertAt
    <3>2. CASE l.offset # 0
      <4> DEFINE e == UpTo(bs[l.i], l.offset)
      <4>1. cs = [bs EXCEPT ![l.i] = e] /\ at = l.i + 1 /\ rest = SubSeq(bs, l.i + 1, Len(bs))
        BY <3>2
      <4>2. front = SubSeq(bs, 1, l.i - 1) \o <<e>>
        BY <3>2 DEF TakeCells
      <4>3. e \in Buffer
        BY <2>1, SplitBuffer
      <4> DEFINE k == l.i
      <4>5. bs \in Seq(Buffer) /\ k \in 1 .. Len(bs)
        BY <1>2, <2>1
      <4> HIDE DEF cs, at, rest, front, b, e, bs, k
      <4>4. InsertAt([bs EXCEPT ![k] = e], k + 1, b) = (SubSeq(bs, 1, k - 1) \o <<e>>) \o <<b>> \o SubSeq(bs, k + 1, Len(bs))
        BY <4>3, <4>5, InsertedBehind
      <4> QED
        BY <4>1, <4>2, <4>4, Zenon DEF k
    <3> QED
      BY <3>1, <3>2
  <2>5. Between(o, n, front, rest, cut)
    <3>1. cut \in Nat /\ u + cut <= t
      BY <1>2, <2>1
    <3>2. rest \in Seq(Buffer) /\ Len(Cells(rest)) = t - u - cut /\ \A i \in 1 .. Len(Cells(rest)) : Cells(rest)[i] = C[u + cut + i]
      <4>1. CASE l.offset = 0
        <5>1. rest = DropCells(bs, u) /\ cut = 0
          BY <4>1
        <5> HIDE DEF rest, cut, C
        <5>2. t - u - cut = Len(C) - u /\ u + cut = u
          BY <1>2, <5>1
        <5> QED
          BY <2>3, <5>1, <5>2
      <4>2. CASE l.offset # 0
        <5>1. rest = SubSeq(bs, l.i + 1, Len(bs)) /\ cut = left
          BY <4>2
        <5>2. /\ SubSeq(bs, l.i + 1, Len(bs)) \in Seq(Buffer) /\ Len(Cells(SubSeq(bs, l.i + 1, Len(bs)))) = Len(C) - u - left
              /\ \A i \in 1 .. Len(Cells(SubSeq(bs, l.i + 1, Len(bs)))) : Cells(SubSeq(bs, l.i + 1, Len(bs)))[i] = C[u + left + i]
          BY <1>2, <1>3, <1>8, BehindBuffer
        <5> HIDE DEF rest, cut, C, left
        <5> QED
          BY <1>2, <5>1, <5>2
      <4> QED
        BY <4>1, <4>2
    <3> HIDE DEF cut, rest, front, C
    <3>3. \A i \in 1 .. Len(Cells(rest)) : Cells(rest)[i] = CellsIn(sb, o)[sb[o].usedSize + cut + i]
      BY <1>2, <3>2
    <3>4. \A i \in 1 .. u : Cells(front)[i] = CellsIn(sb, o)[i]
      BY <1>2, <2>3
    <3> QED
      BY <1>1, <2>2, <2>3, <3>1, <3>2, <3>3, <3>4, Zenon DEF Between
  <2>6. /\ sb' = [sb EXCEPT ![o] = [buffers |-> front \o <<b>> \o rest, usedSize |-> sb[o].usedSize + n,
                                         totalSize |-> sb[o].totalSize - cut + b.size]]
        /\ Store([i \in 1 .. n |-> <<b.base, b.data + i>>], Fresh(n))
    BY <2>2, <2>4, Zenon
  <2>7. FillsBetween(o, n, front, rest, cut)
    BY <1>4, <2>6, Zenon DEF FillsBetween
  <2> HIDE DEF cut, rest, front
  <2> QED
    BY <2>5, <2>7, FilledBetween
<1> QED
  <2>1. l.i > Len(bs) \/ l.i <= Len(bs)
    BY <1>2, <1>5, LenProperties, SMTT(30)
  <2>2. l.i <= Len(bs) => SizeLeft(bs, l) >= n \/ SizeLeft(bs, l) < n
    <3>1. l.i <= Len(bs) => SizeLeft(bs, l) \in Nat
      BY <1>2, <1>3, InOneBuffer
    <3> QED
      BY <1>1, <3>1
  <2> QED
    BY <1>6, <1>7, <1>8, <2>1, <2>2

-----------------------------------------------------------------------------
(* Parts of the content *)

\* n elements of a sequence, behind the first k ones
Part(seq, k, n) == SubSeq(seq, k + 1, k + n)

\* f is made of the bytes of n used cells of o, behind the first k ones.
PartOf(f, s, m, o, k, n) ==
    /\ Sound(s) /\ m \in Memory /\ o \in Objects /\ k \in Nat /\ n \in Nat /\ k + n <= s[o].usedSize
    /\ f = [i \in 1 .. n |-> Byte(m, CellsIn(s, o)[k + i])]

\* A part of the content
LEMMA PartOfBytes ==
  ASSUME NEW f, NEW s, NEW m, NEW o, NEW k \in Nat, NEW n \in Nat, PartOf(f, s, m, o, k, n)
  PROVE  f = Part(Bytes(s, m, o), k, n)
<1> DEFINE B == Bytes(s, m, o)
           u == s[o].usedSize
           g == SubSeq(B, k + 1, k + n)
           S == 0 .. MaxBytes
<1>1. Sound(s) /\ m \in Memory /\ o \in Objects /\ k \in Nat /\ n \in Nat /\ k + n <= u
  BY Zenon DEF PartOf
<1>2. f = [i \in 1 .. n |-> Byte(m, CellsIn(s, o)[k + i])]
  BY Zenon DEF PartOf
<1>3. u \in Nat
  BY <1>1, SoundMembers
<1>4. B \in Seq(S) /\ Len(B) = u /\ \A i \in 1 .. u : B[i] = Byte(m, CellsIn(s, o)[i]) /\ B[i] \in S
  BY <1>1, BytesAre
<1> HIDE DEF B, u, S
<1>5. (\A i \in k + 1 .. k + n : i \in 1 .. u) /\ \A i \in 1 .. n : k + i \in 1 .. u
  BY <1>1, <1>3
<1>6. \A i \in k + 1 .. k + n : B[i] \in S
  BY <1>4, <1>5
<1>7. k + 1 \in Int /\ k + n \in Int
  BY <1>1
<1>8. /\ g \in Seq(S)
      /\ Len(g) = (IF k + 1 <= k + n THEN (k + n) - (k + 1) + 1 ELSE 0)
      /\ \A i \in 1 .. (k + n) - (k + 1) + 1 : g[i] = B[(k + 1) + i - 1]
  BY <1>6, <1>7, SubSeqProperties
<1> HIDE DEF g
<1>9. (k + n) - (k + 1) + 1 = n /\ \A i \in 1 .. n : (k + 1) + i - 1 = k + i
  BY <1>1
<1>10. Len(g) = n
  BY <1>1, <1>8
<1>11. \A i \in 1 .. n : g[i] = B[k + i]
  BY <1>8, <1>9
<1>12. DOMAIN f = 1 .. n /\ \A i \in 1 .. n : f[i] = Byte(m, CellsIn(s, o)[k + i])
  BY <1>2
<1>13. \A i \in 1 .. n : f[i] = B[k + i] /\ f[i] \in S
  BY <1>4, <1>5, <1>12
<1>14. f \in [1 .. n -> S]
  BY <1>2, <1>12, <1>13
<1>15. f \in Seq(S)
  BY <1>1, <1>14
<1>16. Len(f) = n
  BY <1>1, <1>12, <1>15, LenProperties
<1>17. \A i \in 1 .. Len(f) : f[i] = g[i]
  BY <1>11, <1>13, <1>16
<1>18. f = g
  BY <1>8, <1>10, <1>15, <1>16, <1>17, SeqEqual
<1> QED
  BY <1>18 DEF g, B, Part

\* The step stores nothing: the bytes are those that were in the cells before.
LEMMA SameMemory ==
  ASSUME Inv, NEW o \in Objects, Sound(sb'), NothingStored
  PROVE  /\ Inv' /\ stored' = stored /\ result' = <<>>
         /\ \A p \in Objects : Bytes(sb', mem', p) = Bytes(sb', mem, p)
<1>1. mem \in Memory /\ Sound(sb) /\ stored \in 0 .. MaxBytes
  BY DEF Inv
<1>2. Store(<<>>, <<>>) /\ stored' = stored /\ result' = <<>>
  BY DEF NothingStored
<1>3. /\ mem' \in Memory
      /\ \A p \in Objects : \A j \in 1 .. Len(CellsIn(sb', p)) :
             Byte(mem', CellsIn(sb', p)[j]) = Byte(mem, CellsIn(sb', p)[j])
  BY <1>1, <1>2, StoredNothing
<1>4. Inv'
  BY <1>1, <1>2, <1>3 DEF Inv
<1>5. \A p \in Objects : Bytes(sb', mem', p) = Bytes(sb', mem, p)
  <2> SUFFICES ASSUME NEW p \in Objects PROVE Bytes(sb', mem', p) = Bytes(sb', mem, p)
    OBVIOUS
  <2>1. sb'[p].usedSize \in Nat /\ sb'[p].usedSize <= Len(CellsIn(sb', p)) /\ Len(CellsIn(sb', p)) \in Nat
    BY SoundMembers
  <2>2. \A j \in 1 .. sb'[p].usedSize : j \in 1 .. Len(CellsIn(sb', p))
    BY <2>1
  <2>3. \A j \in 1 .. sb'[p].usedSize : Byte(mem', CellsIn(sb', p)[j]) = Byte(mem, CellsIn(sb', p)[j])
    BY <1>3, <2>2
  <2> QED
    BY <2>3 DEF Bytes
<1> QED
  BY <1>2, <1>4, <1>5

\* What cutHead and spliceHead leave, and what spliceHead takes
LEMMA RestIs ==
  ASSUME Sound(sb), NEW o \in Objects, NEW n \in Nat, n <= sb[o].totalSize
  PROVE  LET s == sb[o]
             rest == Rest(s, n)
             head == [buffers |-> TakeCells(s.buffers, n), usedSize |-> Less(n, s.usedSize), totalSize |-> n]
         IN  /\ rest \in Members /\ Len(Cells(rest.buffers)) = s.totalSize - n /\ rest.totalSize = s.totalSize - n
             /\ rest.usedSize = s.usedSize - Less(n, s.usedSize)
             /\ \A i \in 1 .. s.totalSize - n : Cells(rest.buffers)[i] = CellsIn(sb, o)[n + i]
             /\ head \in Members /\ Len(Cells(head.buffers)) = n
             /\ \A i \in 1 .. n : Cells(head.buffers)[i] = CellsIn(sb, o)[i]
<1> DEFINE s == sb[o]
           bs == s.buffers
           u == s.usedSize
           t == s.totalSize
           C == CellsIn(sb, o)
           take == TakeCells(bs, n)
           drop == DropCells(bs, n)
           k == Less(n, u)
<1>1. bs \in Seq(Buffer) /\ u \in Nat /\ t \in Nat /\ u <= t /\ t = Len(C) /\ C = Cells(bs)
  BY SoundMembers
<1>2. n \in 0 .. Len(Cells(bs))
  BY <1>1
<1>3. /\ take \in Seq(Buffer) /\ drop \in Seq(Buffer)
      /\ Len(Cells(take)) = n /\ Len(Cells(drop)) = Len(Cells(bs)) - n
      /\ \A i \in 1 .. n : Cells(take)[i] = Cells(bs)[i]
      /\ \A i \in 1 .. Len(Cells(bs)) - n : Cells(drop)[i] = Cells(bs)[n + i]
  BY <1>1, <1>2, SplitCells
<1>4. k \in Nat /\ u - k \in Nat /\ t - n \in Nat
  BY <1>1 DEF Less
<1>5. Rest(s, n) = [buffers |-> drop, usedSize |-> u - k, totalSize |-> t - n]
  BY Zenon DEF Rest
<1> DEFINE rest == Rest(s, n)
           head == [buffers |-> take, usedSize |-> k, totalSize |-> n]
<1> HIDE DEF take, drop, k, u, t, C, bs, rest
<1>6. rest = [buffers |-> drop, usedSize |-> u - k, totalSize |-> t - n]
  BY <1>5 DEF rest
<1>7. rest \in Members /\ head \in Members
  BY <1>3, <1>4, <1>6 DEF Members
<1>8. rest.buffers = drop /\ rest.usedSize = u - k /\ rest.totalSize = t - n /\ head.buffers = take
  BY <1>6
<1>9. Len(Cells(drop)) = t - n /\ \A i \in 1 .. t - n : Cells(drop)[i] = C[n + i]
  BY <1>1, <1>3
<1>10. \A i \in 1 .. n : Cells(take)[i] = C[i]
  BY <1>1, <1>3
<1> HIDE DEF head
<1> QED
  BY <1>3, <1>7, <1>8, <1>9, <1>10, Zenon DEF rest, head, take, k, u, t, C, bs

\* The same members have the same bytes.
LEMMA SameBytes ==
  ASSUME NEW s, NEW r, NEW m, NEW p, NEW q, s[p] = r[q]
  PROVE  Bytes(s, m, p) = Bytes(r, m, q)
BY DEF Bytes, CellsIn

\* From s to r, stream buffer q gets n used cells of o, behind the first k ones, as its used ones.
GetsPart(s, r, q, o, k, n) ==
    /\ Sound(s) /\ o \in Objects /\ q \in Objects /\ k + n <= s[o].usedSize /\ r[q].usedSize = n
    /\ \A i \in 1 .. n : CellsIn(r, q)[i] = CellsIn(s, o)[k + i]

\* Its content is that part of the content of o.
LEMMA BytesOfPart ==
  ASSUME NEW s, NEW r, NEW m \in Memory, NEW o, NEW q, NEW k \in Nat, NEW n \in Nat, GetsPart(s, r, q, o, k, n)
  PROVE  Bytes(r, m, q) = Part(Bytes(s, m, o), k, n)
<1>4. Sound(s) /\ o \in Objects /\ q \in Objects /\ k + n <= s[o].usedSize /\ r[q].usedSize = n
  BY Zenon DEF GetsPart
<1>5. \A i \in 1 .. n : CellsIn(r, q)[i] = CellsIn(s, o)[k + i]
  BY Zenon DEF GetsPart
<1> DEFINE f == Bytes(r, m, q)
<1>1. f = [i \in 1 .. n |-> Byte(m, CellsIn(s, o)[k + i])]
  BY <1>4, <1>5 DEF Bytes
<1> HIDE DEF f
<1>2. PartOf(f, s, m, o, k, n)
  BY <1>1, <1>4, Zenon DEF PartOf
<1>3. f = Part(Bytes(s, m, o), k, n)
  BY <1>2, PartOfBytes
<1> QED
  BY <1>3 DEF f

\* cutHead removes from the head of the queue.
LEMMA CutHeadStep ==
  ASSUME Inv, NEW o \in Objects, NEW n \in Sizes, CutHead(o, n)
  PROVE  Inv' /\ Abstract!Next
<1> DEFINE u == sb[o].usedSize
           t == sb[o].totalSize
           C == CellsIn(sb, o)
           k == Less(n, u)
           rest == Rest(sb[o], n)
           R == Cells(rest.buffers)
           B == Bytes(sb, mem, o)
<1>1. Sound(sb) /\ mem \in Memory /\ n \in Nat /\ n # 0
  BY DEF Inv
<1>2. n <= t /\ sb' = [sb EXCEPT ![o] = rest] /\ NothingStored
  BY DEF CutHead
<1>3. u \in Nat /\ t \in Nat /\ u <= t /\ t = Len(C)
  BY <1>1, SoundMembers
<1>4. /\ rest \in Members /\ Len(R) = t - n /\ rest.totalSize = t - n /\ rest.usedSize = u - k
      /\ \A i \in 1 .. t - n : R[i] = C[n + i]
  BY <1>1, <1>2, RestIs
<1>5. k \in Nat /\ k <= u /\ k <= n /\ (u - k # 0 => k = n) /\ (k = 0 => u = 0)
  BY <1>1, <1>3 DEF Less
<1>6. sb'[o] = rest /\ \A q \in Objects \ {o} : sb'[q] = sb[q]
  BY <1>1, <1>2 DEF Sound
<1> HIDE DEF rest, k, u, t
<1>7. Replaces(sb, o, rest, 0, n, 0)
  <2>1. 0 \in Nat /\ 0 + n <= Len(C) /\ Len(R) = Len(C) - n + 0
    BY <1>1, <1>2, <1>3, <1>4
  <2>2. \A i \in 0 + 0 + 1 .. Len(R) : i \in 1 .. t - n /\ n + i = i - 0 + n
    BY <1>1, <1>2, <1>3, <1>4
  <2>3. \A i \in 0 + 0 + 1 .. Len(R) : R[i] = C[i - 0 + n]
    <3> HIDE DEF R, C
    <3> SUFFICES ASSUME NEW i \in 0 + 0 + 1 .. Len(R) PROVE R[i] = C[i - 0 + n]
      OBVIOUS
    <3>1. i \in 1 .. t - n /\ n + i = i - 0 + n
      BY <2>2
    <3>2. R[i] = C[n + i]
      BY <1>4, <3>1
    <3> QED
      BY <3>1, <3>2
  <2>4. (\A i \in 1 .. 0 : FALSE) /\ (\A i \in 0 + 1 .. 0 + 0 : FALSE)
    OBVIOUS
  <2>5. rest.totalSize = Len(R) /\ rest.usedSize <= rest.totalSize
    BY <1>1, <1>2, <1>3, <1>4, <1>5
  <2>6. \A i \in 0 + 0 + 1 .. Len(R) : i > rest.usedSize => i - 0 + n > sb[o].usedSize
    <3>1. \A i \in 0 + 0 + 1 .. Len(R) : i > u - k => i - 0 + n > u
      BY <1>1, <1>2, <1>3, <1>4, <1>5
    <3> QED
      BY <1>4, <3>1 DEF u
  <2> QED
    BY <1>1, <1>4, <2>1, <2>3, <2>4, <2>5, <2>6, Zenon DEF Replaces
<1>8. Sound(sb')
  BY <1>2, <1>7, Replaced
<1>9. Inv' /\ stored' = stored /\ result' = <<>> /\ \A p \in Objects : Bytes(sb', mem', p) = Bytes(sb', mem, p)
  BY <1>2, <1>8, SameMemory
<1>10. Bytes(sb', mem, o) = Part(B, k, u - k)
  <2>1. u - k \in Nat /\ k + (u - k) <= u /\ \A i \in 1 .. u - k : i \in 1 .. t - n /\ n + i = k + i
    BY <1>1, <1>2, <1>3, <1>5
  <2>2. \A i \in 1 .. u - k : CellsIn(sb', o)[i] = C[k + i]
    BY <1>4, <1>6, <2>1 DEF CellsIn
  <2>3. sb'[o].usedSize = u - k
    BY <1>4, <1>6
  <2>4. GetsPart(sb, sb', o, o, k, u - k)
    BY <1>1, <2>1, <2>2, <2>3, Zenon DEF GetsPart, u
  <2> QED
    BY <1>1, <1>5, <2>1, <2>4, BytesOfPart
<1>11. Len(B) = u /\ B \in Seq(0 .. MaxBytes)
  BY <1>1, BytesAre DEF u
<1>12. k + (u - k) = Len(B)
  BY <1>3, <1>5, <1>11
<1> HIDE DEF B
<1>13. AllBytes(sb', mem') = [AllBytes(sb, mem) EXCEPT ![o] = SubSeq(@, k + 1, Len(@))]
  <2>1. Bytes(sb', mem', o) = SubSeq(B, k + 1, Len(B))
    BY <1>9, <1>10, <1>12 DEF Part
  <2>2. \A q \in Objects \ {o} : Bytes(sb', mem', q) = Bytes(sb, mem, q)
    BY <1>6, <1>9, SameBytes
  <2> QED
    BY <2>1, <2>2 DEF AllBytes, B
<1>14. CASE k = 0
  <2>1. SubSeq(B, k + 1, Len(B)) = B
    BY <1>11, <1>14, SubSeqFull
  <2>2. AllBytes(sb', mem') = AllBytes(sb, mem)
    <3>1. AllBytes(sb, mem)[o] = B
      BY DEF AllBytes, B
    <3> QED
      BY <1>13, <2>1, <3>1 DEF AllBytes
  <2> QED
    BY <1>1, <1>8, <1>9, <2>2, SameContent
<1>15. CASE k # 0
  <2>1. Abstract!Cut(o, k)
    BY <1>1, <1>8, <1>9, <1>13, Contents DEF Abstract!Cut
  <2>2. k \in 1 .. Len(B)
    BY <1>3, <1>5, <1>11, <1>15
  <2>3. Content(o) = B
    BY <1>1, <1>8, Contents DEF B
  <2> QED
    BY <1>9, <2>1, <2>2, <2>3 DEF Abstract!Next
<1> QED
  BY <1>14, <1>15

\* spliceHead moves the head of the queue.
LEMMA SpliceHeadStep ==
  ASSUME Inv, NEW o \in Objects, NEW p \in Objects \ {o}, NEW n \in Sizes, SpliceHead(o, p, n)
  PROVE  Inv' /\ Abstract!Next
<1> DEFINE u == sb[o].usedSize
           t == sb[o].totalSize
           C == CellsIn(sb, o)
           k == Less(n, u)
           rest == Rest(sb[o], n)
           head == [buffers |-> TakeCells(sb[o].buffers, n), usedSize |-> Less(n, sb[o].usedSize), totalSize |-> n]
           B == Bytes(sb, mem, o)
<1>1. Sound(sb) /\ mem \in Memory /\ n \in Nat /\ n # 0
  BY DEF Inv
<1>2. n <= t /\ sb' = [sb EXCEPT ![o] = rest, ![p] = head] /\ NothingStored
  BY DEF SpliceHead
<1>3. u \in Nat /\ t \in Nat /\ u <= t /\ t = Len(C)
  BY <1>1, SoundMembers
<1>4. /\ rest \in Members /\ Len(Cells(rest.buffers)) = t - n /\ rest.totalSize = t - n /\ rest.usedSize = u - k
      /\ \A i \in 1 .. t - n : Cells(rest.buffers)[i] = C[n + i]
      /\ head \in Members /\ Len(Cells(head.buffers)) = n
      /\ \A i \in 1 .. n : Cells(head.buffers)[i] = C[i]
  BY <1>1, <1>2, RestIs
<1>5. k \in Nat /\ k <= u /\ k <= n /\ (u - k # 0 => k = n) /\ (k = 0 => u = 0)
  BY <1>1, <1>3 DEF Less
<1>6. sb'[o] = rest /\ sb'[p] = head /\ \A q \in Objects \ {o, p} : sb'[q] = sb[q]
  BY <1>1, <1>2 DEF Sound
<1>7. head.usedSize = k /\ head.totalSize = n
  OBVIOUS
<1> HIDE DEF rest, head, k, u, t
<1>8. Moves(sb, o, n, rest, head)
  BY <1>3, <1>4, <1>7, Zenon DEF Moves, k, u, t
<1>9. Sound(sb')
  <2>1. n \in 0 .. sb[o].totalSize
    BY <1>1, <1>2, <1>3 DEF t
  <2> QED
    BY <1>1, <1>2, <1>4, <1>8, <2>1, Moved
<1>10. Inv' /\ stored' = stored /\ result' = <<>> /\ \A q \in Objects : Bytes(sb', mem', q) = Bytes(sb', mem, q)
  BY <1>2, <1>9, SameMemory
<1>11. Bytes(sb', mem, o) = Part(B, k, u - k)
  <2>1. u - k \in Nat /\ k + (u - k) <= u /\ \A i \in 1 .. u - k : i \in 1 .. t - n /\ n + i = k + i
    BY <1>1, <1>2, <1>3, <1>5
  <2>2. \A i \in 1 .. u - k : CellsIn(sb', o)[i] = C[k + i]
    BY <1>4, <1>6, <2>1 DEF CellsIn
  <2>3. sb'[o].usedSize = u - k
    BY <1>4, <1>6
  <2>4. GetsPart(sb, sb', o, o, k, u - k)
    BY <1>1, <2>1, <2>2, <2>3, Zenon DEF GetsPart, u
  <2> QED
    BY <1>1, <1>5, <2>1, <2>4, BytesOfPart
<1>12. Bytes(sb', mem, p) = Part(B, 0, k)
  <2>1. 0 \in Nat /\ 0 + k <= u /\ \A i \in 1 .. k : i \in 1 .. n /\ 0 + i = i
    BY <1>1, <1>3, <1>5
  <2>2. \A i \in 1 .. k : CellsIn(sb', p)[i] = C[0 + i]
    BY <1>4, <1>6, <2>1 DEF CellsIn
  <2>3. sb'[p].usedSize = k
    BY <1>6, <1>7
  <2>4. GetsPart(sb, sb', p, o, 0, k)
    BY <1>1, <2>1, <2>2, <2>3, Zenon DEF GetsPart, u
  <2> QED
    BY <1>1, <1>5, <2>1, <2>4, BytesOfPart
<1>13. Len(B) = u /\ B \in Seq(0 .. MaxBytes)
  BY <1>1, BytesAre DEF u
<1>14. k + (u - k) = Len(B) /\ 0 + 1 = 1 /\ 0 + k = k
  BY <1>3, <1>5, <1>13
<1> HIDE DEF B
<1>15. Bytes(sb', mem', o) = SubSeq(B, k + 1, Len(B)) /\ Bytes(sb', mem', p) = SubSeq(B, 1, k)
  BY <1>10, <1>11, <1>12, <1>14 DEF Part
<1>16. \A q \in Objects \ {o, p} : Bytes(sb', mem', q) = Bytes(sb, mem, q)
  BY <1>6, <1>10, SameBytes
<1>17. CASE k = 0
  <2>1. SubSeq(B, k + 1, Len(B)) = B
    BY <1>13, <1>17, SubSeqFull
  <2>2. SubSeq(B, 1, k) = B
    <3>1. k = Len(B)
      BY <1>5, <1>13, <1>17
    <3> QED
      BY <1>13, <3>1, SubSeqFull
  <2>3. AllBytes(sb', mem') = [AllBytes(sb, mem) EXCEPT ![p] = AllBytes(sb, mem)[o]]
    BY <1>15, <1>16, <2>1, <2>2 DEF AllBytes, B
  <2>4. Abstract!Copy(o, p)
    BY <1>1, <1>9, <1>10, <2>3, Contents DEF Abstract!Copy
  <2> QED
    BY <1>10, <2>4 DEF Abstract!Next
<1>18. CASE k # 0
  <2>1. AllBytes(sb', mem') = [AllBytes(sb, mem) EXCEPT ![o] = SubSeq(@, k + 1, Len(@)), ![p] = SubSeq(AllBytes(sb, mem)[o], 1, k)]
    BY <1>15, <1>16 DEF AllBytes, B
  <2>2. Abstract!Splice(o, p, k)
    BY <1>1, <1>9, <1>10, <2>1, Contents DEF Abstract!Splice
  <2>3. k \in 1 .. Len(B)
    BY <1>3, <1>5, <1>13, <1>18
  <2>4. Content(o) = B
    BY <1>1, <1>9, Contents DEF B
  <2> QED
    BY <1>10, <2>2, <2>3, <2>4 DEF Abstract!Next
<1> QED
  BY <1>17, <1>18

\* The copy of a stream buffer without free space is a queue of its own.
LEMMA CopyStep ==
  ASSUME Careful, Inv, NEW o \in Objects, NEW p \in Objects \ {o}, Copy(o, p)
  PROVE  Inv' /\ Abstract!Next
<1>1. Sound(sb) /\ mem \in Memory
  BY DEF Inv
<1>2. FreeSize(o) = 0 /\ sb' = [sb EXCEPT ![p] = sb[o]] /\ NothingStored
  BY DEF Copy
<1>3. sb[o].usedSize = sb[o].totalSize
  <2>1. sb[o].usedSize \in Nat /\ sb[o].totalSize \in Nat
    BY <1>1, SoundMembers
  <2> QED
    BY <1>2, <2>1 DEF FreeSize
<1>4. Sound(sb')
  BY <1>1, <1>2, <1>3, Copied
<1>5. Inv' /\ stored' = stored /\ result' = <<>> /\ \A q \in Objects : Bytes(sb', mem', q) = Bytes(sb', mem, q)
  BY <1>2, <1>4, SameMemory
<1>6. sb'[p] = sb[o] /\ \A q \in Objects \ {p} : sb'[q] = sb[q]
  BY <1>1, <1>2 DEF Sound
<1>7. Bytes(sb', mem', p) = Bytes(sb, mem, o) /\ \A q \in Objects \ {p} : Bytes(sb', mem', q) = Bytes(sb, mem, q)
  BY <1>5, <1>6, SameBytes
<1>8. AllBytes(sb', mem') = [AllBytes(sb, mem) EXCEPT ![p] = AllBytes(sb, mem)[o]]
  BY <1>7 DEF AllBytes
<1>9. Abstract!Copy(o, p)
  BY <1>1, <1>4, <1>5, <1>8, Contents DEF Abstract!Copy
<1> QED
  BY <1>5, <1>9 DEF Abstract!Next

-----------------------------------------------------------------------------
(* Lists in a row *)

\* c is the row of f, g and h.
InRow(c, f, g, h) ==
    LET x == Len(f)
        y == Len(g)
        z == Len(h)
    IN  /\ x \in Nat /\ y \in Nat /\ z \in Nat /\ Len(c) = x + y + z
        /\ \A i \in 1 .. x : c[i] = f[i]
        /\ \A i \in 1 .. y : c[x + i] = g[i]
        /\ \A i \in 1 .. z : c[x + y + i] = h[i]

\* The cells of three lists, one behind the other
LEMMA ThreeLists ==
  ASSUME NEW f \in Seq(Buffer), NEW g \in Seq(Buffer), NEW h \in Seq(Buffer)
  PROVE  f \o g \o h \in Seq(Buffer) /\ InRow(Cells(f \o g \o h), Cells(f), Cells(g), Cells(h))
<1> DEFINE F == Cells(f)
           G == Cells(g)
           H == Cells(h)
           d == f \o g
           D == Cells(d)
           c == Cells(f \o g \o h)
           x == Len(F)
           y == Len(G)
           z == Len(H)
<1>1. F \in Seq(Cell) /\ G \in Seq(Cell) /\ H \in Seq(Cell)
  BY CellsType
<1>2. d \in Seq(Buffer) /\ D = F \o G
  BY CellsConcat
<1>3. f \o g \o h = d \o h
  OBVIOUS
<1> HIDE DEF d, F, G, H
<1>4. d \o h \in Seq(Buffer) /\ Cells(d \o h) = D \o H
  BY <1>2, CellsConcat DEF H
<1> HIDE DEF D
<1>5. /\ D \in Seq(Cell) /\ Len(D) = x + y /\ x \in Nat /\ y \in Nat
      /\ (\A i \in 1 .. x : D[i] = F[i]) /\ \A i \in 1 .. y : D[x + i] = G[i]
  BY <1>1, <1>2, ConcatAt
<1> DEFINE E == D \o H
<1>6. /\ Len(E) = Len(D) + z /\ z \in Nat
      /\ (\A i \in 1 .. Len(D) : E[i] = D[i]) /\ \A i \in 1 .. z : E[Len(D) + i] = H[i]
  BY <1>1, <1>5, ConcatAt
<1> HIDE DEF E
<1>7. c = E
  BY <1>3, <1>4 DEF E
<1> HIDE DEF c, x, y, z
<1>8. (\A i \in 1 .. x : i \in 1 .. x + y) /\ \A i \in 1 .. y : x + i \in 1 .. x + y
  BY <1>5, SMTT(30)
<1>9. Len(c) = x + y + z
  BY <1>5, <1>6, <1>7
<1>10. \A i \in 1 .. x : c[i] = F[i]
  BY <1>5, <1>6, <1>7, <1>8
<1>11. \A i \in 1 .. y : c[x + i] = G[i]
  BY <1>5, <1>6, <1>7, <1>8
<1>12. \A i \in 1 .. z : c[x + y + i] = H[i]
  BY <1>5, <1>6, <1>7
<1>13. f \o g \o h \in Seq(Buffer)
  BY <1>3, <1>4
<1> QED
  BY <1>5, <1>6, <1>9, <1>10, <1>11, <1>12, <1>13, Zenon DEF InRow, c, F, G, H, x, y, z

\* appendStreamBuffer splits the list where the free cells begin.
LEMMA SplitForAppend ==
  ASSUME NEW bs \in Seq(Buffer), NEW n \in 0 .. Len(Cells(bs))
  PROVE  LET l == FindLocation(bs, n)
             split == l.i <= Len(bs) /\ SizeLeft(bs, l) > 0
             front == SubSeq(bs, 1, l.i - 1) \o (IF split THEN <<UpTo(bs[l.i], l.offset)>> ELSE <<>>)
             back == IF split THEN <<From(bs[l.i], l.offset)>> \o SubSeq(bs, l.i + 1, Len(bs))
                     ELSE SubSeq(bs, l.i, Len(bs))
         IN  /\ front \in Seq(Buffer) /\ back \in Seq(Buffer)
             /\ Cells(bs) = Cells(front) \o Cells(back) /\ Len(Cells(front)) = n
<1> DEFINE l == FindLocation(bs, n)
           split == l.i <= Len(bs) /\ SizeLeft(bs, l) > 0
           front == SubSeq(bs, 1, l.i - 1) \o (IF split THEN <<UpTo(bs[l.i], l.offset)>> ELSE <<>>)
           back == IF split THEN <<From(bs[l.i], l.offset)>> \o SubSeq(bs, l.i + 1, Len(bs))
                   ELSE SubSeq(bs, l.i, Len(bs))
<1>1. /\ l.i \in 1 .. Len(bs) + 1 /\ l.offset \in Nat
      /\ l.offset # 0 => l.i <= Len(bs) /\ l.offset < bs[l.i].size
      /\ Len(Cells(SubSeq(bs, 1, l.i - 1))) + l.offset = n
  BY Location
<1>2. l.i <= Len(bs) => /\ l.i \in 1 .. Len(bs) /\ l.offset \in 0 .. bs[l.i].size /\ bs[l.i] \in Buffer
                        /\ SizeLeft(bs, l) = bs[l.i].size - l.offset /\ SizeLeft(bs, l) \in Nat
  BY InOneBuffer
<1> HIDE DEF l
<1>3. CASE split
  <2>1. /\ front = SubSeq(bs, 1, l.i - 1) \o <<UpTo(bs[l.i], l.offset)>>
        /\ back = <<From(bs[l.i], l.offset)>> \o SubSeq(bs, l.i + 1, Len(bs))
    BY <1>3
  <2>2. l.i \in 1 .. Len(bs) /\ l.offset \in 0 .. bs[l.i].size
    BY <1>2, <1>3
  <2> HIDE DEF front, back
  <2>3. /\ front \in Seq(Buffer) /\ back \in Seq(Buffer) /\ Cells(bs) = Cells(front) \o Cells(back)
        /\ Len(Cells(front)) = Len(Cells(SubSeq(bs, 1, l.i - 1))) + l.offset
    BY <2>1, <2>2, SplitAt
  <2> QED
    BY <1>1, <2>3 DEF l, front, back
<1>4. CASE ~split
  <2>1. l.offset = 0
    <3> SUFFICES ASSUME l.offset # 0 PROVE FALSE
      OBVIOUS
    <3> DEFINE y == bs[l.i].size
               x == l.offset
    <3>1. l.i <= Len(bs) /\ x < y /\ SizeLeft(bs, l) = y - x /\ x \in Nat /\ y \in Nat
      <4>1. l.i <= Len(bs) /\ x < y
        BY <1>1
      <4>2. SizeLeft(bs, l) = y - x /\ bs[l.i] \in Buffer
        BY <1>2, <4>1
      <4> QED
        BY <1>1, <4>1, <4>2, BufferCellsAre
    <3>2. ~(SizeLeft(bs, l) > 0)
      BY <1>4, <3>1
    <3> HIDE DEF x, y
    <3> QED
      BY <3>1, <3>2
  <2>2. /\ SubSeq(bs, 1, l.i - 1) \in Seq(Buffer) /\ SubSeq(bs, l.i, Len(bs)) \in Seq(Buffer)
        /\ Cells(bs) = Cells(SubSeq(bs, 1, l.i - 1)) \o Cells(SubSeq(bs, l.i, Len(bs)))
    BY <1>1, TakenApart
  <2>3. front = SubSeq(bs, 1, l.i - 1)
    <3>1. front = SubSeq(bs, 1, l.i - 1) \o <<>>
      BY <1>4
    <3> HIDE DEF front
    <3> QED
      BY <2>2, <3>1, ConcatEmptySeq
  <2>4. back = SubSeq(bs, l.i, Len(bs))
    BY <1>4
  <2>5. Len(Cells(SubSeq(bs, 1, l.i - 1))) = n
    <3>1. Len(Cells(SubSeq(bs, 1, l.i - 1))) \in Nat
      BY <2>2, CellsType
    <3> QED
      BY <1>1, <2>1, <3>1
  <2> HIDE DEF front, back
  <2> QED
    BY <2>2, <2>3, <2>4, <2>5 DEF l, front, back
<1> QED
  BY <1>3, <1>4

\* appendStreamBuffer appends the whole content of the other queue.
LEMMA AppendStreamBufferStep ==
  ASSUME Inv, NEW o \in Objects, NEW p \in Objects \ {o}, AppendStreamBuffer(o, p)
  PROVE  Inv' /\ Abstract!Next
<1> DEFINE s == sb[o]
           bs == s.buffers
           u == s.usedSize
           v == sb[p].usedSize
           C == CellsIn(sb, o)
           P == CellsIn(sb, p)
           l == FindLocation(bs, u)
           split == l.i <= Len(bs) /\ SizeLeft(bs, l) > 0
           front == SubSeq(bs, 1, l.i - 1) \o (IF split THEN <<UpTo(bs[l.i], l.offset)>> ELSE <<>>)
           back == IF split THEN <<From(bs[l.i], l.offset)>> \o SubSeq(bs, l.i + 1, Len(bs))
                   ELSE SubSeq(bs, l.i, Len(bs))
           mid == TakeCells(sb[p].buffers, v)
           t == [buffers |-> front \o mid \o back, usedSize |-> u + v, totalSize |-> s.totalSize + v]
<1>1. Sound(sb) /\ mem \in Memory
  BY DEF Inv
<1>2. sb' = [sb EXCEPT ![o] = t] /\ NothingStored
  BY DEF AppendStreamBuffer
<1>3. bs \in Seq(Buffer) /\ u \in Nat /\ s.totalSize \in Nat /\ u <= s.totalSize /\ s.totalSize = Len(C) /\ C = Cells(bs)
  BY <1>1, SoundMembers
<1>4. /\ sb[p].buffers \in Seq(Buffer) /\ v \in Nat /\ sb[p].totalSize \in Nat /\ v <= sb[p].totalSize
      /\ sb[p].totalSize = Len(P) /\ P = Cells(sb[p].buffers)
  BY <1>1, SoundMembers
<1>5. front \in Seq(Buffer) /\ back \in Seq(Buffer) /\ C = Cells(front) \o Cells(back) /\ Len(Cells(front)) = u
  <2>1. u \in 0 .. Len(Cells(bs))
    BY <1>3
  <2> QED
    BY <1>3, <2>1, SplitForAppend
<1>6. mid \in Seq(Buffer) /\ Len(Cells(mid)) = v /\ \A i \in 1 .. v : Cells(mid)[i] = P[i]
  <2>1. v \in 0 .. Len(Cells(sb[p].buffers))
    BY <1>4
  <2> DEFINE qs == sb[p].buffers
             w == v
  <2>2. qs \in Seq(Buffer) /\ w \in 0 .. Len(Cells(qs)) /\ mid = TakeCells(qs, w) /\ P = Cells(qs)
    BY <1>4, <2>1
  <2> HIDE DEF mid, qs, w, P
  <2>3. /\ TakeCells(qs, w) \in Seq(Buffer) /\ Len(Cells(TakeCells(qs, w))) = w
        /\ \A i \in 1 .. w : Cells(TakeCells(qs, w))[i] = Cells(qs)[i]
    BY <2>2, SplitCells
  <2> QED
    BY <2>2, <2>3 DEF w
<1> HIDE DEF front, back, mid
<1> DEFINE cs == front \o mid \o back
           new == Cells(cs)
           z == Len(Cells(back))
           T == s.totalSize
<1>7. /\ cs \in Seq(Buffer) /\ z \in Nat /\ Len(new) = u + v + z
      /\ \A i \in 1 .. u : new[i] = Cells(front)[i]
      /\ \A i \in 1 .. v : new[u + i] = Cells(mid)[i]
      /\ \A i \in 1 .. z : new[u + v + i] = Cells(back)[i]
  <2> DEFINE x == Len(Cells(front))
             y == Len(Cells(mid))
  <2>1. /\ cs \in Seq(Buffer) /\ z \in Nat /\ Len(new) = x + y + z
        /\ \A i \in 1 .. x : new[i] = Cells(front)[i]
        /\ \A i \in 1 .. y : new[x + i] = Cells(mid)[i]
        /\ \A i \in 1 .. z : new[x + y + i] = Cells(back)[i]
    <3>1. cs \in Seq(Buffer) /\ InRow(Cells(front \o mid \o back), Cells(front), Cells(mid), Cells(back))
      BY <1>5, <1>6, ThreeLists
    <3> QED
      BY <3>1, Zenon DEF InRow
  <2> QED
    BY <1>5, <1>6, <2>1
<1>8. /\ Len(C) = u + z /\ (\A i \in 1 .. u : C[i] = Cells(front)[i]) /\ \A i \in 1 .. z : C[u + i] = Cells(back)[i]
  <2> DEFINE F == Cells(front)
             D == Cells(back)
  <2>1. F \in Seq(Cell) /\ D \in Seq(Cell) /\ C = F \o D /\ Len(F) = u
    BY <1>5, CellsType
  <2> HIDE DEF F, D, C
  <2>2. Len(F \o D) = Len(F) + Len(D) /\ (\A i \in 1 .. Len(F) : (F \o D)[i] = F[i]) /\ \A i \in 1 .. Len(D) : (F \o D)[Len(F) + i] = D[i]
    BY <2>1, ConcatAt
  <2> QED
    BY <2>1, <2>2 DEF F, D
<1>9. t = [buffers |-> cs, usedSize |-> u + v, totalSize |-> T + v]
  OBVIOUS
<1> HIDE DEF cs, t, u, v, z, C, P, T
<1>10. t.buffers = cs /\ t.usedSize = u + v /\ t.totalSize = T + v
  BY <1>9
<1>11. t \in Members
  BY <1>3, <1>4, <1>7, <1>9 DEF Members, T
<1>12. Inserts(sb, o, p, t)
  <2>1. Len(new) = Len(C) + v /\ t.totalSize = Len(new)
    <3>1. u + v + z = (u + z) + v
      BY <1>3, <1>4, <1>7
    <3> QED
      BY <1>3, <1>7, <1>8, <1>10, <3>1 DEF T
  <2>2. \A i \in 1 .. u : new[i] = C[i]
    BY <1>7, <1>8
  <2>3. \A i \in u + 1 .. u + v : new[i] = P[i - u]
    <3> SUFFICES ASSUME NEW i \in u + 1 .. u + v PROVE new[i] = P[i - u]
      OBVIOUS
    <3>1. i - u \in 1 .. v /\ u + (i - u) = i
      BY <1>3, <1>4
    <3>2. new[u + (i - u)] = Cells(mid)[i - u] /\ Cells(mid)[i - u] = P[i - u]
      BY <1>6, <1>7, <3>1
    <3> QED
      BY <3>1, <3>2
  <2>4. \A i \in u + v + 1 .. Len(new) : new[i] = C[i - v]
    <3> SUFFICES ASSUME NEW i \in u + v + 1 .. Len(new) PROVE new[i] = C[i - v]
      OBVIOUS
    <3> DEFINE j == i - (u + v)
    <3>1. j \in 1 .. z /\ u + v + j = i /\ u + j = i - v
      BY <1>3, <1>4, <1>7
    <3> HIDE DEF j
    <3>2. new[u + v + j] = Cells(back)[j] /\ C[u + j] = Cells(back)[j]
      BY <1>7, <1>8, <3>1
    <3> QED
      BY <3>1, <3>2
  <2>5. Cells(t.buffers) = new
    BY <1>10
  <2> QED
    BY <1>10, <2>1, <2>2, <2>3, <2>4, <2>5, Zenon DEF Inserts, C, P, u, v
<1>13. Sound(sb')
  BY <1>1, <1>2, <1>11, <1>12, Inserted
<1>14. Inv' /\ stored' = stored /\ result' = <<>> /\ \A q \in Objects : Bytes(sb', mem', q) = Bytes(sb', mem, q)
  BY <1>2, <1>13, SameMemory
<1>15. sb'[o] = t /\ \A q \in Objects \ {o} : sb'[q] = sb[q]
  BY <1>1, <1>2 DEF Sound
<1> DEFINE A == Bytes(sb, mem, o)
           B == Bytes(sb, mem, p)
           R == Bytes(sb', mem, o)
           S == 0 .. MaxBytes
<1>16. A \in Seq(S) /\ Len(A) = u /\ \A i \in 1 .. u : A[i] = Byte(mem, C[i])
  BY <1>1, BytesAre DEF u, C
<1>17. B \in Seq(S) /\ Len(B) = v /\ \A i \in 1 .. v : B[i] = Byte(mem, P[i])
  BY <1>1, BytesAre DEF v, P
<1>18. R \in Seq(S) /\ Len(R) = u + v /\ \A i \in 1 .. u + v : R[i] = Byte(mem, new[i])
  <2>1. R \in Seq(S) /\ Len(R) = sb'[o].usedSize /\ \A i \in 1 .. sb'[o].usedSize : R[i] = Byte(mem, CellsIn(sb', o)[i])
    BY <1>1, <1>13, BytesAre
  <2>2. sb'[o].usedSize = u + v /\ CellsIn(sb', o) = new
    BY <1>10, <1>15 DEF CellsIn
  <2> QED
    BY <2>1, <2>2
<1> HIDE DEF A, B, R, S, new
<1>19. R = A \o B
  <2>1. (\A i \in 1 .. u : i \in 1 .. u + v) /\ \A i \in 1 .. v : u + i \in 1 .. u + v
    BY <1>3, <1>4
  <2>2. \A i \in 1 .. u : R[i] = A[i]
    BY <1>7, <1>8, <1>16, <1>18, <2>1
  <2>3. \A i \in 1 .. v : R[u + i] = B[i]
    <3> SUFFICES ASSUME NEW i \in 1 .. v PROVE R[u + i] = B[i]
      OBVIOUS
    <3>1. R[u + i] = Byte(mem, new[u + i])
      BY <1>18, <2>1
    <3>2. new[u + i] = P[i]
      BY <1>6, <1>7
    <3> QED
      BY <1>17, <3>1, <3>2
  <2> QED
    BY <1>16, <1>17, <1>18, <2>2, <2>3, IsConcat, ZenonT(30)
<1>20. AllBytes(sb', mem') = [AllBytes(sb, mem) EXCEPT ![o] = @ \o AllBytes(sb, mem)[p]]
  <2>1. Bytes(sb', mem', o) = A \o B
    BY <1>14, <1>19 DEF R
  <2>2. \A q \in Objects \ {o} : Bytes(sb', mem', q) = Bytes(sb, mem, q)
    BY <1>14, <1>15, SameBytes
  <2> QED
    BY <2>1, <2>2 DEF AllBytes, A, B
<1>21. Abstract!AppendAll(o, p)
  BY <1>1, <1>13, <1>14, <1>20, Contents DEF Abstract!AppendAll
<1> QED
  BY <1>14, <1>21 DEF Abstract!Next

-----------------------------------------------------------------------------
(* Reading *)

\* The step leaves the content of all stream buffers as it is, and n used bytes of o, behind the first k ones,
\* are returned.
Returns(o, k, n) ==
    /\ Sound(sb') /\ mem' \in Memory /\ AllBytes(sb', mem') = AllBytes(sb, mem) /\ stored' = stored
    /\ PartOf(result', sb', mem', o, k, n)

\* That is a read from the queue.
LEMMA Returned ==
  ASSUME Inv, NEW o \in Objects, NEW k \in Nat, NEW n \in Nat, Returns(o, k, n)
  PROVE  Inv' /\ Abstract!Next
<1>1. Sound(sb) /\ mem \in Memory /\ stored \in 0 .. MaxBytes
  BY DEF Inv
<1>2. /\ Sound(sb') /\ mem' \in Memory /\ AllBytes(sb', mem') = AllBytes(sb, mem) /\ stored' = stored
      /\ PartOf(result', sb', mem', o, k, n)
  BY Zenon DEF Returns
<1>3. Inv'
  BY <1>1, <1>2 DEF Inv
<1>4. result' = Part(Bytes(sb', mem', o), k, n)
  BY <1>2, PartOfBytes
<1> DEFINE A == [q \in Objects |-> Content(q)]
           B == Bytes(sb, mem, o)
<1>5. Bytes(sb', mem', o) = B
  <2>1. AllBytes(sb', mem')[o] = AllBytes(sb, mem)[o]
    BY <1>2
  <2> QED
    BY <2>1 DEF AllBytes
<1>6. A[o] = B /\ A' = A
  BY <1>1, <1>2, Contents DEF AllBytes
<1>7. k + n <= Len(B) /\ Len(B) \in Nat
  <2>1. k + n <= sb'[o].usedSize
    BY <1>2, Zenon DEF PartOf
  <2>2. Len(Bytes(sb', mem', o)) = sb'[o].usedSize /\ sb'[o].usedSize \in Nat
    BY <1>2, BytesAre, SoundMembers
  <2> QED
    BY <1>5, <2>1, <2>2
<1>8. result' = SubSeq(B, k + 1, k + n)
  BY <1>4, <1>5 DEF Part
<1> HIDE DEF B
<1>9. k \in 0 .. Len(A[o]) /\ n \in 0 .. Len(A[o]) /\ k + n <= Len(A[o])
  BY <1>6, <1>7
<1> HIDE DEF A
<1>10. result' = SubSeq(A[o], k + 1, k + n)
  BY <1>6, <1>8
<1>11. Abstract!Read(o, k, n)
  BY <1>2, <1>6, <1>9, <1>10 DEF Abstract!Read, A
<1> QED
  BY <1>3, <1>9, <1>11 DEF Abstract!Next, A

\* After forceLinearize the list is one buffer that holds the content.
LEMMA Linearized ==
  ASSUME Careful, Inv, NEW o \in Objects, ForceLinearize(o)
  PROVE  LET b == sb'[o].buffers[1]
         IN  /\ Sound(sb') /\ mem' \in Memory /\ AllBytes(sb', mem') = AllBytes(sb, mem)
             /\ sb'[o].usedSize = sb[o].usedSize /\ b \in Buffer
             /\ \A i \in 1 .. sb[o].usedSize : CellsIn(sb', o)[i] = <<b.base, b.data + i>>
<1> DEFINE s == sb[o]
           bs == s.buffers
           u == s.usedSize
           t == s.totalSize
           b == NewBuffer(u)
           z == b.size
           B == BufferCells(b)
           C == CellsIn(sb, o)
           a == [buffers |-> <<b>>, usedSize |-> u, totalSize |-> z]
           to == SubSeq(B, 1, u)
           from == Content(o)
<1>1. Sound(sb) /\ mem \in Memory
  BY DEF Inv
<1>2. /\ CanAllocate(u) /\ Covering(bs, u) = Len(bs) /\ Store(to, from)
      /\ sb' = [sb EXCEPT ![o] = [s EXCEPT !.buffers = Append(SubSeq(@, Covering(@, u) + 1, Len(@)), b), !.totalSize = z]]
  BY Zenon DEF ForceLinearize, NoSpareBuffer
<1>3. /\ bs \in Seq(Buffer) /\ u \in Nat /\ t \in Nat /\ t = Len(C) /\ s \in Members
      /\ s = [buffers |-> bs, usedSize |-> u, totalSize |-> t]
  <2>1. s = [buffers |-> bs, usedSize |-> u, totalSize |-> t]
    BY <1>1, SoundMembers DEF Members
  <2> QED
    BY <1>1, <2>1, SoundMembers
<1>4. /\ b \in Buffer /\ z >= u
      /\ \A i \in 1 .. z, p \in Objects : \A j \in 1 .. Len(CellsIn(sb, p)) : CellsIn(sb, p)[j] # B[i]
      /\ \A i, j \in 1 .. z : i # j => B[i] # B[j]
  BY <1>1, <1>2, <1>3, NewBufferIs
<1> HIDE DEF b
<1>5. z \in Nat /\ B \in Seq(Cell) /\ Len(B) = z /\ \A i \in 1 .. z : B[i] = <<b.base, b.data + i>>
  BY <1>4, BufferCellsAre
<1>6. sb' = [sb EXCEPT ![o] = a]
  <2>1. SubSeq(bs, Covering(bs, u) + 1, Len(bs)) = <<>>
    <3>1. Len(bs) \in Nat
      BY <1>3, LenProperties
    <3>2. Len(bs) + 1 \in Int /\ Len(bs) \in Int /\ Len(bs) < Len(bs) + 1
      BY <3>1
    <3>3. SubSeq(bs, Len(bs) + 1, Len(bs)) = <<>>
      BY <3>2, SubSeqEmpty
    <3> QED
      BY <1>2, <3>3
  <2> DEFINE e == Append(SubSeq(bs, Covering(bs, u) + 1, Len(bs)), b)
             c == [s EXCEPT !.buffers = Append(SubSeq(@, Covering(@, u) + 1, Len(@)), b)]
             d == [s EXCEPT !.buffers = Append(SubSeq(@, Covering(@, u) + 1, Len(@)), b), !.totalSize = z]
  <2>2. e = <<b>>
    <3>1. e = Append(<<>>, b)
      BY <2>1
    <3> HIDE DEF e
    <3> QED
      BY <3>1
  <2>3. d = [c EXCEPT !.totalSize = z]
    BY Zenon
  <2>4. c = [s EXCEPT !.buffers = e]
    BY Zenon
  <2>5. \A x, y, w, v : [[buffers |-> x, usedSize |-> y, totalSize |-> w] EXCEPT !.buffers = v] =
                           [buffers |-> v, usedSize |-> y, totalSize |-> w]
    OBVIOUS
  <2>6. \A x, y, w, v : [[buffers |-> x, usedSize |-> y, totalSize |-> w] EXCEPT !.totalSize = v] =
                           [buffers |-> x, usedSize |-> y, totalSize |-> v]
    OBVIOUS
  <2>7. sb' = [sb EXCEPT ![o] = d]
    BY <1>2
  <2> HIDE DEF c, d, e, bs, u, t, z
  <2>8. c = [buffers |-> e, usedSize |-> u, totalSize |-> t]
    BY <1>3, <2>4, <2>5
  <2>9. d = [buffers |-> e, usedSize |-> u, totalSize |-> z]
    BY <2>3, <2>6, <2>8
  <2> QED
    BY <2>2, <2>7, <2>9
<1>7. a.buffers = <<b>> /\ a.usedSize = u /\ a.totalSize = z
  OBVIOUS
<1>8. <<b>> \in Seq(Buffer) /\ Cells(<<b>>) = B
  BY <1>4, CellsOfOne
<1>9. a \in Members
  BY <1>3, <1>5, <1>8 DEF Members
<1> HIDE DEF a, B, C, u, t, z, to, from
<1>10. Replaces(sb, o, a, 0, t, z)
  <2> DEFINE new == Cells(a.buffers)
  <2>1. new = B
    BY <1>7, <1>8
  <2>2. 0 \in Nat /\ 0 + t <= Len(C) /\ Len(new) = Len(C) - t + z
    BY <1>3, <1>5, <2>1
  <2>3. (\A i \in 1 .. 0 : FALSE) /\ \A i \in 0 + z + 1 .. Len(new) : FALSE
    BY <1>5, <2>1
  <2>4. \A i \in 0 + 1 .. 0 + z : i \in 1 .. z
    BY <1>5
  <2>5. \A i \in 0 + 1 .. 0 + z : \A p \in Objects : \A j \in 1 .. Len(CellsIn(sb, p)) : CellsIn(sb, p)[j] # new[i]
    BY <1>4, <2>1, <2>4
  <2>6. \A i, j \in 0 + 1 .. 0 + z : i # j => new[i] # new[j]
    BY <1>4, <2>1, <2>4
  <2>7. a.totalSize = Len(new) /\ a.usedSize <= a.totalSize
    BY <1>3, <1>4, <1>5, <1>7, <2>1
  <2> QED
    BY <1>1, <1>3, <1>5, <1>9, <2>2, <2>3, <2>5, <2>6, <2>7, Zenon DEF Replaces, C
<1>11. Sound(sb')
  BY <1>6, <1>10, Replaced
<1>12. sb'[o] = a /\ \A q \in Objects \ {o} : sb'[q] = sb[q]
  BY <1>1, <1>6 DEF Sound
<1>13. CellsIn(sb', o) = B /\ \A q \in Objects \ {o} : CellsIn(sb', q) = CellsIn(sb, q)
  BY <1>7, <1>8, <1>12 DEF CellsIn
<1>14. \A i \in 1 .. u : i \in 1 .. z
  BY <1>3, <1>4, <1>5
<1>15. ASSUME NEW i \in 1 .. u PROVE Own(sb', o, i)
  <2> SUFFICES ASSUME NEW p \in Objects, NEW j \in 1 .. Len(CellsIn(sb', p)), p # o \/ j # i
               PROVE  CellsIn(sb', p)[j] # B[i]
    BY <1>13 DEF Own
  <2>1. i \in 1 .. z
    BY <1>14
  <2>2. CASE p = o
    <3>1. j \in 1 .. z /\ j # i /\ CellsIn(sb', p) = B
      BY <1>5, <1>13, <2>2
    <3> QED
      BY <1>4, <2>1, <3>1
  <2>3. CASE p # o
    BY <1>4, <1>13, <2>1, <2>3
  <2> QED
    BY <2>2, <2>3
<1>16. from = Bytes(sb, mem, o)
  BY <1>1, <1>11, Contents DEF from
<1>17. \A i \in 1 .. u : from[i] = Byte(mem, C[i]) /\ from[i] \in 0 .. MaxBytes
  BY <1>1, <1>16, BytesAre DEF u, C
<1>18. DOMAIN to = 1 .. u /\ \A i \in 1 .. u : to[i] = B[i]
  <2>1. 0 + u <= Len(B) /\ 0 \in Nat /\ 0 + 1 = 1 /\ 0 + u = u /\ \A i \in 1 .. u : 0 + i = i
    BY <1>3, <1>4, <1>5
  <2> DEFINE r == SubSeq(B, 0 + 1, 0 + u)
  <2>2. DOMAIN r = 1 .. u /\ \A i \in 1 .. u : r[i] = B[0 + i]
    BY <1>3, <1>5, <2>1, SubSeqAt
  <2>3. r = to
    BY <2>1 DEF to
  <2> HIDE DEF r
  <2> QED
    BY <2>1, <2>2, <2>3
<1>19. StoresAt(o, 0, u, to, from)
  <2>1. 0 + u <= Len(CellsIn(sb', o)) /\ 0 \in Nat
    BY <1>3, <1>4, <1>5, <1>13
  <2>2. \A i \in 1 .. u : to[i] = CellsIn(sb', o)[0 + i] /\ from[i] \in 0 .. MaxBytes
    BY <1>3, <1>13, <1>17, <1>18
  <2>3. \A i \in 0 + 1 .. 0 + u : Own(sb', o, i)
    <3>1. \A i \in 0 + 1 .. 0 + u : i \in 1 .. u
      BY <1>3
    <3> QED
      BY <1>15, <3>1
  <2> QED
    BY <1>1, <1>2, <1>3, <1>11, <1>18, <2>1, <2>2, <2>3, Zenon DEF StoresAt
<1>20. /\ mem' \in Memory
       /\ \A p \in Objects : \A j \in 1 .. Len(CellsIn(sb', p)) :
              Byte(mem', CellsIn(sb', p)[j]) =
                  IF p = o /\ j \in 0 + 1 .. 0 + u THEN from[j - 0] ELSE Byte(mem, CellsIn(sb', p)[j])
  BY <1>19, StoredAt
<1>21. Bytes(sb', mem', o) = Bytes(sb, mem, o)
  <2>1. Len(CellsIn(sb', o)) = z
    BY <1>5, <1>13
  <2>2. u \in Nat /\ \A n \in Nat : \A i \in 1 .. n : i \in 0 + 1 .. 0 + n /\ i - 0 = i
    BY <1>3
  <2>3. \A i \in 1 .. u : i \in 1 .. Len(CellsIn(sb', o)) /\ i \in 0 + 1 .. 0 + u /\ i - 0 = i
    BY <1>14, <2>1, <2>2
  <2>4. \A i \in 1 .. u : Byte(mem', CellsIn(sb', o)[i]) = Byte(mem, C[i])
    BY <1>17, <1>20, <2>3
  <2>5. sb'[o].usedSize = u
    BY <1>7, <1>12
  <2> QED
    BY <2>4, <2>5 DEF Bytes, C, u
<1>22. ASSUME NEW q \in Objects \ {o} PROVE Bytes(sb', mem', q) = Bytes(sb, mem, q)
  <2>1. sb'[q] = sb[q] /\ CellsIn(sb', q) = CellsIn(sb, q)
    BY <1>12, <1>13
  <2>2. sb[q].usedSize \in Nat /\ Len(CellsIn(sb, q)) \in Nat /\ sb[q].usedSize <= Len(CellsIn(sb, q))
    BY <1>1, SoundMembers
  <2>3. \A i \in 1 .. sb[q].usedSize : i \in 1 .. Len(CellsIn(sb', q))
    BY <2>1, <2>2
  <2>4. \A i \in 1 .. sb[q].usedSize : Byte(mem', CellsIn(sb', q)[i]) = Byte(mem, CellsIn(sb, q)[i])
    BY <1>20, <2>1, <2>3
  <2> QED
    BY <2>1, <2>4 DEF Bytes
<1>23. AllBytes(sb', mem') = AllBytes(sb, mem)
  BY <1>21, <1>22 DEF AllBytes
<1>24. sb'[o].buffers[1] = b /\ sb'[o].usedSize = u
  BY <1>7, <1>12
<1>25. \A i \in 1 .. u : CellsIn(sb', o)[i] = <<b.base, b.data + i>>
  BY <1>5, <1>13, <1>14
<1> QED
  BY <1>4, <1>11, <1>20, <1>23, <1>24, <1>25, Zenon DEF u

\* f is what is read from n cells in a row, from data on in a block; they are cells of o, behind the first k ones.
Reads(f, s, m, o, k, n, base, data) ==
    /\ Sound(s) /\ m \in Memory /\ o \in Objects /\ k \in Nat /\ n \in Nat /\ data \in Nat
    /\ k + n <= s[o].usedSize /\ f = [i \in 1 .. n |-> m[base][data + i]]
    /\ \A i \in 1 .. n : CellsIn(s, o)[k + i] = <<base, data + i>>

\* That is a part of the content of o.
LEMMA ReadInRow ==
  ASSUME NEW f, NEW s, NEW m, NEW o, NEW k, NEW n, NEW base, NEW data, Reads(f, s, m, o, k, n, base, data)
  PROVE  PartOf(f, s, m, o, k, n)
<1>1. /\ Sound(s) /\ m \in Memory /\ o \in Objects /\ k \in Nat /\ n \in Nat /\ data \in Nat
      /\ k + n <= s[o].usedSize /\ f = [i \in 1 .. n |-> m[base][data + i]]
      /\ \A i \in 1 .. n : CellsIn(s, o)[k + i] = <<base, data + i>>
  BY Zenon DEF Reads
<1>2. ASSUME NEW i \in 1 .. n PROVE Byte(m, CellsIn(s, o)[k + i]) = m[base][data + i]
  BY <1>1 DEF Byte
<1>3. f = [i \in 1 .. n |-> Byte(m, CellsIn(s, o)[k + i])]
  BY <1>1, <1>2
<1> QED
  BY <1>1, <1>3, Zenon DEF PartOf

\* linearize keeps the promise: the content stays as it is.
LEMMA LinearizeStep ==
  ASSUME Careful, Inv, NEW o \in Objects, Linearize(o)
  PROVE  Inv' /\ Abstract!Next
<1>1. Sound(sb) /\ mem \in Memory /\ stored \in 0 .. MaxBytes
  BY DEF Inv
<1>2. ForceLinearize(o) /\ stored' = stored /\ result' = <<>>
  BY DEF Linearize
<1>3. Sound(sb') /\ mem' \in Memory /\ AllBytes(sb', mem') = AllBytes(sb, mem)
  BY <1>2, Linearized
<1>4. Inv'
  BY <1>1, <1>2, <1>3 DEF Inv
<1>5. Abstract!Next
  BY <1>1, <1>2, <1>3, SameContent
<1> QED
  BY <1>4, <1>5

\* What is read at an offset of the first buffer, after linearization.
LEMMA ReadLinearized ==
  ASSUME Careful, Inv, NEW o \in Objects, NEW k \in Nat, NEW n \in Nat, ForceLinearize(o), stored' = stored,
         k + n <= sb[o].usedSize,
         result' = [i \in 1 .. n |-> mem'[sb'[o].buffers[1].base][sb'[o].buffers[1].data + k + i]]
  PROVE  Returns(o, k, n)
<1> DEFINE b == sb'[o].buffers[1]
           u == sb[o].usedSize
<1>1. /\ Sound(sb') /\ mem' \in Memory /\ AllBytes(sb', mem') = AllBytes(sb, mem) /\ sb'[o].usedSize = u
      /\ b \in Buffer /\ \A i \in 1 .. u : CellsIn(sb', o)[i] = <<b.base, b.data + i>>
  BY Linearized
<1>2. u \in Nat /\ b.data \in Nat
  <2>1. u \in Nat
    BY SoundMembers DEF Inv
  <2>2. \A x \in Buffer : x.data \in Nat
    BY DEF Buffer
  <2> HIDE DEF b
  <2> QED
    BY <1>1, <2>1, <2>2
<1>3. \A i \in 1 .. n : k + i \in 1 .. u /\ b.data + (k + i) = b.data + k + i
  <2> SUFFICES ASSUME NEW i \in 1 .. n PROVE k + i \in 1 .. u /\ b.data + (k + i) = b.data + k + i
    OBVIOUS
  <2> HIDE DEF b, u
  <2>1. k + n <= u
    BY DEF u
  <2>2. k + i \in 1 .. u
    BY <1>2, <2>1
  <2> QED
    BY <1>2, <2>2
<1>4. \A i \in 1 .. n : CellsIn(sb', o)[k + i] = <<b.base, b.data + k + i>>
  BY <1>1, <1>3
<1>5. b.data + k \in Nat /\ k + n <= sb'[o].usedSize
  BY <1>1, <1>2, SMTT(30)
<1> HIDE DEF b
<1>6. result' = [i \in 1 .. n |-> mem'[b.base][b.data + k + i]]
  BY DEF b
<1>7. PartOf(result', sb', mem', o, k, n)
  <2>1. Reads(result', sb', mem', o, k, n, b.base, b.data + k)
    BY <1>1, <1>4, <1>5, <1>6, Zenon DEF Reads
  <2> QED
    BY <2>1, ReadInRow
<1> QED
  BY <1>1, <1>7, Zenon DEF Returns

\* What is read in place is part of the content.
LEMMA ReadInPlace ==
  ASSUME NEW o, NEW k, NEW n, NEW base, NEW data, Reads(result', sb, mem, o, k, n, base, data),
         sb' = sb, mem' = mem, stored' = stored
  PROVE  Returns(o, k, n)
<1>1. PartOf(result', sb, mem, o, k, n)
  BY ReadInRow
<1>2. Sound(sb) /\ mem \in Memory
  BY Zenon DEF Reads
<1>3. PartOf(result', sb', mem', o, k, n)
  BY <1>1
<1> QED
  BY <1>2, <1>3 DEF Returns

\* getData keeps the promise: it reads the first n bytes, whether it linearizes or not.
LEMMA GetDataStep ==
  ASSUME Careful, Inv, NEW o \in Objects, NEW n \in Sizes, GetData(o, n)
  PROVE  Inv' /\ Abstract!Next
<1> DEFINE bs == sb[o].buffers
           b == sb[o].buffers[1]
           c == sb'[o].buffers[1]
           scattered == Scattered(o, n, Less(n, Align))
<1>1. n \in Nat /\ n > 0 /\ Sound(sb) /\ mem \in Memory
  BY DEF Inv
<1>2. /\ n <= sb[o].usedSize /\ stored' = stored
      /\ IF scattered THEN ForceLinearize(o) ELSE sb' = sb /\ mem' = mem
      /\ result' = [i \in 1 .. n |-> mem'[c.base][c.data + i]]
  BY DEF GetData
<1>3. 0 + n <= sb[o].usedSize /\ 0 \in Nat
  BY <1>1, <1>2
<1>4. CASE scattered
  <2>1. ForceLinearize(o)
    BY <1>2, <1>4
  <2>2. c.data \in Nat
    BY <2>1, Linearized DEF Buffer
  <2>3. result' = [i \in 1 .. n |-> mem'[c.base][c.data + 0 + i]]
    <3>1. c.data + 0 = c.data
      BY <2>2
    <3> HIDE DEF c
    <3> QED
      BY <1>2, <3>1
  <2>4. Returns(o, 0, n)
    BY <1>1, <1>2, <1>3, <2>1, <2>3, ReadLinearized
  <2> QED
    BY <1>1, <1>3, <2>4, Returned
<1>5. CASE ~scattered
  <2>1. sb' = sb /\ mem' = mem /\ ~(b.size < n)
    BY <1>2, <1>5 DEF Scattered
  <2>2. bs \in Seq(Buffer) /\ sb[o].usedSize \in Nat /\ sb[o].usedSize <= Len(Cells(bs)) /\ Len(Cells(bs)) \in Nat
    BY <1>1, SoundMembers DEF CellsIn
  <2>3. Len(bs) # 0
    <3>1. SUFFICES ASSUME Len(bs) = 0 PROVE FALSE
      OBVIOUS
    <3>2. bs = <<>>
      BY <2>2, <3>1, EmptySeq
    <3>3. Cells(bs) = <<>>
      BY <3>2, CellsAppend
    <3> HIDE DEF bs
    <3>4. Len(Cells(bs)) = 0
      BY <3>3
    <3> QED
      BY <1>1, <1>2, <2>2, <3>4
  <2>4. Len(bs) \in Nat
    BY <2>2, LenProperties
  <2>5. 1 \in 1 .. Len(bs) + 1 /\ 1 <= Len(bs) /\ 1 - 1 = 0
    BY <2>3, <2>4
  <2> DEFINE front == SubSeq(bs, 1, 1 - 1)
             back == SubSeq(bs, 1, Len(bs))
             behind == SubSeq(bs, 1 + 1, Len(bs))
  <2>6. /\ front \in Seq(Buffer) /\ back \in Seq(Buffer) /\ behind \in Seq(Buffer)
        /\ Cells(bs) = Cells(front) \o Cells(back) /\ b \in Buffer
        /\ Cells(back) = BufferCells(b) \o Cells(behind)
    BY <2>2, <2>5, TakenApart
  <2>7. front = <<>>
    BY <2>5, SubSeqEmpty
  <2> HIDE DEF front, back, behind
  <2>8. Cells(front) = <<>> /\ Cells(back) \in Seq(Cell) /\ Cells(behind) \in Seq(Cell) /\ BufferCells(b) \in Seq(Cell)
    BY <2>6, <2>7, CellsAppend, CellsType, BufferCellsAre
  <2>9. Cells(bs) = BufferCells(b) \o Cells(behind)
    <3> DEFINE d == Cells(back)
    <3>1. Cells(bs) = <<>> \o d /\ d \in Seq(Cell)
      BY <2>6, <2>8
    <3> HIDE DEF d, bs
    <3>2. <<>> \o d = d
      BY <3>1
    <3> QED
      BY <2>6, <3>1, <3>2 DEF d
  <2>10. b.size \in Nat /\ b.data \in Nat /\ Len(BufferCells(b)) = b.size
         /\ \A i \in 1 .. b.size : BufferCells(b)[i] = <<b.base, b.data + i>>
    <3>1. \A x \in Buffer : x.data \in Nat
      BY DEF Buffer
    <3> QED
      BY <2>6, <3>1, BufferCellsAre
  <2>11. \A i \in 1 .. n : i \in 1 .. b.size /\ 0 + i = i
    BY <1>1, <2>1, <2>10
  <2>12. \A i \in 1 .. Len(BufferCells(b)) : Cells(bs)[i] = BufferCells(b)[i]
    BY <2>8, <2>9, ConcatAt
  <2>13. \A i \in 1 .. n : CellsIn(sb, o)[0 + i] = <<b.base, b.data + i>>
    BY <2>10, <2>11, <2>12 DEF CellsIn
  <2>14. result' = [i \in 1 .. n |-> mem[b.base][b.data + i]]
    BY <1>2, <2>1
  <2>15. Returns(o, 0, n)
    <3>1. Reads(result', sb, mem, o, 0, n, b.base, b.data)
      BY <1>1, <1>3, <2>10, <2>13, <2>14, Zenon DEF Reads
    <3> QED
      BY <1>2, <2>1, <3>1, ReadInPlace
  <2> QED
    BY <1>1, <1>3, <2>15, Returned
<1> QED
  BY <1>4, <1>5

\* getConstArray keeps the promise: it reads n bytes at an offset, whether one buffer holds them all or not.
LEMMA GetConstArrayStep ==
  ASSUME Careful, Inv, NEW o \in Objects, NEW n \in Sizes, NEW k \in Nat, GetConstArray(o, k, n)
  PROVE  Inv' /\ Abstract!Next
<1> DEFINE bs == sb[o].buffers
           l == FindLocation(bs, k)
           b == bs[l.i]
           c == sb'[o].buffers[1]
           inOne == SizeLeft(bs, l) >= n
<1>1. n \in Nat /\ n > 0 /\ Sound(sb) /\ mem \in Memory
  BY DEF Inv
<1>2. bs \in Seq(Buffer) /\ sb[o].usedSize \in Nat /\ sb[o].usedSize <= Len(Cells(bs)) /\ Len(Cells(bs)) \in Nat
  BY <1>1, SoundMembers DEF CellsIn
<1>3. k + n <= sb[o].usedSize /\ k \in 0 .. Len(Cells(bs)) /\ k < Len(Cells(bs))
  <2>1. k + n <= sb[o].usedSize
    BY DEF GetConstArray
  <2> QED
    BY <1>1, <1>2, <2>1
<1>4. /\ IF inOne THEN sb' = sb /\ mem' = mem ELSE ForceLinearize(o)
      /\ inOne => result' = [i \in 1 .. n |-> mem'[b.base][b.data + l.offset + i]]
      /\ ~inOne => result' = [i \in 1 .. n |-> mem'[c.base][c.data + k + i]]
      /\ stored' = stored
  BY DEF GetConstArray
<1>5. CASE ~inOne
  <2>1. ForceLinearize(o) /\ result' = [i \in 1 .. n |-> mem'[c.base][c.data + k + i]]
    BY <1>4, <1>5
  <2>2. Returns(o, k, n)
    BY <1>1, <1>3, <1>4, <2>1, ReadLinearized
  <2> QED
    BY <1>1, <1>3, <2>2, Returned
<1>6. CASE inOne
  <2>1. l.i <= Len(bs)
    <3>1. l.i \in 1 .. Len(bs) + 1 /\ (l.offset # 0 => l.i <= Len(bs)) /\ l.offset \in Nat
          /\ Len(Cells(SubSeq(bs, 1, l.i - 1))) + l.offset = k
      BY <1>2, <1>3, Location
    <3>2. Len(bs) \in Nat
      BY <1>2, LenProperties
    <3>3. SUFFICES ASSUME l.i = Len(bs) + 1 PROVE FALSE
      BY <3>1, <3>2, SMTT(30)
    <3>4. l.i - 1 = Len(bs) /\ l.offset = 0
      BY <3>1, <3>2, <3>3, SMTT(30)
    <3>5. SubSeq(bs, 1, Len(bs)) = bs
      BY <1>2, SubSeqFull
    <3> HIDE DEF l, bs
    <3>6. Len(Cells(SubSeq(bs, 1, l.i - 1))) = Len(Cells(bs))
      BY <3>4, <3>5
    <3>7. Len(Cells(bs)) = k
      BY <1>2, <3>1, <3>4, <3>6
    <3> QED
      BY <1>2, <1>3, <3>7
  <2>2. /\ b \in Buffer /\ l.offset \in 0 .. b.size /\ SizeLeft(bs, l) \in Nat
        /\ \A i \in 1 .. SizeLeft(bs, l) : Cells(bs)[k + i] = <<b.base, b.data + l.offset + i>>
    BY <1>2, <1>3, <2>1, InOneBuffer
  <2>3. b.data + l.offset \in Nat
    BY <2>2 DEF Buffer
  <2>4. \A i \in 1 .. n : i \in 1 .. SizeLeft(bs, l)
    BY <1>1, <1>6, <2>2
  <2>5. \A i \in 1 .. n : CellsIn(sb, o)[k + i] = <<b.base, b.data + l.offset + i>>
    BY <2>2, <2>4 DEF CellsIn
  <2>6. sb' = sb /\ mem' = mem /\ stored' = stored
        /\ result' = [i \in 1 .. n |-> mem[b.base][b.data + l.offset + i]]
    BY <1>4, <1>6
  <2> HIDE DEF b, l, bs
  <2>7. Returns(o, k, n)
    <3>1. Reads(result', sb, mem, o, k, n, b.base, b.data + l.offset)
      BY <1>1, <1>3, <2>3, <2>5, <2>6, Zenon DEF Reads
    <3> QED
      BY <2>6, <3>1, ReadInPlace
  <2> QED
    BY <1>1, <1>3, <2>7, Returned
<1> QED
  BY <1>5, <1>6

-----------------------------------------------------------------------------
(* The theorems *)

\* At first every stream buffer is empty.
LEMMA InitStep ==
  ASSUME Init
  PROVE  Inv /\ Abstract!Init
<1> DEFINE e == [buffers |-> <<>>, usedSize |-> 0, totalSize |-> 0]
<1>1. sb = [o \in Objects |-> e]
  BY DEF Init
<1>2. e \in Members /\ e.buffers = <<>> /\ e.usedSize = 0 /\ e.totalSize = 0
  BY DEF Members
<1> HIDE DEF e
<1>3. \A o \in Objects : CellsIn(sb, o) = <<>> /\ sb[o] = e
  BY <1>1, <1>2, CellsAppend DEF CellsIn
<1>4. Len(<<>>) = 0
  OBVIOUS
<1>5. Sound(sb)
  <2>1. sb \in [Objects -> Members]
    BY <1>1, <1>2
  <2>2. \A o \in Objects : sb[o].totalSize = Len(CellsIn(sb, o)) /\ sb[o].usedSize <= sb[o].totalSize
    BY <1>2, <1>3, <1>4
  <2>3. \A o \in Objects : \A i \in sb[o].usedSize + 1 .. sb[o].totalSize : Own(sb, o, i)
    <3>1. \A i \in 0 + 1 .. 0 : FALSE
      OBVIOUS
    <3> QED
      BY <1>2, <1>3, <3>1
  <2> QED
    BY <2>1, <2>2, <2>3 DEF Sound
<1>6. mem \in Memory /\ stored \in 0 .. MaxBytes
  BY DEF Init, Memory
<1>7. \A o \in Objects : Content(o) = <<>>
  <2> SUFFICES ASSUME NEW o \in Objects PROVE Content(o) = <<>>
    OBVIOUS
  <2>1. Cells(sb[o].buffers) = <<>> /\ sb[o].usedSize = 0
    BY <1>2, <1>3 DEF CellsIn
  <2>2. SubSeq(<<>>, 1, 0) = <<>>
    OBVIOUS
  <2>3. Content(o) = [i \in DOMAIN <<>> |-> mem[<<>>[i][1]][<<>>[i][2]]]
    BY <2>1, <2>2, Zenon DEF Content, Load
  <2> QED
    BY <2>3
<1>8. [o \in Objects |-> Content(o)] = [o \in Objects |-> <<>>]
  BY <1>7, Zenon
<1>9. Abstract!Init
  BY <1>8 DEF Init, Abstract!Init
<1> QED
  BY <1>5, <1>6, <1>9 DEF Inv

\* Every step keeps the invariant and is a step of the queue.
LEMMA NextStep ==
  ASSUME Careful, Inv, Next
  PROVE  Inv' /\ Abstract!Next
<1>1. PICK o \in Objects :
        \/ Linearize(o)
        \/ \E n \in Sizes :
             \/ Allocate(o, n) \/ AppendData(o, n) \/ Receive(o, n) \/ GetMutableArray(o, n)
             \/ CutHead(o, n) \/ GetData(o, n)
             \/ \E k \in 0 .. sb[o].usedSize - n : GetConstArray(o, k, n)
             \/ \E p \in Objects \ {o} : SpliceHead(o, p, n)
        \/ \E p \in Objects \ {o} : AppendStreamBuffer(o, p) \/ Copy(o, p)
  BY Zenon DEF Next
<1>2. CASE Linearize(o)
  BY <1>2, LinearizeStep
<1>3. ASSUME NEW n \in Sizes,
             \/ Allocate(o, n) \/ AppendData(o, n) \/ Receive(o, n) \/ GetMutableArray(o, n)
             \/ CutHead(o, n) \/ GetData(o, n)
      PROVE  Inv' /\ Abstract!Next
  BY <1>3, AllocateStep, AppendDataStep, ReceiveStep, GetMutableArrayStep, CutHeadStep, GetDataStep
<1>4. ASSUME NEW n \in Sizes, NEW k \in 0 .. sb[o].usedSize - n, GetConstArray(o, k, n)
      PROVE  Inv' /\ Abstract!Next
  <2>1. k \in Nat
    OBVIOUS
  <2> QED
    BY <1>4, <2>1, GetConstArrayStep
<1>5. ASSUME NEW n \in Sizes, NEW p \in Objects \ {o}, SpliceHead(o, p, n)
      PROVE  Inv' /\ Abstract!Next
  BY <1>5, SpliceHeadStep
<1>6. ASSUME NEW p \in Objects \ {o}, AppendStreamBuffer(o, p) \/ Copy(o, p)
      PROVE  Inv' /\ Abstract!Next
  BY <1>6, AppendStreamBufferStep, CopyStep
<1> QED
  BY <1>1, <1>2, <1>3, <1>4, <1>5, <1>6, Zenon

\* A step that changes nothing changes nothing of the queue.
LEMMA StutteringStep ==
  ASSUME Inv, UNCHANGED vars
  PROVE  Inv' /\ UNCHANGED Abstract!vars
<1>1. sb' = sb /\ mem' = mem /\ stored' = stored /\ result' = result
  BY DEF vars
<1>2. Inv'
  BY <1>1 DEF Inv
<1>3. Sound(sb) /\ Sound(sb')
  BY <1>1 DEF Inv
<1>4. [o \in Objects |-> Content(o)]' = [o \in Objects |-> Content(o)]
  BY <1>1, <1>3, Contents
<1> QED
  BY <1>1, <1>2, <1>4 DEF Abstract!vars

\* The invariant is what the runs check as MemorySound, and more.
LEMMA InvIsSound ==
  ASSUME Inv
  PROVE  MemorySound
<1>1. Sound(sb) /\ mem \in Memory /\ stored \in 0 .. MaxBytes
  BY DEF Inv
<1>2. TypeOK
  <2>1. ASSUME NEW o \in Objects, NEW i \in DOMAIN sb[o].buffers
        PROVE  /\ sb[o].buffers[i].base \in Blocks
               /\ sb[o].buffers[i].data \in 0 .. BlockMax
               /\ sb[o].buffers[i].size \in 0 .. BlockMax
    <3> DEFINE bs == sb[o].buffers
    <3>1. bs \in Seq(Buffer)
      BY <1>1, SoundMembers
    <3>2. bs[i] \in Buffer
      BY <3>1
    <3> HIDE DEF bs
    <3>3. \A b \in Buffer : b.base \in Blocks /\ b.data \in 0 .. BlockMax /\ b.size \in 0 .. BlockMax
      BY DEF Buffer
    <3>4. bs[i].base \in Blocks /\ bs[i].data \in 0 .. BlockMax /\ bs[i].size \in 0 .. BlockMax
      BY <3>2, <3>3
    <3> QED
      BY <3>4 DEF bs
  <2>2. \A o \in Objects : sb[o].usedSize \in Nat /\ sb[o].totalSize \in Nat
    BY <1>1, SoundMembers
  <2> QED
    BY <1>1, <2>1, <2>2 DEF TypeOK, Memory
<1>3. SizesAgree
  <2> SUFFICES ASSUME NEW o \in Objects
               PROVE  sb[o].totalSize = SizeOf(sb[o].buffers) /\ sb[o].usedSize <= sb[o].totalSize
    BY DEF SizesAgree
  <2>1. /\ sb[o].buffers \in Seq(Buffer) /\ sb[o].totalSize = Len(Cells(sb[o].buffers))
        /\ sb[o].usedSize <= sb[o].totalSize
    BY <1>1, SoundMembers DEF CellsIn
  <2>2. SizeOf(sb[o].buffers) = Len(Cells(sb[o].buffers))
    BY <2>1, EndsAre DEF SizeOf
  <2> QED
    BY <2>1, <2>2
<1>4. FreeIsPrivate
  <2> SUFFICES ASSUME NEW o \in Objects, NEW p \in Objects, o # p, NEW c,
                      c \in Range(Cells(DropCells(sb[o].buffers, sb[o].usedSize))),
                      c \in Range(Cells(sb[p].buffers))
               PROVE  FALSE
    BY DEF FreeIsPrivate
  <2> DEFINE bs == sb[o].buffers
             u == sb[o].usedSize
             t == sb[o].totalSize
             free == Cells(DropCells(bs, u))
  <2>1. /\ bs \in Seq(Buffer) /\ u \in Nat /\ t \in Nat /\ t = Len(Cells(bs)) /\ u <= t
        /\ \A i \in u + 1 .. t : Own(sb, o, i)
    BY <1>1, SoundMembers DEF CellsIn
  <2>2. u \in 0 .. Len(Cells(bs))
    BY <2>1
  <2>3. /\ free \in Seq(Cell) /\ Len(free) = Len(Cells(bs)) - u
        /\ \A i \in 1 .. Len(Cells(bs)) - u : free[i] = Cells(bs)[u + i]
    BY <2>1, <2>2, SplitCells
  <2>4. PICK i \in DOMAIN free : free[i] = c
    BY DEF Range
  <2> HIDE DEF bs, u, t, free
  <2>5. i \in 1 .. t - u
    BY <2>1, <2>3
  <2>6. u + i \in u + 1 .. t
    BY <2>1, <2>5
  <2>7. c = CellsIn(sb, o)[u + i] /\ Own(sb, o, u + i)
    BY <2>1, <2>3, <2>4, <2>5, <2>6 DEF CellsIn, bs
  <2>8. CellsIn(sb, p) \in Seq(Cell)
    BY <1>1, SoundMembers
  <2>9. PICK j \in DOMAIN CellsIn(sb, p) : CellsIn(sb, p)[j] = c
    BY DEF Range, CellsIn
  <2>10. j \in 1 .. Len(CellsIn(sb, p))
    BY <2>8
  <2> QED
    BY <2>7, <2>9, <2>10 DEF Own
<1> QED
  BY <1>2, <1>3, <1>4 DEF MemorySound

\* The counters, the lists of buffers and the shared blocks of all stream buffers always fit together
\* (MemorySound): totalSize is the size of all buffers, usedSize is within it, and the free cells of one stream
\* buffer are in no other.  The application is careful: it copies only stream buffers without free space, and
\* linearizes only those without a completely free buffer.  What happens otherwise is what the findings are about.
THEOREM MemorySoundAlways ==
  ASSUME Careful
  PROVE  Spec => []MemorySound
<1>1. Init => Inv
  BY InitStep
<1>2. Inv /\ [Next]_vars => Inv'
  BY NextStep, StutteringStep
<1>3. Inv => MemorySound
  BY InvIsSound
<1> QED
  BY <1>1, <1>2, <1>3, PTL DEF Spec

\* A stream buffer acts as a queue of bytes of its own (ActsAsQueue): every step of StreamBuffer.cpp, whatever it
\* splits, shares, truncates or linearizes, is a step of ByteQueue or changes nothing of it.
THEOREM QueueImplemented ==
  ASSUME Careful
  PROVE  Spec => ActsAsQueue
<1>1. Init => Inv /\ Abstract!Init
  BY InitStep
<1>2. Inv /\ [Next]_vars => Inv' /\ [Abstract!Next]_(Abstract!vars)
  BY NextStep, StutteringStep
<1> QED
  BY <1>1, <1>2, PTL DEF Spec, ActsAsQueue, Abstract!Spec
=============================================================================
