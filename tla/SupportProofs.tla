---------------------------- MODULE SupportProofs ----------------------------
(***************************************************************************)
(* The supporting classes: what they change in the process they set back,  *)
(* an open descriptor has one owner, control messages are iterated as they *)
(* were written, socket addresses can be ordered, printed and read back,   *)
(* and a WeakCallback calls the living; for any number of signals,         *)
(* runners, objects, descriptors, messages, callees and path lengths.      *)
(*                                                                         *)
(* The inductive invariants: of SignalMask, that each runner has saved the *)
(* mask that the runners before it made (Layers), also while setSignals()  *)
(* has still to unblock, and that a suppressor has seen the foreign        *)
(* SIGPIPE if one is pending (PipeBlocked); of FileDescriptor, that unless *)
(* a close(2) was interrupted none is under way (NotClosing); of           *)
(* WeakCallback, that a callback's Life is that of its callee alone        *)
(* (TurnOK); of ControlMessage, where in the buffer every message begins   *)
(* (Layout), or that the only one was cut off (CutOff); of SocketAddress,  *)
(* that the cell behind sun_path is zero (Well).                           *)
(***************************************************************************)
EXTENDS MCSupport, WellFoundedInduction, TLAPS

-----------------------------------------------------------------------------
(* SignalSet *)

NumberBefore == {ss \in Nat \X Nat : ss[1] < ss[2]}

\* A set of numbers that is not empty has a least one.
LEMMA LeastSignal ==
    ASSUME NEW S, S \subseteq Nat, S # {}
    PROVE  \E n \in S : \A m \in S : n <= m
<1>1. IsWellFoundedOn(NumberBefore, Nat)
  BY NatLessThanWellFounded DEF OpToRel, NumberBefore
<1>2. \A x, y \in Nat : y < x => <<y, x>> \in NumberBefore
  BY DEF NumberBefore
<1>3. PICK n \in S : \A m \in S : ~(<<m, n>> \in NumberBefore)
  BY <1>1, WFMin
<1>4. n \in Nat /\ \A m \in S : m \in Nat /\ ~(m < n)
  BY <1>2, <1>3
<1>5. \A m \in S : n <= m
  BY <1>4
<1> QED
  BY <1>5

\* getNext() gives the next standard signal of the set, or the end.
LEMMA GetNextIs ==
    ASSUME NEW s, s \subseteq 1 .. NSig, NEW i \in 0 .. MaxSignal
    PROVE  /\ GetNext(s, i) \in i + 1 .. End
           /\ GetNext(s, i) # End => GetNext(s, i) \in s
           /\ \A j \in s : j > i /\ j <= MaxSignal => GetNext(s, i) <= j
<1> DEFINE found == {n \in i + 1 .. MaxSignal : IsSet(s, n)}
<1>1. MaxSignal \in Nat /\ NSig \in Nat /\ MaxSignal <= NSig /\ End = MaxSignal + 1
  BY NSigAssumption DEF End
<1>2. found = {n \in i + 1 .. MaxSignal : n \in s}
  BY <1>1 DEF IsSet
<1>3. GetNext(s, i) = IF found = {} THEN End ELSE CHOOSE n \in found : \A m \in found : n <= m
  BY DEF GetNext
<1> HIDE DEF found
<1>4. CASE found = {}
  <2>1. GetNext(s, i) = End
    BY <1>3, <1>4
  <2>2. \A j \in s : ~(j > i /\ j <= MaxSignal)
    BY <1>1, <1>2, <1>4
  <2> QED
    BY <1>1, <2>1, <2>2
<1>5. CASE found # {}
  <2>1. found \subseteq Nat
    BY <1>1, <1>2
  <2>2. \E n \in found : \A m \in found : n <= m
    BY <1>5, <2>1, LeastSignal
  <2>3. GetNext(s, i) \in found /\ \A m \in found : GetNext(s, i) <= m
    BY <1>3, <1>5, <2>2
  <2>4. GetNext(s, i) \in i + 1 .. MaxSignal /\ GetNext(s, i) \in s
    BY <1>2, <2>3
  <2>5. \A j \in s : j > i /\ j <= MaxSignal => j \in found
    BY <1>1, <1>2
  <2> QED
    BY <1>1, <2>3, <2>4, <2>5
<1> QED
  BY <1>4, <1>5

\* The definition of Walk, from a signal on
WalksFrom(s, f, lo) == f = [i \in lo .. End |-> IF i = End THEN <<>> ELSE <<i>> \o f[GetNext(s, i)]]

\* The recursion of Walk has a solution: an iterator only moves forward.
LEMMA WalkExists == ASSUME NEW s, s \subseteq 1 .. NSig PROVE \E f : WalksFrom(s, f, 1)
<1> DEFINE Bad == {n \in 0 .. MaxSignal : ~ \E f : WalksFrom(s, f, End - n)}
<1>1. MaxSignal \in Nat /\ End = MaxSignal + 1 /\ End \in Nat
  BY NSigAssumption DEF End
<1>2. SUFFICES Bad = {}
  <2>1. MaxSignal \in 0 .. MaxSignal /\ End - MaxSignal = 1
    BY <1>1
  <2>2. MaxSignal \notin Bad
    BY <1>2
  <2>3. \E f : WalksFrom(s, f, End - MaxSignal)
    BY <2>1, <2>2
  <2> QED
    BY <2>1, <2>3
<1>3. SUFFICES ASSUME Bad # {} PROVE FALSE
  OBVIOUS
<1>4. PICK n \in Bad : \A m \in Bad : n <= m
  <2>1. Bad \subseteq Nat
    BY <1>1
  <2> QED
    BY <1>3, <2>1, LeastSignal
<1>5. n \in 0 .. MaxSignal /\ ~ \E f : WalksFrom(s, f, End - n)
  BY <1>4
<1>6. n # 0
  <2>1. WalksFrom(s, [i \in End .. End |-> <<>>], End)
    BY <1>1 DEF WalksFrom
  <2> QED
    BY <1>1, <1>5, <2>1
<1>7. n - 1 \in 0 .. MaxSignal /\ n - 1 \notin Bad
  BY <1>1, <1>4, <1>5, <1>6
<1> DEFINE lo == End - n
<1>8. lo \in 1 .. MaxSignal /\ End - (n - 1) = lo + 1
  BY <1>1, <1>5, <1>6
<1>9. PICK f : WalksFrom(s, f, lo + 1)
  BY <1>7, <1>8
<1> HIDE DEF lo
<1> DEFINE g == [i \in lo .. End |-> IF i = lo THEN <<i>> \o f[GetNext(s, i)] ELSE f[i]]
<1>10. ASSUME NEW i \in lo .. End
       PROVE  g[i] = IF i = End THEN <<>> ELSE <<i>> \o g[GetNext(s, i)]
  <2>1. CASE i = End
    <3>1. i # lo /\ i \in lo + 1 .. End
      BY <1>1, <1>8, <2>1
    <3>2. f[i] = <<>>
      BY <1>9, <2>1, <3>1 DEF WalksFrom
    <3> QED
      BY <2>1, <3>1, <3>2
  <2>2. CASE i # End
    <3>1. i \in 0 .. MaxSignal
      BY <1>1, <1>8, <2>2
    <3>2. GetNext(s, i) \in i + 1 .. End
      BY <3>1, GetNextIs
    <3>3. GetNext(s, i) \in lo + 1 .. End /\ GetNext(s, i) # lo /\ GetNext(s, i) \in lo .. End
      BY <1>1, <1>8, <3>1, <3>2
    <3>4. g[GetNext(s, i)] = f[GetNext(s, i)]
      BY <3>3
    <3>5. g[i] = <<i>> \o f[GetNext(s, i)]
      <4>1. CASE i = lo
        BY <4>1
      <4>2. CASE i # lo
        <5>1. i \in lo + 1 .. End
          BY <1>1, <1>8, <4>2
        <5> QED
          BY <1>9, <2>2, <4>2, <5>1 DEF WalksFrom
      <4> QED
        BY <4>1, <4>2
    <3> QED
      BY <2>2, <3>4, <3>5
  <2> QED
    BY <2>1, <2>2
<1>11. WalksFrom(s, g, lo)
  <2>1. g = [i \in lo .. End |-> g[i]]
    OBVIOUS
  <2> HIDE DEF g
  <2> QED
    BY <1>10, <2>1 DEF WalksFrom
<1> QED
  BY <1>5, <1>11 DEF lo

Elements(q) == {q[k] : k \in DOMAIN q}

\* The elements of a walk that begins with x
LEMMA ElementsOfCons ==
    ASSUME NEW i \in Nat, NEW q \in Seq(Nat)
    PROVE  <<i>> \o q \in Seq(Nat) /\ Elements(<<i>> \o q) = {i} \cup Elements(q)
<1> DEFINE r == <<i>> \o q
<1>1. r \in Seq(Nat) /\ Len(r) = Len(q) + 1 /\ r[1] = i /\ \A k \in 1 .. Len(q) : r[k + 1] = q[k]
  OBVIOUS
<1>2. DOMAIN r = 1 .. Len(q) + 1 /\ DOMAIN q = 1 .. Len(q) /\ Len(q) \in Nat
  BY <1>1
<1> HIDE DEF r
<1>3. ASSUME NEW x \in Elements(r) PROVE x \in {i} \cup Elements(q)
  <2>1. PICK k \in 1 .. Len(q) + 1 : x = r[k]
    BY <1>2 DEF Elements
  <2>2. CASE k = 1
    BY <1>1, <2>1, <2>2
  <2>3. CASE k # 1
    <3>1. k - 1 \in 1 .. Len(q) /\ r[k] = q[k - 1]
      <4>1. k - 1 \in 1 .. Len(q) /\ k - 1 + 1 = k
        BY <1>2, <2>3
      <4> QED
        BY <1>1, <4>1
    <3> QED
      BY <1>2, <2>1, <3>1 DEF Elements
  <2> QED
    BY <2>2, <2>3
<1>4. ASSUME NEW x \in {i} \cup Elements(q) PROVE x \in Elements(r)
  <2>1. CASE x = i
    <3>1. 1 \in 1 .. Len(q) + 1
      BY <1>2
    <3> QED
      BY <1>1, <1>2, <2>1, <3>1 DEF Elements
  <2>2. CASE x \in Elements(q)
    <3>1. PICK k \in 1 .. Len(q) : x = q[k]
      BY <1>2, <2>2 DEF Elements
    <3>2. k + 1 \in 1 .. Len(q) + 1
      BY <1>2
    <3> QED
      BY <1>1, <1>2, <3>1, <3>2 DEF Elements
  <2> QED
    BY <2>1, <2>2
<1>5. Elements(r) = {i} \cup Elements(q)
  BY <1>3, <1>4
<1> QED
  BY <1>1, <1>5 DEF r

\* What is visited from a signal on: itself, and what the set has behind it
VisitedFrom(s, i) == IF i = End THEN {} ELSE {i} \cup {j \in s : i < j /\ j <= MaxSignal}

\* From element i on, the walk visits i and what is behind it in the set.
LEMMA WalkVisits ==
    ASSUME NEW s, s \subseteq 1 .. NSig, NEW f, WalksFrom(s, f, 1), NEW i \in 1 .. End
    PROVE  f[i] \in Seq(Nat) /\ Elements(f[i]) = VisitedFrom(s, i)
<1> DEFINE Right(n) == f[End - n] \in Seq(Nat) /\ Elements(f[End - n]) = VisitedFrom(s, End - n)
           Bad == {n \in 0 .. MaxSignal : ~ Right(n)}
<1>1. MaxSignal \in Nat /\ End = MaxSignal + 1 /\ End \in Nat
  BY NSigAssumption DEF End
<1>2. \A k \in 1 .. End : f[k] = IF k = End THEN <<>> ELSE <<k>> \o f[GetNext(s, k)]
  BY DEF WalksFrom
<1>3. SUFFICES Bad = {}
  <2>1. End - i \in 0 .. MaxSignal /\ End - (End - i) = i
    BY <1>1
  <2>2. Right(End - i)
    BY <1>3, <2>1
  <2> QED
    BY <2>1, <2>2
<1>4. SUFFICES ASSUME Bad # {} PROVE FALSE
  OBVIOUS
<1>5. PICK n \in Bad : \A m \in Bad : n <= m
  <2>1. Bad \subseteq Nat
    BY <1>1
  <2> QED
    BY <1>4, <2>1, LeastSignal
<1> DEFINE k == End - n
<1>6. n \in 0 .. MaxSignal /\ ~ Right(n) /\ k \in 1 .. End /\ k \in Nat
  BY <1>1, <1>5
<1>7. k # End
  <2> SUFFICES ASSUME k = End PROVE FALSE
    OBVIOUS
  <2>1. f[k] = <<>>
    BY <1>2, <1>6
  <2>2. f[k] \in Seq(Nat) /\ Elements(f[k]) = {}
    BY <2>1 DEF Elements
  <2>3. VisitedFrom(s, k) = {}
    BY DEF VisitedFrom
  <2> QED
    BY <1>6, <2>2, <2>3
<1> DEFINE g == GetNext(s, k)
<1>8. /\ g \in k + 1 .. End /\ (g # End => g \in s)
      /\ \A j \in s : j > k /\ j <= MaxSignal => g <= j
  <2>1. k \in 0 .. MaxSignal
    BY <1>1, <1>6, <1>7
  <2> QED
    BY <2>1, GetNextIs
<1> HIDE DEF g
<1>9. End - g \in 0 .. MaxSignal /\ End - g < n /\ End - (End - g) = g
  <2>1. g \in Nat /\ g > k /\ g <= End
    BY <1>1, <1>6, <1>8
  <2>2. n \in Nat /\ k = End - n /\ n <= MaxSignal
    BY <1>1, <1>6
  <2> HIDE DEF k
  <2> QED
    BY <1>1, <2>1, <2>2
<1>10. f[g] \in Seq(Nat) /\ Elements(f[g]) = VisitedFrom(s, g)
  <2>1. End - g \notin Bad
    BY <1>5, <1>6, <1>9
  <2>2. Right(End - g)
    BY <1>9, <2>1
  <2> QED
    BY <1>9, <2>2
<1>11. f[k] = <<k>> \o f[g]
  BY <1>2, <1>6, <1>7 DEF g
<1>12. f[k] \in Seq(Nat) /\ Elements(f[k]) = {k} \cup VisitedFrom(s, g)
  BY <1>6, <1>10, <1>11, ElementsOfCons
<1>13. VisitedFrom(s, g) = {j \in s : k < j /\ j <= MaxSignal}
  <2> USE DEF VisitedFrom
  <2>1. \A j \in s : j \in Nat
    BY NSigAssumption
  <2>2. CASE g = End
    <3>1. \A j \in s : ~(k < j /\ j <= MaxSignal)
      <4>1. k \in Nat /\ \A j \in s : j > k /\ j <= MaxSignal => End <= j
        BY <1>6, <1>8, <2>2
      <4> HIDE DEF k
      <4> QED
        BY <1>1, <2>1, <4>1
    <3> QED
      BY <2>2, <3>1
  <2>3. CASE g # End
    <3>0. k \in Nat /\ g \in k + 1 .. End /\ g \in s /\ \A j \in s : j > k /\ j <= MaxSignal => g <= j
      BY <1>6, <1>8, <2>3
    <3> HIDE DEF k
    <3>1. g \in s /\ k < g /\ g <= MaxSignal
      BY <1>1, <2>1, <2>3, <3>0
    <3>2. \A j \in s : (k < j /\ j <= MaxSignal) <=> (j = g \/ (g < j /\ j <= MaxSignal))
      BY <1>1, <2>1, <3>0, <3>1
    <3> QED
      BY <2>3, <3>1, <3>2
  <2> QED
    BY <2>2, <2>3
<1>14. Elements(f[k]) = VisitedFrom(s, k)
  BY <1>7, <1>12, <1>13 DEF VisitedFrom
<1> QED
  BY <1>6, <1>12, <1>14

\* A loop over a SignalSet visits exactly its standard signals.
LEMMA IteratedIs ==
    ASSUME NEW s, s \subseteq 1 .. NSig PROVE Iterated(s) = {i \in s : i <= MaxSignal}
<1> DEFINE from == CHOOSE f : f = [i \in 1 .. End |-> IF i = End THEN <<>> ELSE <<i>> \o f[GetNext(s, i)]]
           g == GetNext(s, 0)
<1>1. Walk(s) = from[g]
  BY DEF Walk
<1>2. WalksFrom(s, from, 1)
  BY WalkExists DEF WalksFrom
<1> HIDE DEF from
<1>3. MaxSignal \in Nat /\ End = MaxSignal + 1
  BY NSigAssumption DEF End
<1>4. g \in 1 .. End /\ (g # End => g \in s) /\ \A j \in s : j > 0 /\ j <= MaxSignal => g <= j
  <2>1. 0 \in 0 .. MaxSignal
    BY <1>3
  <2>2. /\ g \in 0 + 1 .. End /\ (g # End => g \in s)
        /\ \A j \in s : j > 0 /\ j <= MaxSignal => g <= j
    BY <2>1, GetNextIs
  <2> HIDE DEF g
  <2> QED
    BY <1>3, <2>2
<1>5. Elements(Walk(s)) = VisitedFrom(s, g)
  BY <1>1, <1>2, <1>4, WalkVisits
<1> HIDE DEF g
<1>6. VisitedFrom(s, g) = {i \in s : i <= MaxSignal}
  <2> USE DEF VisitedFrom
  <2>1. \A j \in s : j \in Nat /\ j > 0
    BY NSigAssumption
  <2>2. CASE g = End
    <3>1. \A j \in s : ~(j <= MaxSignal)
      BY <1>3, <1>4, <2>1, <2>2
    <3> QED
      BY <2>2, <3>1
  <2>3. CASE g # End
    <3>1. g \in s /\ g <= MaxSignal
      BY <1>3, <1>4, <2>3
    <3>2. \A j \in s : j <= MaxSignal <=> (j = g \/ (g < j /\ j <= MaxSignal))
      BY <1>3, <1>4, <2>1, <3>1
    <3> QED
      BY <2>3, <3>1, <3>2
  <2> QED
    BY <2>2, <2>3
<1> QED
  BY <1>5, <1>6 DEF Iterated, Elements

-----------------------------------------------------------------------------
(* UncaughtExceptionHandler *)

UehInv == referenceCount \in Nat /\ nested \in BOOLEAN /\ HandlerRestored

\* UncaughtExceptionHandler: the invariant holds in the beginning,
LEMMA UehInvInit == UehInit => UehInv
<1>1. UehInit => nested \in BOOLEAN
  BY Zenon DEF UehInit
<1> QED
  BY <1>1 DEF UehInit, UehInv, HandlerRestored

\* and enabling and disabling keep it.
LEMMA UehInvStep == UehInv /\ [UehNext]_uehVars => UehInv'
<1> SUFFICES ASSUME UehInv, [UehNext]_uehVars PROVE UehInv'
  OBVIOUS
<1> USE DEF UehInv
<1>1. nested' \in BOOLEAN
  <2>1. CASE Enable
    BY <2>1 DEF Enable
  <2>2. CASE ~Enable
    <3>1. nested' = nested
      BY <2>2 DEF UehNext, Disable, uehVars
    <3> QED
      BY <3>1, Zenon
  <2> QED
    BY <2>1, <2>2
<1>2. CASE Enable
  <2>1. nested' <=> nested \/ referenceCount > 0
    BY <1>2 DEF Enable
  <2>2. /\ originalTerminate' = terminateHandler /\ terminateHandler' = "handleTerminate"
        /\ referenceCount' = referenceCount + 1
    BY <1>2 DEF Enable
  <2>3. ~nested' => terminateHandler = "default"
    BY <2>1 DEF HandlerRestored
  <2> QED
    BY <1>1, <2>2, <2>3 DEF HandlerRestored
<1>3. CASE Disable
  BY <1>1, <1>3 DEF Disable, HandlerRestored
<1>4. CASE UNCHANGED uehVars
  BY <1>4 DEF uehVars, HandlerRestored
<1> QED
  BY <1>2, <1>3, <1>4 DEF UehNext

-----------------------------------------------------------------------------
(* SignalMask *)

\* The mask without what the suppressor will set back, and setSignals() will unblock
Lasting ==
    (IF suppressor.active /\ suppressor.doUnblock THEN mask \ {SigPipe} ELSE mask) \ change.unblock

RunnersDistinct == \A j, k \in DOMAIN runners : runners[j] = runners[k] => j = k

\* No write is suppressed in the middle of setSignals(), and it unblocks once.
ChangeOK ==
    /\ suppressor.active => change = NoChange
    /\ change.next # "unblock" => change.unblock = {}

\* During a suppressed write SIGPIPE is blocked, and a foreign one is pending
\* exactly if the constructor has seen it.
PipeBlocked ==
    /\ suppressor.active =>
          /\ SigPipe \in mask
          /\ suppressor.wasPending => SigPipe \in pending /\ foreign /\ ~suppressor.doUnblock
          /\ ~suppressor.wasPending => ~foreign
    /\ ~suppressor.active => ~suppressor.doUnblock
    /\ PipeSuppressed

\* A signal is blocked by the runners before the k-th, or was in the beginning.
BlockedBefore(i, k) ==
    i \in original \/ \E j \in DOMAIN runners : j < k /\ i \in handled[runners[j]]

\* Every runner has saved the mask that the runners before it made.
LayersOf(i) ==
    /\ \A k \in DOMAIN runners : i \in origBlocked[runners[k]] <=> BlockedBefore(i, k)
    /\ i \in Lasting <=> BlockedBefore(i, Len(runners) + 1)

Layers == disciplined /\ failures = 0 => \A i \in Signals : i <= MaxSignal => LayersOf(i)

SmInv == TypeOK /\ RunnersDistinct /\ ChangeOK /\ PipeBlocked /\ Layers

\* The inductive invariant holds in the beginning.
LEMMA SmInvInit == Init => SmInv
<1> SUFFICES ASSUME Init PROVE SmInv
  OBVIOUS
<1>1. disciplined \in BOOLEAN /\ foreign \in BOOLEAN
  BY Zenon DEF Init
<1>2. suppressor \in [wasPending : BOOLEAN, doUnblock : BOOLEAN, active : BOOLEAN]
  BY DEF Init, None
<1>3. ~suppressor.active /\ ~suppressor.doUnblock /\ mask = original /\ ~foreign
  BY DEF Init, None
<1>4. change \in [next : {"none", "unblock", "signalFD"}, of : SUBSET Runners, unblock : SUBSET Signals]
      /\ change.unblock = {}
  BY DEF Init, NoChange
<1>5. TypeOK
  BY <1>1, <1>2, <1>4, SignalsAssumption DEF Init, TypeOK
<1>6. RunnersDistinct /\ ChangeOK /\ PipeBlocked
  BY <1>3, <1>4 DEF Init, RunnersDistinct, ChangeOK, PipeBlocked, PipeSuppressed
<1>7. Layers
  BY <1>3, <1>4 DEF Init, Layers, LayersOf, Lasting, BlockedBefore
<1> QED
  BY <1>5, <1>6, <1>7 DEF SmInv

\* A change of the mask outside a suppressed write: what it unblocks is gone, foreign or not.
LEMMA PipeAfterMask ==
    ASSUME SmInv, ~suppressor.active, NEW new, SigMask(new), suppressor' = suppressor, ownPipe' = ownPipe
    PROVE  PipeBlocked' /\ foreign' \in BOOLEAN
<1>1. pending' = pending \cap new /\ (foreign' <=> foreign /\ SigPipe \in new)
  BY DEF SigMask
<1>2. ~suppressor.doUnblock /\ ownPipe # "acted" /\ (foreign <=> SigPipe \in pending)
  BY DEF SmInv, PipeBlocked, PipeSuppressed
<1>3. foreign' \in BOOLEAN
  BY Zenon DEF SigMask
<1>4. PipeBlocked'
  BY <1>1, <1>2 DEF PipeBlocked, PipeSuppressed
<1> QED
  BY <1>3, <1>4

\* The sets that setSignals() blocks and unblocks, of the standard signals
LEMMA SetSignalsMask ==
    ASSUME TypeOK, NEW r \in Runners, NEW s, s \subseteq Signals, NEW i \in Signals, i <= MaxSignal,
           i \in mask <=> i \in origBlocked[r] \/ i \in handled[r]
    PROVE  i \in (mask \cup ToBlock(r, s)) \ ToUnblock(r, s) <=> i \in origBlocked[r] \/ i \in s
<1>1. s \subseteq 1 .. NSig /\ origBlocked[r] \subseteq 1 .. NSig
  BY SignalsAssumption DEF TypeOK
<1>2. Iterated(s) = {j \in s : j <= MaxSignal}
  BY <1>1, IteratedIs
<1>3. Iterated(origBlocked[r]) = {j \in origBlocked[r] : j <= MaxSignal}
  BY <1>1, IteratedIs
<1>4. i \in ToBlock(r, s) <=> i \in s /\ i \notin origBlocked[r] /\ i \notin handled[r]
  BY <1>2 DEF ToBlock
<1>5. i \in ToUnblock(r, s) <=>
        i \in handled[r] /\ ~(i \in s /\ i \notin origBlocked[r]) /\ i \notin origBlocked[r]
  BY <1>2, <1>3 DEF ToUnblock
<1> QED
  BY <1>4, <1>5

\* The second part of a concatenation
LEMMA ConcatBehind ==
    ASSUME NEW S, NEW a \in Seq(S), NEW b \in Seq(S), NEW k \in 1 .. Len(a) + Len(b), ~(k <= Len(a))
    PROVE  (a \o b)[k] = b[k - Len(a)]
OBVIOUS

\* Removal of the element at a place
LEMMA RemovedAt ==
    ASSUME NEW S, NEW q \in Seq(S), NEW i \in DOMAIN q
    PROVE  LET p == SubSeq(q, 1, i - 1) \o SubSeq(q, i + 1, Len(q)) IN
           /\ p \in Seq(S) /\ DOMAIN p = 1 .. Len(q) - 1
           /\ \A k \in DOMAIN p : p[k] = IF k < i THEN q[k] ELSE q[k + 1]
<1>1. i \in 1 .. Len(q) /\ Len(q) \in Nat
  OBVIOUS
<1> DEFINE a == SubSeq(q, 1, i - 1)
           b == SubSeq(q, i + 1, Len(q))
<1>2. a \in Seq(S) /\ Len(a) = i - 1 /\ \A k \in 1 .. i - 1 : a[k] = q[k]
  BY <1>1
<1>3. b \in Seq(S) /\ Len(b) = Len(q) - i /\ \A k \in 1 .. Len(q) - i : b[k] = q[k + i]
  BY <1>1
<1> HIDE DEF a, b
<1>4. a \o b \in Seq(S) /\ Len(a \o b) = Len(q) - 1
  BY <1>1, <1>2, <1>3
<1>5. ASSUME NEW k \in 1 .. Len(q) - 1 PROVE (a \o b)[k] = IF k < i THEN q[k] ELSE q[k + 1]
  <2>1. CASE k < i
    <3>1. k \in 1 .. i - 1
      BY <1>1, <2>1
    <3> QED
      BY <1>2, <1>3, <2>1, <3>1
  <2>2. CASE ~(k < i)
    <3>1. k - (i - 1) \in 1 .. Len(q) - i /\ k - (i - 1) + i = k + 1
      BY <1>1, <2>2
    <3>2. k > i - 1 /\ k <= i - 1 + (Len(q) - i)
      BY <1>1, <2>2
    <3>3. (a \o b)[k] = b[k - (i - 1)]
      <4>0. Len(a) = i - 1 /\ Len(b) = Len(q) - i
        BY <1>2, <1>3
      <4>1. k \in 1 .. Len(a) + Len(b) /\ ~(k <= Len(a))
        BY <1>1, <2>2, <4>0
      <4>2. (a \o b)[k] = b[k - Len(a)]
        BY <1>2, <1>3, <4>1, ConcatBehind
      <4> QED
        BY <1>2, <4>2
    <3> QED
      BY <1>3, <2>2, <3>1, <3>3
  <2> QED
    BY <2>1, <2>2
<1>6. DOMAIN (a \o b) = 1 .. Len(q) - 1
  BY <1>4
<1> QED
  BY <1>4, <1>5, <1>6 DEF a, b

\* A new runner saves the mask that there is.
LEMMA ConstructStep ==
    ASSUME SmInv, NEW r \in Runners, NEW s \in Sets, Construct(r, s) PROVE SmInv'
<1> USE DEF SmInv
<1> PICK n \in Nat : n = Len(runners)
  BY DEF TypeOK
<1>1. /\ ~suppressor.active /\ change = NoChange /\ change' = change /\ r \notin Living
      /\ told' = {} /\ dropped' = {}
      /\ mask' = mask \cup s /\ pending' = pending \cap mask' /\ original' = original
      /\ origBlocked' = [origBlocked EXCEPT ![r] = mask] /\ handled' = [handled EXCEPT ![r] = s]
      /\ sfd' = [sfd EXCEPT ![r] = s] /\ calls' = [calls EXCEPT ![r] = <<>>]
      /\ runners' = Append(runners, r)
      /\ suppressor' = suppressor /\ ownPipe' = ownPipe /\ raised' = raised
      /\ disciplined' = disciplined /\ failures' = failures
  BY DEF Construct, InUserCode, SigMask, NoReport, ghosts
<1>2. s \subseteq Signals
  BY SignalsAssumption
<1>8. PipeBlocked' /\ foreign' \in BOOLEAN
  BY <1>1, PipeAfterMask DEF Construct
<1>3. disciplined' \in BOOLEAN
  BY <1>1, Zenon DEF TypeOK
<1>4. calls' \in [Runners -> Seq(Signals)]
  BY <1>1 DEF TypeOK
<1>5. TypeOK'
  BY <1>1, <1>2, <1>3, <1>4, <1>8 DEF TypeOK
<1>6. /\ n \in Nat /\ DOMAIN runners = 1 .. n /\ DOMAIN runners' = 1 .. n + 1 /\ Len(runners') = n + 1
      /\ runners'[n + 1] = r /\ \A j \in 1 .. n : runners'[j] = runners[j] /\ runners[j] # r /\ runners[j] \in Runners
  <2>1. runners \in Seq(Runners) /\ runners' = Append(runners, r)
    BY <1>1 DEF TypeOK
  <2>2. \A j \in DOMAIN runners : runners[j] # r
    BY <1>1 DEF Living
  <2> QED
    BY <2>1, <2>2
<1>7. RunnersDistinct'
  <2>1. \A j, k \in 1 .. n + 1 : runners'[j] = runners'[k] => j = k
    BY <1>6 DEF RunnersDistinct
  <2> QED
    BY <1>6, <2>1 DEF RunnersDistinct
<1>11. ChangeOK' /\ change.unblock = {}
  BY <1>1 DEF ChangeOK, NoChange
<1>9. ASSUME disciplined, failures = 0, NEW i \in Signals, i <= MaxSignal PROVE LayersOf(i)'
  <2>1. LayersOf(i) /\ Lasting = mask /\ Lasting' = mask'
    BY <1>1, <1>9, <1>11 DEF Layers, Lasting
  <2>2. \A j \in 1 .. n : /\ handled'[runners'[j]] = handled[runners[j]]
                         /\ origBlocked'[runners'[j]] = origBlocked[runners[j]]
    BY <1>1, <1>6 DEF TypeOK
  <2>3. handled'[runners'[n + 1]] = s /\ origBlocked'[runners'[n + 1]] = mask
    BY <1>1, <1>6 DEF TypeOK
  <2>4. ASSUME NEW k \in 1 .. n + 1 PROVE BlockedBefore(i, k)' <=> BlockedBefore(i, k)
    BY <1>1, <1>6, <2>2 DEF BlockedBefore
  <2>5. BlockedBefore(i, n + 2)' <=> BlockedBefore(i, n + 1) \/ i \in s
    <3>1. BlockedBefore(i, n + 2)' <=> i \in original \/ \E j \in 1 .. n + 1 : i \in handled'[runners'[j]]
      <4>1. original' = original /\ \A j \in 1 .. n + 1 : j < n + 2
        BY <1>1, <1>6
      <4>2. BlockedBefore(i, n + 2)' <=>
              i \in original' \/ \E j \in DOMAIN runners' : j < n + 2 /\ i \in handled'[runners'[j]]
        BY DEF BlockedBefore
      <4> QED
        BY <1>6, <4>1, <4>2
    <3>2. BlockedBefore(i, n + 1) <=> i \in original \/ \E j \in 1 .. n : i \in handled[runners[j]]
      BY <1>6 DEF BlockedBefore
    <3>3. \A j \in 1 .. n + 1 : j = n + 1 \/ j \in 1 .. n
      BY <1>6
    <3>4. \A j \in 1 .. n : j \in 1 .. n + 1
      BY <1>6
    <3>5. n + 1 \in 1 .. n + 1
      BY <1>6
    <3> QED
      BY <2>2, <2>3, <3>1, <3>2, <3>3, <3>4, <3>5
  <2>6. i \in mask <=> BlockedBefore(i, n + 1)
    BY <2>1 DEF LayersOf
  <2>7. ASSUME NEW k \in 1 .. n + 1 PROVE i \in origBlocked'[runners'[k]] <=> BlockedBefore(i, k)'
    <3>1. CASE k = n + 1
      BY <2>3, <2>4, <2>6, <3>1
    <3>2. CASE k # n + 1
      <4>1. k \in 1 .. n
        BY <1>6, <3>2
      <4>2. i \in origBlocked[runners[k]] <=> BlockedBefore(i, k)
        BY <1>6, <2>1, <4>1 DEF LayersOf
      <4> QED
        BY <2>2, <2>4, <4>1, <4>2
    <3> QED
      BY <3>1, <3>2
  <2>8. i \in mask' <=> BlockedBefore(i, n + 2)'
    BY <1>1, <2>5, <2>6
  <2>9. Len(runners') + 1 = n + 2
    BY <1>6
  <2> QED
    BY <1>6, <2>1, <2>7, <2>8, <2>9 DEF LayersOf
<1>10. Layers'
  BY <1>1, <1>9 DEF Layers
<1> QED
  BY <1>5, <1>7, <1>8, <1>10, <1>11

\* A runner that is destroyed in the reverse order sets back the mask that it saved.
LEMMA DestroyStep ==
    ASSUME SmInv, NEW r \in Runners, Destroy(r) PROVE SmInv'
<1> USE DEF SmInv
<1>0. PICK n \in Nat : n = Len(runners)
  BY DEF TypeOK
<1>1. PICK at \in DOMAIN runners :
         /\ runners[at] = r
         /\ runners' = SubSeq(runners, 1, at - 1) \o SubSeq(runners, at + 1, Len(runners))
  BY DEF Destroy
<1>2. /\ ~suppressor.active /\ change = NoChange /\ change' = change
      /\ told' = {} /\ dropped' = {calls[r][k] : k \in DOMAIN calls[r]}
      /\ mask' = origBlocked[r] /\ pending' = pending \cap mask' /\ original' = original
      /\ origBlocked' = [origBlocked EXCEPT ![r] = {}] /\ handled' = [handled EXCEPT ![r] = {}]
      /\ sfd' = [sfd EXCEPT ![r] = {}] /\ calls' = [calls EXCEPT ![r] = <<>>]
      /\ suppressor' = suppressor /\ ownPipe' = ownPipe /\ raised' = raised
      /\ disciplined' = (disciplined /\ Newest(r)) /\ failures' = failures
  BY DEF Destroy, Forget, InUserCode, SigMask
<1>9. PipeBlocked' /\ foreign' \in BOOLEAN
  BY <1>2, PipeAfterMask DEF Destroy
<1>3. disciplined' \in BOOLEAN
  BY <1>2, Zenon
<1>12. ChangeOK' /\ change.unblock = {} /\ dropped' \subseteq Signals
  BY <1>2 DEF ChangeOK, NoChange, TypeOK
<1>4. calls' \in [Runners -> Seq(Signals)]
  BY <1>2 DEF TypeOK
<1>5. runners \in Seq(Runners) /\ DOMAIN runners = 1 .. n /\ at \in 1 .. n
  BY <1>0, <1>1 DEF TypeOK
<1>6. /\ runners' \in Seq(Runners) /\ DOMAIN runners' = 1 .. n - 1 /\ Len(runners') = n - 1
      /\ \A k \in 1 .. n - 1 : runners'[k] = IF k < at THEN runners[k] ELSE runners[k + 1]
  <2> DEFINE p == SubSeq(runners, 1, at - 1) \o SubSeq(runners, at + 1, Len(runners))
  <2>1. /\ p \in Seq(Runners) /\ DOMAIN p = 1 .. Len(runners) - 1
        /\ \A k \in DOMAIN p : p[k] = IF k < at THEN runners[k] ELSE runners[k + 1]
    BY <1>5, RemovedAt
  <2> HIDE DEF p
  <2>2. runners' = p
    BY <1>1 DEF p
  <2>3. /\ runners' \in Seq(Runners) /\ DOMAIN runners' = 1 .. n - 1
        /\ \A k \in 1 .. n - 1 : runners'[k] = IF k < at THEN runners[k] ELSE runners[k + 1]
    BY <1>0, <2>1, <2>2
  <2>4. Len(runners') = n - 1
    BY <1>5, <2>3
  <2> QED
    BY <2>3, <2>4
<1>7. TypeOK'
  BY <1>2, <1>3, <1>4, <1>6, <1>9, <1>12 DEF TypeOK
<1>8. RunnersDistinct'
  <2>1. ASSUME NEW j \in 1 .. n - 1, NEW k \in 1 .. n - 1, runners'[j] = runners'[k] PROVE j = k
    <3>1. PICK x \in 1 .. n : x = (IF j < at THEN j ELSE j + 1) /\ runners'[j] = runners[x]
      BY <1>6
    <3>2. PICK y \in 1 .. n : y = (IF k < at THEN k ELSE k + 1) /\ runners'[k] = runners[y]
      BY <1>6
    <3>3. x = y
      BY <1>5, <2>1, <3>1, <3>2 DEF RunnersDistinct
    <3> QED
      BY <1>5, <3>1, <3>2, <3>3
  <2> QED
    BY <1>6, <2>1 DEF RunnersDistinct
<1>10. ASSUME disciplined', failures = 0, NEW i \in Signals, i <= MaxSignal PROVE LayersOf(i)'
  <2>1. disciplined /\ Newest(r)
    BY <1>2, <1>10
  <2>2. LayersOf(i) /\ Lasting' = mask'
    BY <1>2, <1>10, <1>12, <2>1 DEF Layers, Lasting
  <2>3. at = n
    <3>1. n \in 1 .. n /\ runners[n] = r
      BY <1>0, <1>5, <2>1 DEF Newest
    <3> QED
      BY <1>1, <1>5, <3>1 DEF RunnersDistinct
  <2>4. \A k \in 1 .. n - 1 : runners'[k] = runners[k] /\ runners[k] # r /\ runners[k] \in Runners
    <3>1. \A k \in 1 .. n - 1 : runners'[k] = runners[k] /\ k \in 1 .. n /\ k # n
      BY <1>6, <2>3
    <3>2. \A k \in 1 .. n : runners[k] = r => k = n
      BY <1>1, <1>5, <2>3 DEF RunnersDistinct
    <3> QED
      BY <1>5, <3>1, <3>2
  <2>5. \A j \in 1 .. n - 1 : /\ handled'[runners'[j]] = handled[runners[j]]
                             /\ origBlocked'[runners'[j]] = origBlocked[runners[j]]
    BY <1>2, <2>4 DEF TypeOK
  <2>6. ASSUME NEW k \in 1 .. n PROVE BlockedBefore(i, k)' <=> BlockedBefore(i, k)
    <3>1. \A j \in 1 .. n : j < k => j \in 1 .. n - 1
      OBVIOUS
    <3>2. \A j \in 1 .. n - 1 : j \in 1 .. n
      OBVIOUS
    <3> QED
      BY <1>2, <1>5, <1>6, <2>5, <3>1, <3>2 DEF BlockedBefore
  <2>7. ASSUME NEW k \in 1 .. n PROVE i \in origBlocked[runners[k]] <=> BlockedBefore(i, k)
    BY <1>5, <2>2 DEF LayersOf
  <2>8. ASSUME NEW k \in 1 .. n - 1 PROVE i \in origBlocked'[runners'[k]] <=> BlockedBefore(i, k)'
    <3>1. k \in 1 .. n
      OBVIOUS
    <3> QED
      BY <2>5, <2>6, <2>7, <3>1
  <2>9. i \in mask' <=> BlockedBefore(i, n)'
    <3>1. n \in 1 .. n /\ runners[n] = r
      BY <1>1, <1>5, <2>3
    <3> QED
      BY <1>2, <2>6, <2>7, <3>1
  <2>10. Len(runners') + 1 = n
    BY <1>6
  <2> QED
    BY <1>6, <2>2, <2>8, <2>9, <2>10 DEF LayersOf
<1>11. Layers'
  BY <1>2, <1>10 DEF Layers
<1> QED
  BY <1>7, <1>8, <1>9, <1>11, <1>12

\* setSignals() of the last runner: its signals are blocked instead of the former ones.
LEMMA SetSignalsStep ==
    ASSUME SmInv, NEW r \in Runners, NEW s \in Sets, SetSignals(r, s) PROVE SmInv'
<1> USE DEF SmInv
<1>0. PICK n \in Nat : n = Len(runners)
  BY DEF TypeOK
<1> DEFINE new == (mask \cup ToBlock(r, s)) \ ToUnblock(r, s)
<1>1. /\ ~suppressor.active /\ change = NoChange /\ told' = {} /\ dropped' = {}
      /\ mask' = mask \cup ToBlock(r, s) /\ pending' = pending \cap mask' /\ original' = original
      /\ change' = [next |-> "unblock", of |-> {r}, unblock |-> ToUnblock(r, s)]
      /\ origBlocked' = origBlocked /\ handled' = [handled EXCEPT ![r] = s]
      /\ sfd' = sfd /\ calls' = calls /\ runners' = runners
      /\ suppressor' = suppressor /\ ownPipe' = ownPipe /\ raised' = raised
      /\ disciplined' = (disciplined /\ Newest(r)) /\ failures' = failures
  BY DEF SetSignals, InUserCode, SigMask, NoReport
<1>2. s \subseteq Signals /\ s \subseteq 1 .. NSig
  BY SignalsAssumption
<1>3. disciplined' \in BOOLEAN
  BY <1>1, Zenon
<1>4. mask' \subseteq Signals /\ ToUnblock(r, s) \subseteq Signals
  <2>1. Iterated(s) \subseteq Signals
    BY <1>2, IteratedIs
  <2> QED
    BY <1>1, <2>1 DEF TypeOK, ToBlock, ToUnblock
<1>9. PipeBlocked' /\ foreign' \in BOOLEAN
  BY <1>1, PipeAfterMask DEF SetSignals
<1>10. /\ change' \in [next : {"none", "unblock", "signalFD"}, of : SUBSET Runners, unblock : SUBSET Signals]
       /\ change.unblock = {} /\ change'.unblock = ToUnblock(r, s) /\ change'.next = "unblock"
  BY <1>1, <1>4 DEF NoChange
<1> HIDE DEF new
<1>5. TypeOK'
  BY <1>1, <1>2, <1>3, <1>4, <1>9, <1>10 DEF TypeOK
<1>6. RunnersDistinct' /\ ChangeOK'
  BY <1>1, <1>10 DEF RunnersDistinct, ChangeOK
<1>7. ASSUME disciplined', failures = 0, NEW i \in Signals, i <= MaxSignal PROVE LayersOf(i)'
  <2>1. disciplined /\ Newest(r)
    BY <1>1, <1>7
  <2>2. LayersOf(i) /\ Lasting = mask /\ Lasting' = new
    BY <1>1, <1>7, <1>10, <2>1 DEF Layers, Lasting, new
  <2>3. runners \in Seq(Runners) /\ DOMAIN runners = 1 .. n /\ n \in 1 .. n /\ runners[n] = r
    BY <1>0, <2>1 DEF Newest, TypeOK
  <2>4. \A j \in 1 .. n : j < n => runners[j] # r /\ runners[j] \in Runners
    BY <2>3 DEF RunnersDistinct
  <2>5. (\A j \in 1 .. n : j < n => handled'[runners[j]] = handled[runners[j]]) /\ handled'[r] = s
    BY <1>1, <2>4 DEF TypeOK
  <2>6. ASSUME NEW k \in 1 .. n PROVE BlockedBefore(i, k)' <=> BlockedBefore(i, k)
    <3>1. \A j \in 1 .. n : j < k => j < n
      OBVIOUS
    <3> QED
      BY <1>1, <2>3, <2>5, <3>1 DEF BlockedBefore
  <2>7. ASSUME NEW k \in 1 .. n PROVE i \in origBlocked[runners[k]] <=> BlockedBefore(i, k)
    BY <2>2, <2>3 DEF LayersOf
  <2>8. \A j \in 1 .. n : j < n + 1 /\ (j < n \/ j = n)
    OBVIOUS
  <2>9. i \in mask <=> BlockedBefore(i, n) \/ i \in handled[r]
    <3>1. i \in mask <=> BlockedBefore(i, n + 1)
      BY <1>0, <2>2 DEF LayersOf
    <3> QED
      BY <2>3, <2>8, <3>1 DEF BlockedBefore
  <2>10. i \in new <=> BlockedBefore(i, n) \/ i \in s
    <3>1. i \in origBlocked[r] <=> BlockedBefore(i, n)
      BY <2>3, <2>7
    <3>2. i \in new <=> i \in origBlocked[r] \/ i \in s
      BY <1>2, <1>7, <2>9, <3>1, SetSignalsMask DEF new
    <3> QED
      BY <3>1, <3>2
  <2>11. BlockedBefore(i, n + 1)' <=> BlockedBefore(i, n) \/ i \in s
    BY <1>1, <2>3, <2>5, <2>8 DEF BlockedBefore
  <2>12. Len(runners') + 1 = n + 1
    BY <1>0, <1>1
  <2> QED
    BY <1>1, <2>2, <2>3, <2>6, <2>7, <2>10, <2>11, <2>12 DEF LayersOf
<1>8. Layers'
  BY <1>1, <1>7 DEF Layers
<1> QED
  BY <1>5, <1>6, <1>8, <1>9

\* What the mask becomes does not depend on the runners: the parts of the
\* invariant that a step keeps when it leaves the runners' sets alone.
LEMMA LayersKept ==
    ASSUME SmInv, UNCHANGED <<original, runners, handled, origBlocked>>, disciplined' => disciplined,
           failures' = 0 => failures = 0 /\ Lasting' = Lasting
    PROVE  RunnersDistinct' /\ Layers'
<1>1. original' = original /\ runners' = runners /\ handled' = handled /\ origBlocked' = origBlocked
  OBVIOUS
<1>2. RunnersDistinct'
  BY <1>1 DEF SmInv, RunnersDistinct
<1>3. ASSUME disciplined', failures' = 0, NEW i \in Signals, i <= MaxSignal PROVE LayersOf(i)'
  <2>1. LayersOf(i)
    BY <1>3 DEF SmInv, Layers
  <2>2. Lasting' = Lasting
    BY <1>3
  <2>3. ASSUME NEW k PROVE BlockedBefore(i, k)' <=> BlockedBefore(i, k)
    BY <1>1 DEF BlockedBefore
  <2>4. PICK n : n = Len(runners) + 1
    OBVIOUS
  <2>5. i \in Lasting' <=> BlockedBefore(i, n)'
    <3>1. i \in Lasting <=> BlockedBefore(i, n)
      BY <2>1, <2>4 DEF LayersOf
    <3> QED
      BY <2>2, <2>3, <3>1
  <2>6. ASSUME NEW k \in DOMAIN runners PROVE i \in origBlocked'[runners'[k]] <=> BlockedBefore(i, k)'
    <3>1. i \in origBlocked[runners[k]] <=> BlockedBefore(i, k)
      BY <2>1 DEF LayersOf
    <3> QED
      BY <1>1, <2>3, <3>1
  <2>7. n = Len(runners') + 1 /\ DOMAIN runners' = DOMAIN runners
    BY <1>1, <2>4
  <2> QED
    BY <2>5, <2>6, <2>7 DEF LayersOf
<1>4. Layers'
  BY <1>3 DEF Layers
<1> QED
  BY <1>2, <1>4

\* Every step keeps the inductive invariant.
LEMMA SmInvStep == SmInv /\ [Next]_vars => SmInv'
<1> SUFFICES ASSUME SmInv, [Next]_vars PROVE SmInv'
  OBVIOUS
<1> USE DEF SmInv
<1>0. disciplined \in BOOLEAN /\ foreign \in BOOLEAN
  BY Zenon DEF TypeOK
<1>1. ASSUME NEW s \in Sets, ConstructFails(s) PROVE SmInv'
  <2>1. /\ ~suppressor.active /\ mask' = mask \cup s /\ pending' = pending \cap mask' /\ original' = original
        /\ failures < MaxFailures /\ failures' = failures + 1 /\ UNCHANGED objects /\ suppressor' = suppressor
        /\ ownPipe' = ownPipe /\ raised' = raised /\ disciplined' = disciplined
        /\ told' = {} /\ dropped' = {}
    BY <1>1 DEF ConstructFails, InUserCode, SigMask, NoReport
  <2>2. disciplined' \in BOOLEAN
    BY <1>0, <2>1, Zenon
  <2>3. PipeBlocked' /\ foreign' \in BOOLEAN
    BY <1>1, <2>1, PipeAfterMask DEF ConstructFails
  <2>4. failures' \in 0 .. MaxFailures /\ failures' # 0
    BY <2>1, SignalsAssumption DEF TypeOK
  <2>5. TypeOK'
    BY <2>1, <2>2, <2>3, <2>4, SignalsAssumption DEF TypeOK, objects
  <2>6. RunnersDistinct' /\ Layers'
    BY <2>1, <2>4, LayersKept DEF objects
  <2>7. ChangeOK'
    BY <2>1 DEF ChangeOK, objects
  <2> QED
    BY <2>3, <2>5, <2>6, <2>7
<1>2. ASSUME NEW r \in Runners, ReadSignal(r) PROVE SmInv'
  <2>1. PICK i \in pending \cap sfd[r] : /\ pending' = pending \ {i} /\ calls' = [calls EXCEPT ![r] = Append(@, i)]
                                        /\ foreign' = (foreign /\ i # SigPipe)
    BY <1>2 DEF ReadSignal
  <2>2. /\ original' = original /\ mask' = mask /\ runners' = runners /\ handled' = handled
        /\ origBlocked' = origBlocked /\ sfd' = sfd /\ suppressor' = suppressor /\ ownPipe' = ownPipe
        /\ raised' = raised /\ disciplined' = disciplined /\ failures' = failures /\ change' = change
        /\ told' = {} /\ dropped' = {} /\ ~suppressor.active
    BY <1>2 DEF ReadSignal, NoReport, InUserCode, ghosts
  <2>3. calls' \in [Runners -> Seq(Signals)]
    <3>1. i \in Signals /\ calls[r] \in Seq(Signals)
      BY <2>1 DEF TypeOK
    <3> QED
      BY <2>1, <3>1 DEF TypeOK
  <2>4. disciplined' \in BOOLEAN /\ foreign' \in BOOLEAN
    BY <1>0, <2>1, <2>2, Zenon
  <2>5. TypeOK'
    BY <2>1, <2>2, <2>3, <2>4 DEF TypeOK
  <2>6. RunnersDistinct' /\ ChangeOK'
    BY <2>2 DEF RunnersDistinct, ChangeOK
  <2>7. PipeBlocked'
    BY <2>1, <2>2 DEF PipeBlocked, PipeSuppressed
  <2>8. Layers'
    BY <2>2, LayersKept DEF Lasting
  <2> QED
    BY <2>5, <2>6, <2>7, <2>8
<1>3. ASSUME NEW r \in Runners, CallHandler(r) PROVE SmInv'
  <2>1. calls[r] # <<>> /\ calls' = [calls EXCEPT ![r] = Tail(@)] /\ told' = {Head(calls[r])} /\ dropped' = {}
    BY <1>3 DEF CallHandler
  <2>2. /\ original' = original /\ mask' = mask /\ pending' = pending /\ runners' = runners /\ handled' = handled
        /\ origBlocked' = origBlocked /\ sfd' = sfd /\ suppressor' = suppressor /\ ownPipe' = ownPipe
        /\ raised' = raised /\ disciplined' = disciplined /\ failures' = failures /\ change' = change
        /\ foreign' = foreign
    BY <1>3 DEF CallHandler, ghosts, thread
  <2>3. calls' \in [Runners -> Seq(Signals)] /\ told' \subseteq Signals
    <3>1. calls[r] \in Seq(Signals)
      BY DEF TypeOK
    <3>2. Tail(calls[r]) \in Seq(Signals) /\ Head(calls[r]) \in Signals
      BY <2>1, <3>1
    <3> QED
      BY <2>1, <3>2 DEF TypeOK
  <2>4. disciplined' \in BOOLEAN /\ foreign' \in BOOLEAN
    BY <1>0, <2>2, Zenon
  <2>5. TypeOK'
    BY <2>1, <2>2, <2>3, <2>4 DEF TypeOK
  <2>6. RunnersDistinct' /\ ChangeOK' /\ PipeBlocked'
    BY <2>2 DEF RunnersDistinct, ChangeOK, PipeBlocked, PipeSuppressed
  <2>7. Layers'
    BY <2>2, LayersKept DEF Lasting
  <2> QED
    BY <2>5, <2>6, <2>7
<1>4. CASE Suppress
  <2> DEFINE new == [wasPending |-> SigPipe \in pending,
                     doUnblock |-> SigPipe \notin pending /\ SigPipe \notin mask,
                     active |-> TRUE]
  <2>1. /\ ~suppressor.active /\ change = NoChange /\ suppressor' = new /\ original' = original
        /\ ownPipe' = "none" /\ UNCHANGED objects /\ raised' = raised
        /\ disciplined' = disciplined /\ failures' = failures /\ told' = {} /\ dropped' = {}
    BY <1>4 DEF Suppress, InUserCode, NoReport, ghosts, SigMask, thread
  <2>2. mask' = mask \cup {SigPipe} /\ pending' = pending /\ (foreign' <=> foreign)
    <3>1. CASE SigPipe \in pending
      BY <1>4, <3>1 DEF Suppress, thread, TypeOK
    <3>2. CASE SigPipe \notin pending
      BY <1>4, <3>2 DEF Suppress, SigMask, TypeOK
    <3> QED
      BY <3>1, <3>2
  <2>3. new \in [wasPending : BOOLEAN, doUnblock : BOOLEAN, active : BOOLEAN]
    OBVIOUS
  <2>4. new.active /\ (new.doUnblock <=> SigPipe \notin mask) /\ (new.wasPending <=> SigPipe \in pending)
    BY DEF TypeOK
  <2> HIDE DEF new
  <2>5. disciplined' \in BOOLEAN /\ foreign' \in BOOLEAN
    <3>1. CASE SigPipe \in pending
      <4>1. foreign' = foreign
        BY <1>4, <3>1 DEF Suppress, thread
      <4> QED
        BY <1>0, <2>1, <4>1, Zenon
    <3>2. CASE SigPipe \notin pending
      <4>1. SigMask(mask \cup {SigPipe})
        BY <1>4, <3>2 DEF Suppress
      <4> QED
        BY <1>0, <2>1, <4>1, Zenon DEF SigMask
    <3> QED
      BY <3>1, <3>2
  <2>6. TypeOK'
    BY <2>1, <2>2, <2>3, <2>5, SignalsAssumption DEF TypeOK, objects
  <2>7. PipeBlocked'
    <3>1. foreign <=> SigPipe \in pending
      BY <2>1 DEF PipeBlocked, PipeSuppressed
    <3>2. SigPipe \in pending => SigPipe \in mask
      BY DEF TypeOK
    <3> QED
      BY <2>1, <2>2, <2>4, <3>1, <3>2 DEF PipeBlocked, PipeSuppressed
  <2>8. Lasting' = Lasting
    <3>1. Lasting = mask /\ change'.unblock = {}
      BY <2>1 DEF Lasting, NoChange, objects
    <3>2. Lasting' = IF SigPipe \notin mask THEN (mask \cup {SigPipe}) \ {SigPipe} ELSE mask \cup {SigPipe}
      BY <2>1, <2>2, <2>4, <3>1 DEF Lasting
    <3> QED
      BY <3>1, <3>2
  <2>9. RunnersDistinct' /\ Layers'
    BY <2>1, <2>8, LayersKept DEF objects
  <2>10. ChangeOK'
    BY <2>1 DEF ChangeOK, objects, NoChange
  <2> QED
    BY <2>6, <2>7, <2>9, <2>10
<1>5. CASE WriteFails
  <2>1. /\ suppressor.active /\ SigPipe \in mask /\ pending' = pending \cup {SigPipe} /\ ownPipe' = "pending"
        /\ original' = original /\ mask' = mask /\ UNCHANGED objects /\ suppressor' = suppressor
        /\ raised' = raised /\ disciplined' = disciplined /\ failures' = failures
        /\ foreign' = foreign /\ told' = {} /\ dropped' = {}
    BY <1>5 DEF WriteFails, NoReport, ghosts, PipeBlocked
  <2>2. disciplined' \in BOOLEAN /\ foreign' \in BOOLEAN
    BY <1>0, <2>1, Zenon
  <2>3. TypeOK'
    BY <2>1, <2>2 DEF TypeOK, objects
  <2>4. PipeBlocked' /\ ChangeOK'
    BY <2>1 DEF PipeBlocked, PipeSuppressed, ChangeOK, objects
  <2>5. RunnersDistinct' /\ Layers'
    BY <2>1, LayersKept DEF Lasting, objects
  <2> QED
    BY <2>3, <2>4, <2>5
<1>6. CASE Release
  <2> DEFINE unblocked == IF ~suppressor.wasPending /\ suppressor.doUnblock THEN {SigPipe} ELSE {}
  <2>1. /\ suppressor.active /\ suppressor' = None /\ original' = original
        /\ UNCHANGED objects /\ raised' = raised /\ disciplined' = disciplined /\ failures' = failures
        /\ foreign' = foreign /\ told' = {} /\ dropped' = {}
    BY <1>6 DEF Release, NoReport, ghosts
  <2>2. mask' = mask \ unblocked /\ pending' = AfterTimedWait \ unblocked
        /\ ownPipe' = IF ownPipe = "pending" /\ SigPipe \in AfterTimedWait \cap unblocked THEN "acted" ELSE "none"
    BY <1>6 DEF Release
  <2>3. /\ unblocked = IF suppressor.doUnblock THEN {SigPipe} ELSE {}
        /\ SigPipe \notin AfterTimedWait \cap unblocked
        /\ AfterTimedWait \subseteq pending
        /\ SigPipe \in AfterTimedWait \ unblocked <=> foreign
    BY <2>1 DEF AfterTimedWait, PipeBlocked
  <2> HIDE DEF unblocked
  <2>4. None \in [wasPending : BOOLEAN, doUnblock : BOOLEAN, active : BOOLEAN] /\ ~None.active /\ ~None.doUnblock
    BY DEF None
  <2>5. disciplined' \in BOOLEAN /\ foreign' \in BOOLEAN
    BY <1>0, <2>1, Zenon
  <2>6. TypeOK'
    BY <2>1, <2>2, <2>3, <2>4, <2>5 DEF TypeOK, objects
  <2>7. PipeBlocked' /\ ChangeOK'
    BY <2>1, <2>2, <2>3, <2>4 DEF PipeBlocked, PipeSuppressed, ChangeOK, objects
  <2>8. Lasting' = Lasting
    BY <2>1, <2>2, <2>3, <2>4 DEF Lasting, objects
  <2>9. RunnersDistinct' /\ Layers'
    BY <2>1, <2>8, LayersKept DEF objects
  <2> QED
    BY <2>6, <2>7, <2>9
<1>7. ASSUME NEW i \in Signals, Raise(i) PROVE SmInv'
  <2>1. /\ raised < MaxRaised /\ raised' = raised + 1
        /\ pending' = IF i \in mask THEN pending \cup {i} ELSE pending
        /\ original' = original /\ mask' = mask /\ UNCHANGED objects /\ suppressor' = suppressor
        /\ ownPipe' = ownPipe /\ disciplined' = disciplined /\ failures' = failures
        /\ foreign' = (foreign \/ (i = SigPipe /\ i \in mask /\ ~suppressor.active))
        /\ told' = {} /\ dropped' = {}
    BY <1>7 DEF Raise, NoReport, ghosts
  <2>2. disciplined' \in BOOLEAN /\ foreign' \in BOOLEAN
    BY <1>0, <2>1, Zenon
  <2>3. TypeOK'
    BY <2>1, <2>2, SignalsAssumption DEF TypeOK, objects
  <2>4. PipeBlocked' /\ ChangeOK'
    BY <2>1 DEF PipeBlocked, PipeSuppressed, ChangeOK, objects
  <2>5. RunnersDistinct' /\ Layers'
    BY <2>1, LayersKept DEF Lasting, objects
  <2> QED
    BY <2>3, <2>4, <2>5
<1>8. CASE UNCHANGED vars
  <2>1. /\ original' = original /\ mask' = mask /\ pending' = pending /\ UNCHANGED objects
        /\ suppressor' = suppressor /\ ownPipe' = ownPipe /\ raised' = raised
        /\ disciplined' = disciplined /\ failures' = failures /\ foreign' = foreign
        /\ told' = told /\ dropped' = dropped
    BY <1>8 DEF vars, thread, reports, ghosts
  <2>2. disciplined' \in BOOLEAN /\ foreign' \in BOOLEAN
    BY <1>0, <2>1, Zenon
  <2>3. TypeOK'
    BY <2>1, <2>2 DEF TypeOK, objects
  <2>4. PipeBlocked' /\ ChangeOK'
    BY <2>1 DEF PipeBlocked, PipeSuppressed, ChangeOK, objects
  <2>5. RunnersDistinct' /\ Layers'
    BY <2>1, LayersKept DEF Lasting, objects
  <2> QED
    BY <2>3, <2>4, <2>5
<1>9. CASE UnblockSignals
  <2>1. /\ change.next = "unblock" /\ mask' = mask \ change.unblock /\ pending' = pending \cap mask'
        /\ change' = [change EXCEPT !.next = "signalFD", !.unblock = {}]
        /\ original' = original /\ runners' = runners /\ handled' = handled
        /\ origBlocked' = origBlocked /\ sfd' = sfd /\ calls' = calls /\ suppressor' = suppressor
        /\ ownPipe' = ownPipe /\ raised' = raised /\ disciplined' = disciplined /\ failures' = failures
        /\ told' = {} /\ dropped' = {}
    BY <1>9 DEF UnblockSignals, SigMask, NoReport, ghosts
  <2>2. ~suppressor.active
    BY <2>1 DEF ChangeOK, NoChange
  <2>3. PipeBlocked' /\ foreign' \in BOOLEAN
    BY <1>9, <2>1, <2>2, PipeAfterMask DEF UnblockSignals
  <2>4. disciplined' \in BOOLEAN
    BY <1>0, <2>1, Zenon
  <2>5. /\ change' \in [next : {"none", "unblock", "signalFD"}, of : SUBSET Runners, unblock : SUBSET Signals]
        /\ change'.unblock = {}
    BY <2>1 DEF TypeOK
  <2>6. TypeOK'
    BY <2>1, <2>3, <2>4, <2>5 DEF TypeOK
  <2>7. ChangeOK'
    BY <2>1, <2>2, <2>5 DEF ChangeOK
  <2>8. RunnersDistinct' /\ Layers'
    BY <2>1, <2>2, <2>5, LayersKept DEF Lasting
  <2> QED
    BY <2>3, <2>6, <2>7, <2>8
<1>10. CASE UpdateFD \/ UpdateFDFails
  <2>1. /\ change.next = "signalFD" /\ change' = NoChange /\ UNCHANGED thread
        /\ runners' = runners /\ handled' = handled /\ origBlocked' = origBlocked /\ calls' = calls
        /\ suppressor' = suppressor /\ ownPipe' = ownPipe /\ raised' = raised
        /\ disciplined' = disciplined /\ told' = {} /\ dropped' = {}
    BY <1>10 DEF UpdateFD, UpdateFDFails, NoReport, ghosts
  <2>2. failures' \in 0 .. MaxFailures /\ (failures' = 0 => failures = 0)
    BY <1>10, SignalsAssumption DEF UpdateFD, UpdateFDFails, ghosts, TypeOK
  <2>3. sfd' \in [Runners -> SUBSET Signals]
    <3>1. CASE UpdateFD
      BY <3>1 DEF UpdateFD, TypeOK
    <3>2. CASE UpdateFDFails
      BY <3>2 DEF UpdateFDFails, TypeOK
    <3> QED
      BY <1>10, <3>1, <3>2
  <2>4. disciplined' \in BOOLEAN /\ foreign' \in BOOLEAN
    <3>1. foreign' = foreign
      BY <2>1 DEF thread
    <3> QED
      BY <1>0, <2>1, <3>1, Zenon
  <2>5. /\ NoChange \in [next : {"none", "unblock", "signalFD"}, of : SUBSET Runners, unblock : SUBSET Signals]
        /\ NoChange.unblock = {}
    BY DEF NoChange
  <2>6. TypeOK'
    BY <2>1, <2>2, <2>3, <2>4, <2>5 DEF TypeOK, thread
  <2>7. ChangeOK' /\ PipeBlocked'
    BY <2>1, <2>5 DEF ChangeOK, PipeBlocked, PipeSuppressed, thread
  <2>8. change.unblock = {}
    BY <2>1 DEF ChangeOK
  <2>9. RunnersDistinct' /\ Layers'
    BY <2>1, <2>2, <2>5, <2>8, LayersKept DEF Lasting, thread
  <2> QED
    BY <2>6, <2>7, <2>9
<1> QED
  BY <1>1, <1>2, <1>3, <1>4, <1>5, <1>6, <1>7, <1>8, <1>9, <1>10, ConstructStep, DestroyStep, SetSignalsStep
  DEF Next, LoopStep, ChangeStep

\* The inductive invariant implies what the run checks.
LEMMA SmInvMeans == SmInv => TypeOK /\ MaskIsSum /\ PipeSuppressed
<1> SUFFICES ASSUME SmInv PROVE TypeOK /\ MaskIsSum /\ PipeSuppressed
  OBVIOUS
<1> SUFFICES ASSUME disciplined, failures = 0, InUserCode
             PROVE  Iterated(mask) = Iterated(original) \cup UNION {Iterated(handled[r]) : r \in Living}
  BY DEF SmInv, PipeBlocked, MaskIsSum
<1>1. /\ mask \subseteq 1 .. NSig /\ original \subseteq 1 .. NSig
      /\ \A j \in DOMAIN runners : runners[j] \in Runners /\ handled[runners[j]] \subseteq Signals
      /\ \A j \in DOMAIN runners : handled[runners[j]] \subseteq 1 .. NSig
  <2>1. mask \subseteq 1 .. NSig /\ original \subseteq 1 .. NSig
    BY SignalsAssumption DEF SmInv, TypeOK
  <2>2. runners \in Seq(Runners) /\ handled \in [Runners -> SUBSET Signals]
    BY DEF SmInv, TypeOK
  <2>3. \A j \in DOMAIN runners : runners[j] \in Runners
    BY <2>2
  <2>4. \A j \in DOMAIN runners : handled[runners[j]] \subseteq Signals
    BY <2>2, <2>3
  <2> QED
    BY <2>1, <2>3, <2>4, SignalsAssumption
<1>2. /\ Iterated(mask) = {i \in mask : i <= MaxSignal}
      /\ Iterated(original) = {i \in original : i <= MaxSignal}
      /\ \A j \in DOMAIN runners : Iterated(handled[runners[j]]) = {i \in handled[runners[j]] : i <= MaxSignal}
  BY <1>1, IteratedIs
<1>3. ASSUME NEW i \in Signals, i <= MaxSignal
      PROVE  i \in mask <=> i \in original \/ \E j \in DOMAIN runners : i \in handled[runners[j]]
  <2>1. i \in mask <=> BlockedBefore(i, Len(runners) + 1)
    BY <1>3 DEF SmInv, Layers, LayersOf, Lasting, InUserCode, NoChange
  <2>2. \A j \in DOMAIN runners : j < Len(runners) + 1
    BY DEF SmInv, TypeOK
  <2> QED
    BY <2>1, <2>2 DEF BlockedBefore
<1>4. mask \subseteq Signals /\ original \subseteq Signals
  BY DEF SmInv, TypeOK
<1>5. UNION {Iterated(handled[r]) : r \in Living} = UNION {Iterated(handled[runners[j]]) : j \in DOMAIN runners}
  BY DEF Living
<1> QED
  BY <1>1, <1>2, <1>3, <1>4, <1>5

-----------------------------------------------------------------------------
(* FileDescriptor *)

NotClosing == ~interrupted => closing = Invalid

\* What holds of one object and of one descriptor as long as close(2) was not
\* interrupted: the parts of OneOwner
HandleOK(h) ==
    fd[h] # Invalid =>
        /\ table[fd[h]] = means[h]
        /\ raw[fd[h]] = NoFile /\ others[fd[h]] = NoFile
        /\ \A k \in Handles \ {h} : fd[k] # fd[h]

NumberOK(n) ==
    /\ raw[n] # NoFile => table[n] = raw[n] /\ others[n] = NoFile
    /\ others[n] # NoFile => table[n] = others[n]
    /\ table[n] # NoFile => raw[n] # NoFile \/ others[n] # NoFile \/ \E h \in Handles : fd[h] = n

Owners == ~interrupted => ~aborted /\ (\A h \in Handles : HandleOK(h)) /\ (\A n \in FDs : NumberOK(n))

FdInv == FdTypeOK /\ NotClosing /\ Owners

\* Invalid is not the number of a descriptor.
LEMMA InvalidIsNone == Invalid \notin FDs
BY FDsAssumption DEF Invalid

\* The inductive invariant holds in the beginning.
LEMMA FdInvInit == FdInit => FdInv
<1> SUFFICES ASSUME FdInit PROVE FdInv
  OBVIOUS
<1>1. interrupted \in BOOLEAN /\ aborted \in BOOLEAN
  BY Zenon DEF FdInit
<1>2. FdTypeOK
  BY <1>1, FDsAssumption DEF FdInit, FdTypeOK, NoFile
<1>3. NotClosing /\ Owners
  BY FDsAssumption DEF FdInit, NotClosing, Owners, HandleOK, NumberOK
<1> QED
  BY <1>2, <1>3 DEF FdInv

\* close(2) changes the table at one descriptor, and keeps the types.
LEMMA CloseTypes ==
    ASSUME NEW n \in FDs, FdTypeOK, Close(n)
    PROVE  /\ table' \in [FDs -> 0 .. MaxFiles] /\ closing' \in FDs \cup {Invalid}
           /\ interrupted' \in BOOLEAN /\ aborted' \in BOOLEAN
<1>1. CASE table[n] = NoFile
  <2>1. aborted' \in BOOLEAN /\ interrupted' \in BOOLEAN
    BY <1>1, Zenon DEF Close, FdTypeOK
  <2> QED
    BY <1>1, <2>1 DEF Close, FdTypeOK
<1>2. CASE table[n] # NoFile
  <2>1. aborted' \in BOOLEAN /\ interrupted' \in BOOLEAN
    BY <1>2, Zenon DEF Close, FdTypeOK
  <2>2. table' = [table EXCEPT ![n] = NoFile] /\ (closing' = Invalid \/ closing' = n)
    BY <1>2 DEF Close
  <2> QED
    BY <2>1, <2>2, FDsAssumption DEF FdTypeOK, NoFile
<1> QED
  BY <1>1, <1>2

\* Every operation keeps the types.
LEMMA FdTypeStep == FdTypeOK /\ [FdNext]_fdVars => FdTypeOK'
<1> SUFFICES ASSUME FdTypeOK, [FdNext]_fdVars PROVE FdTypeOK'
  OBVIOUS
<1> USE FDsAssumption, InvalidIsNone DEF FdTypeOK, NoFile
<1>1. CASE CloseAgain
  <2>1. closing \in FDs /\ Close(closing)
    BY <1>1 DEF CloseAgain
  <2> QED
    BY <1>1, <2>1, CloseTypes DEF CloseAgain
<1>2. ASSUME NEW n \in FDs, Open(n) PROVE FdTypeOK'
  BY <1>2 DEF Open
<1>3. ASSUME NEW n \in FDs, OtherOpens(n) PROVE FdTypeOK'
  BY <1>3 DEF OtherOpens
<1>4. ASSUME NEW n \in FDs, OtherCloses(n) PROVE FdTypeOK'
  BY <1>4 DEF OtherCloses
<1>5. ASSUME NEW m \in FDs, NEW n \in FDs, OpenTwo(m, n) PROVE FdTypeOK'
  BY <1>5 DEF OpenTwo
<1>6. ASSUME NEW h \in Handles, CloseHandle(h) PROVE FdTypeOK'
  <2>1. fd[h] \in FDs /\ Close(fd[h])
    BY <1>6 DEF CloseHandle
  <2>2. /\ table' \in [FDs -> 0 .. MaxFiles] /\ closing' \in FDs \cup {Invalid}
        /\ interrupted' \in BOOLEAN /\ aborted' \in BOOLEAN
    BY <2>1, CloseTypes
  <2>3. /\ fd' = [fd EXCEPT ![h] = Invalid] /\ means' = [means EXCEPT ![h] = NoFile]
        /\ raw' = raw /\ others' = others /\ files' = files
    BY <1>6 DEF CloseHandle
  <2> QED
    BY <2>2, <2>3
<1>7. ASSUME NEW h \in Handles, ReleaseFD(h) PROVE FdTypeOK'
  BY <1>7 DEF ReleaseFD
<1>8. ASSUME NEW h \in Handles, NEW n \in FDs, TakeRaw(h, n) PROVE FdTypeOK'
  <2>1. CASE fd[h] = Invalid
    BY <1>8, <2>1 DEF TakeRaw
  <2>2. CASE fd[h] # Invalid
    <3>1. fd[h] \in FDs /\ Close(fd[h])
      BY <1>8, <2>2 DEF TakeRaw
    <3>2. /\ table' \in [FDs -> 0 .. MaxFiles] /\ closing' \in FDs \cup {Invalid}
          /\ interrupted' \in BOOLEAN /\ aborted' \in BOOLEAN
      BY <3>1, CloseTypes
    <3>3. /\ fd' = [fd EXCEPT ![h] = n] /\ means' = [means EXCEPT ![h] = raw[n]] /\ raw[n] # NoFile
          /\ raw' = [raw EXCEPT ![n] = NoFile] /\ others' = others /\ files' = files
      BY <1>8 DEF TakeRaw
    <3> QED
      BY <3>2, <3>3
  <2> QED
    BY <2>1, <2>2
<1>9. ASSUME NEW h \in Handles, NEW k \in Handles \ {h}, SwapHandles(h, k) PROVE FdTypeOK'
  BY <1>9 DEF SwapHandles
<1>10. CASE UNCHANGED fdVars
  BY <1>10 DEF fdVars
<1> QED
  BY <1>1, <1>2, <1>3, <1>4, <1>5, <1>6, <1>7, <1>8, <1>9, <1>10 DEF FdNext

\* Every operation keeps the inductive invariant.
LEMMA FdInvStep == FdInv /\ [FdNext]_fdVars => FdInv'
<1> SUFFICES ASSUME FdInv, [FdNext]_fdVars PROVE NotClosing' /\ Owners'
  BY FdTypeStep DEF FdInv
<1>t. FdTypeOK /\ FdTypeOK'
  BY FdTypeStep DEF FdInv
<1> USE FDsAssumption, InvalidIsNone DEF FdInv, NotClosing
<1>1. CASE CloseAgain
  BY <1>1, <1>t DEF CloseAgain, Close, Owners, FdTypeOK
<1>2. ASSUME NEW n \in FDs, Open(n) PROVE NotClosing' /\ Owners'
  BY <1>2, <1>t DEF Open, Owners, HandleOK, NumberOK, LowestFree, FdTypeOK, NoFile
<1>3. ASSUME NEW n \in FDs, OtherOpens(n) PROVE NotClosing' /\ Owners'
  BY <1>3, <1>t DEF OtherOpens, Owners, HandleOK, NumberOK, LowestFree, FdTypeOK, NoFile
<1>4. ASSUME NEW n \in FDs, OtherCloses(n) PROVE NotClosing' /\ Owners'
  BY <1>4, <1>t DEF OtherCloses, Owners, HandleOK, NumberOK, FdTypeOK, NoFile
<1>5. ASSUME NEW m \in FDs, NEW n \in FDs, OpenTwo(m, n) PROVE NotClosing' /\ Owners'
  <2> SUFFICES ASSUME ~interrupted PROVE ~aborted' /\ (\A h \in Handles : HandleOK(h)') /\ (\A k \in FDs : NumberOK(k)')
    BY <1>5 DEF OpenTwo, Owners
  <2>1. /\ table' = [table EXCEPT ![m] = files + 1, ![n] = files + 2]
        /\ raw' = [raw EXCEPT ![m] = files + 1, ![n] = files + 2]
        /\ table[m] = NoFile /\ table[n] = NoFile /\ m # n
        /\ fd' = fd /\ means' = means /\ others' = others /\ aborted' = aborted /\ files \in Nat
    BY <1>5, <1>t DEF OpenTwo, LowestFree, FdTypeOK
  <2>2. \A h \in Handles : HandleOK(h)'
    <3> SUFFICES ASSUME NEW h \in Handles, fd[h] # Invalid PROVE HandleOK(h)'
      BY <2>1 DEF HandleOK
    <3>1. HandleOK(h) /\ fd[h] \in FDs /\ means[h] # NoFile
      BY <1>t DEF Owners, FdTypeOK
    <3>2. fd[h] # m /\ fd[h] # n
      BY <2>1, <3>1 DEF HandleOK
    <3>3. table'[fd[h]] = table[fd[h]] /\ raw'[fd[h]] = raw[fd[h]]
      BY <1>t, <2>1, <3>1, <3>2 DEF FdTypeOK
    <3> QED
      BY <2>1, <3>1, <3>3 DEF HandleOK
  <2>3. \A k \in FDs : NumberOK(k)'
    BY <1>t, <2>1 DEF Owners, NumberOK, FdTypeOK, NoFile
  <2> QED
    BY <2>1, <2>2, <2>3 DEF Owners
<1>6. ASSUME NEW h \in Handles, CloseHandle(h) PROVE NotClosing' /\ Owners'
  <2>1. fd[h] \in FDs /\ Close(fd[h]) /\ closing = Invalid
    BY <1>6, <1>t DEF CloseHandle, Running, FdTypeOK
  <2> SUFFICES ASSUME ~interrupted' PROVE NotClosing' /\ Owners'
    BY DEF Owners
  <2>2. /\ ~interrupted /\ aborted' = aborted /\ closing' = Invalid
        /\ table' = [table EXCEPT ![fd[h]] = NoFile]
    BY <1>t, <2>1 DEF Close, Owners, HandleOK, FdTypeOK
  <2>3. /\ fd' = [fd EXCEPT ![h] = Invalid] /\ means' = [means EXCEPT ![h] = NoFile]
        /\ raw' = raw /\ others' = others
    BY <1>6 DEF CloseHandle
  <2>4. \A k \in Handles : HandleOK(k)'
    BY <1>t, <2>1, <2>2, <2>3 DEF Owners, HandleOK, FdTypeOK
  <2>5. \A n \in FDs : NumberOK(n)'
    BY <1>t, <2>1, <2>2, <2>3 DEF Owners, HandleOK, NumberOK, FdTypeOK
  <2> QED
    BY <2>2, <2>4, <2>5 DEF Owners
<1>7. ASSUME NEW h \in Handles, ReleaseFD(h) PROVE NotClosing' /\ Owners'
  BY <1>7, <1>t DEF ReleaseFD, Owners, HandleOK, NumberOK, FdTypeOK, NoFile
<1>8. ASSUME NEW h \in Handles, NEW n \in FDs, TakeRaw(h, n) PROVE NotClosing' /\ Owners'
  <2> SUFFICES ASSUME ~interrupted' PROVE NotClosing' /\ Owners'
    BY DEF Owners
  <2>1. /\ fd' = [fd EXCEPT ![h] = n] /\ means' = [means EXCEPT ![h] = raw[n]] /\ raw[n] # NoFile
        /\ raw' = [raw EXCEPT ![n] = NoFile] /\ others' = others /\ closing = Invalid
    BY <1>8 DEF TakeRaw, Running
  <2>2. CASE fd[h] = Invalid
    <3>1. table' = table /\ closing' = closing /\ interrupted' = interrupted /\ aborted' = aborted
      BY <1>8, <2>2 DEF TakeRaw
    <3>2. \A k \in Handles : HandleOK(k)'
      BY <1>t, <2>1, <2>2, <3>1 DEF Owners, HandleOK, NumberOK, FdTypeOK
    <3>3. \A k \in FDs : NumberOK(k)'
      BY <1>t, <2>1, <2>2, <3>1 DEF Owners, HandleOK, NumberOK, FdTypeOK
    <3> QED
      BY <2>1, <3>1, <3>2, <3>3 DEF Owners
  <2>3. CASE fd[h] # Invalid
    <3>1. fd[h] \in FDs /\ Close(fd[h])
      BY <1>8, <1>t, <2>3 DEF TakeRaw, FdTypeOK
    <3>2. /\ ~interrupted /\ aborted' = aborted /\ closing' = Invalid
          /\ table' = [table EXCEPT ![fd[h]] = NoFile]
      BY <1>t, <2>3, <3>1 DEF Close, Owners, HandleOK, FdTypeOK
    <3>3. fd[h] # n
      BY <1>t, <2>1, <2>3, <3>2 DEF Owners, HandleOK
    <3>4. \A k \in Handles : HandleOK(k)'
      BY <1>t, <2>1, <3>1, <3>2, <3>3 DEF Owners, HandleOK, NumberOK, FdTypeOK
    <3>5. \A k \in FDs : NumberOK(k)'
      BY <1>t, <2>1, <3>1, <3>2, <3>3 DEF Owners, HandleOK, NumberOK, FdTypeOK
    <3> QED
      BY <2>1, <3>2, <3>4, <3>5 DEF Owners
  <2> QED
    BY <2>2, <2>3
<1>9. ASSUME NEW h \in Handles, NEW k \in Handles \ {h}, SwapHandles(h, k) PROVE NotClosing' /\ Owners'
  BY <1>9, <1>t DEF SwapHandles, Owners, HandleOK, NumberOK, FdTypeOK, NoFile
<1>10. CASE UNCHANGED fdVars
  BY <1>10 DEF fdVars, Owners, HandleOK, NumberOK
<1> QED
  BY <1>1, <1>2, <1>3, <1>4, <1>5, <1>6, <1>7, <1>8, <1>9, <1>10 DEF FdNext

\* The operations of FileDescriptor and System keep the types, and an object that
\* holds a descriptor stands for a file.
THEOREM FdTypeCorrect == FdSpec => []FdTypeOK
<1>1. FdInit => FdTypeOK
  BY FdInvInit DEF FdInv
<1> QED
  BY <1>1, FdTypeStep, PTL DEF FdSpec

\* Whatever mixture of assignment, close, release and swap: unless a signal has
\* interrupted close(2), every open descriptor has one owner, nothing is leaked
\* or closed twice, and System::close() does not abort.
THEOREM OwnedOnce == FdSpec => []OneOwner
<1>1. FdInv => OneOwner
  BY DEF FdInv, Owners, HandleOK, NumberOK, OneOwner
<1> QED
  BY <1>1, FdInvInit, FdInvStep, PTL DEF FdSpec

-----------------------------------------------------------------------------
(* WeakCallback *)

Keeps == {Keep(c) : c \in Callees}
Weaks == [kind : {"weak"}, callee : Callees, life : Nat \ {0}, calls : BOOLEAN]
Turns == Keeps \cup Weaks

WcTypes ==
    /\ lives \in Nat /\ life \in [Callees -> 0 .. lives]
    /\ owned \subseteq past /\ past \subseteq Callees
    /\ queued \in Nat /\ Len(turns) <= queued /\ copied \in BOOLEAN
    /\ turns \in Seq(Turns) /\ running \in Turns \cup {Nothing}
    /\ running # Nothing => running.callee \in past

HeldLive == \A c \in Callees : life[c] # 0 <=> c \in owned \/ Kept(c)

\* A callback in the queue is of a callee that was constructed, and as long as no
\* callee was copied its Life is that callee's alone.
TurnOK(t) ==
    /\ t.callee \in past
    /\ ~copied /\ t.kind = "weak" =>
         /\ t.life <= lives /\ life[t.callee] \in {0, t.life}
         /\ \A d \in Callees : life[d] = t.life => d = t.callee

LivesOwn == ~copied => \A c, d \in Callees : life[c] = life[d] /\ life[c] # 0 => c = d

WcInv ==
    /\ WcTypes /\ HeldLive /\ LivesOwn
    /\ \A i \in DOMAIN turns : TurnOK(turns[i])

\* The two kinds of callbacks in the queue
LEMMA KeepFacts ==
    /\ \A c \in Callees : Keep(c).kind = "keep" /\ Keep(c).callee = c
    /\ \A c, d \in Callees : Keep(c) = Keep(d) => c = d
    /\ \A c \in Callees : Keep(c) # Nothing /\ Keep(c) \notin Weaks
    /\ \A t \in Weaks : t.kind = "weak" /\ t # Nothing
    /\ \A t \in Turns : t.kind # "weak" => t \in Keeps
    /\ \A t \in Turns : t.kind = "weak" => t \in Weaks
    /\ Nothing \notin Turns
<1>1. \A c : Keep(c).kind = "keep" /\ Keep(c).callee = c
  BY DEF Keep
<1>2. \A t \in Weaks : t.kind = "weak"
  BY DEF Weaks
<1>3. Nothing.kind = "none"
  BY DEF Nothing
<1>4. \A t \in Keeps : t.kind = "keep"
  BY <1>1 DEF Keeps
<1>5. Nothing \notin Turns
  BY <1>2, <1>3, <1>4 DEF Turns
<1>6. \A t \in Turns : (t.kind # "weak" => t \in Keeps) /\ (t.kind = "weak" => t \in Weaks)
  BY <1>2, <1>4 DEF Turns
<1>7. \A c \in Callees : Keep(c) # Nothing /\ Keep(c) \notin Weaks
  BY <1>1, <1>2, <1>3
<1>8. \A t \in Weaks : t # Nothing
  BY <1>2, <1>3
<1>9. ASSUME NEW c \in Callees, NEW d \in Callees, Keep(c) = Keep(d) PROVE c = d
  <2>1. Keep(c).callee = c /\ Keep(d).callee = d
    BY <1>1
  <2> QED
    BY <1>9, <2>1
<1> QED
  BY <1>1, <1>2, <1>5, <1>6, <1>7, <1>8, <1>9

\* The inductive invariant holds in the beginning.
LEMMA WcInvInit == WcInit => WcInv
<1> SUFFICES ASSUME WcInit PROVE WcInv
  OBVIOUS
<1>1. copied \in BOOLEAN
  BY Zenon DEF WcInit
<1>2. WcTypes
  BY <1>1 DEF WcInit, WcTypes
<1>3. \A c \in Callees : ~Kept(c) /\ life[c] = 0 /\ c \notin owned
  <2>1. running = Nothing /\ DOMAIN turns = {} /\ owned = {} /\ \A c \in Callees : life[c] = 0
    BY DEF WcInit
  <2> QED
    BY <2>1, KeepFacts DEF Kept
<1>4. DOMAIN turns = {}
  BY DEF WcInit
<1> QED
  BY <1>2, <1>3, <1>4 DEF WcInv, HeldLive, LivesOwn

\* The steps that do not touch the queue and what runs
LEMMA SameQueue ==
    ASSUME UNCHANGED <<turns, running>> PROVE \A c \in Callees : Kept(c)' <=> Kept(c)
BY DEF Kept

\* A new callee has a Life that no callback in the queue has.
LEMMA ConstructCalleeStep ==
    ASSUME WcInv, NEW c \in Callees, ConstructCallee(c) PROVE WcInv'
<1> USE DEF WcInv
<1>1. /\ c \notin past /\ life' = [life EXCEPT ![c] = lives + 1] /\ lives' = lives + 1
      /\ owned' = owned \cup {c} /\ past' = past \cup {c}
      /\ turns' = turns /\ running' = running /\ queued' = queued /\ copied' = copied
  BY DEF ConstructCallee
<1>2. copied' \in BOOLEAN
  BY <1>1, Zenon DEF WcTypes
<1>3. life'[c] = lives + 1 /\ \A d \in Callees \ {c} : life'[d] = life[d]
  BY <1>1 DEF WcTypes
<1>4. lives \in Nat /\ \A d \in Callees : life[d] \in 0 .. lives
  BY DEF WcTypes
<1>5. WcTypes'
  <2>1. life' \in [Callees -> 0 .. lives + 1]
    BY <1>1, <1>4 DEF WcTypes
  <2> QED
    BY <1>1, <1>2, <2>1 DEF WcTypes
<1>6. HeldLive'
  BY <1>1, <1>3, <1>4, SameQueue DEF HeldLive
<1>7. LivesOwn'
  BY <1>1, <1>3, <1>4 DEF LivesOwn
<1>8. ASSUME NEW i \in DOMAIN turns PROVE TurnOK(turns[i])'
  <2>1. TurnOK(turns[i]) /\ turns[i] \in Turns
    BY DEF WcTypes
  <2>2. turns[i].callee \in past /\ turns[i].callee # c /\ turns[i].callee \in Callees
    BY <1>1, <2>1 DEF TurnOK, WcTypes
  <2>3. ASSUME ~copied, turns[i].kind = "weak"
        PROVE  /\ turns[i].life <= lives + 1 /\ life'[turns[i].callee] \in {0, turns[i].life}
               /\ \A d \in Callees : life'[d] = turns[i].life => d = turns[i].callee
    <3>1. turns[i].life \in Nat
      BY <2>1, <2>3, KeepFacts DEF Weaks
    <3> QED
      BY <1>3, <1>4, <2>1, <2>2, <2>3, <3>1 DEF TurnOK
  <2> QED
    BY <1>1, <2>2, <2>3 DEF TurnOK
<1> QED
  BY <1>1, <1>5, <1>6, <1>7, <1>8

\* A callee that its owner lets go dies unless the queue holds it.
LEMMA ResetOwnerStep ==
    ASSUME WcInv, NEW c \in Callees, ResetOwner(c) PROVE WcInv'
<1> USE DEF WcInv
<1>1. /\ c \in owned /\ owned' = owned \ {c} /\ lives' = lives /\ past' = past
      /\ turns' = turns /\ running' = running /\ queued' = queued /\ copied' = copied
      /\ life' = (IF Kept(c) THEN life ELSE [life EXCEPT ![c] = 0])
  BY DEF ResetOwner
<1>2. copied' \in BOOLEAN
  BY <1>1, Zenon DEF WcTypes
<1>3. life'[c] = (IF Kept(c) THEN life[c] ELSE 0) /\ \A d \in Callees \ {c} : life'[d] = life[d]
  BY <1>1 DEF WcTypes
<1>4. \A d \in Callees : life'[d] \in {0, life[d]}
  BY <1>3
<1>5. WcTypes'
  BY <1>1, <1>2 DEF WcTypes
<1>6. HeldLive'
  BY <1>1, <1>3, SameQueue DEF HeldLive
<1>7. LivesOwn'
  BY <1>1, <1>4 DEF LivesOwn
<1>8. ASSUME NEW i \in DOMAIN turns PROVE TurnOK(turns[i])'
  <2>1. TurnOK(turns[i]) /\ turns[i] \in Turns
    BY DEF WcTypes
  <2>2. turns[i].callee \in Callees
    BY <2>1 DEF TurnOK, WcTypes
  <2>3. turns[i].kind = "weak" => turns[i].life # 0
    BY <2>1, KeepFacts DEF Weaks
  <2> QED
    BY <1>1, <1>4, <2>1, <2>2, <2>3 DEF TurnOK
<1> QED
  BY <1>1, <1>5, <1>6, <1>7, <1>8

\* Once a callee was copied nothing is claimed of whose Life it is.
LEMMA CopyStep ==
    ASSUME WcInv, NEW c \in Callees, NEW d \in Callees, CopyCallee(c, d) \/ AssignCallee(c, d) PROVE WcInv'
<1> USE DEF WcInv
<1>1. /\ life[d] # 0 /\ life' = [life EXCEPT ![c] = life[d]] /\ lives' = lives /\ copied' = TRUE
      /\ turns' = turns /\ running' = running /\ queued' = queued
      /\ \/ owned' = owned \cup {c} /\ past' = past \cup {c}
         \/ owned' = owned /\ past' = past /\ life[c] # 0
  BY DEF CopyCallee, AssignCallee
<1>2. copied' \in BOOLEAN
  BY <1>1, Zenon
<1>3. life'[c] = life[d] /\ \A e \in Callees \ {c} : life'[e] = life[e]
  BY <1>1 DEF WcTypes
<1>4. WcTypes'
  BY <1>1, <1>2 DEF WcTypes
<1>5. HeldLive'
  BY <1>1, <1>3, SameQueue DEF HeldLive
<1>6. LivesOwn'
  BY <1>1 DEF LivesOwn
<1>7. \A i \in DOMAIN turns : TurnOK(turns[i])'
  BY <1>1 DEF TurnOK
<1> QED
  BY <1>1, <1>4, <1>5, <1>6, <1>7

\* A callback is appended to the queue.
LEMMA AddTurnStep ==
    ASSUME WcInv, NEW t \in Turns, AddTurn(t), TurnOK(t), \A c \in Callees : t = Keep(c) => c \in owned
    PROVE  WcInv'
<1> USE DEF WcInv
<1>1. /\ turns' = Append(turns, t) /\ queued' = queued + 1 /\ life' = life /\ lives' = lives
      /\ owned' = owned /\ past' = past /\ running' = running /\ copied' = copied
  BY DEF AddTurn
<1>2. copied' \in BOOLEAN
  BY <1>1, Zenon DEF WcTypes
<1>3. PICK n \in Nat : n = Len(turns)
  BY DEF WcTypes
<1>4. /\ turns' \in Seq(Turns) /\ Len(turns') = n + 1 /\ DOMAIN turns' = 1 .. n + 1 /\ DOMAIN turns = 1 .. n
      /\ turns'[n + 1] = t /\ \A i \in 1 .. n : turns'[i] = turns[i]
  BY <1>1, <1>3 DEF WcTypes
<1>5. \A i \in 1 .. n + 1 : i \in 1 .. n \/ i = n + 1
  OBVIOUS
<1>6. \A i \in 1 .. n : i \in 1 .. n + 1
  OBVIOUS
<1>7. WcTypes'
  BY <1>1, <1>2, <1>3, <1>4 DEF WcTypes
<1>8. HeldLive'
  <2>1. \A c \in Callees : Kept(c)' <=> Kept(c) \/ t = Keep(c)
    <3>1. n + 1 \in 1 .. n + 1
      OBVIOUS
    <3> QED
      BY <1>1, <1>4, <1>5, <1>6, <3>1 DEF Kept
  <2> QED
    BY <1>1, <2>1 DEF HeldLive
<1>9. LivesOwn'
  BY <1>1 DEF LivesOwn
<1>10. ASSUME NEW i \in 1 .. n + 1 PROVE TurnOK(turns[i])'
  <2>1. TurnOK(turns'[i])
    BY <1>4, <1>5
  <2> QED
    BY <1>1, <2>1 DEF TurnOK
<1> QED
  BY <1>4, <1>7, <1>8, <1>9, <1>10

\* addCallback() of a WeakCallback, and postponeDeletion()
LEMMA AddCallbackStep ==
    ASSUME WcInv, NEW c \in Callees, AddWeakCallback(c) \/ PostponeDeletion(c) PROVE WcInv'
<1> USE DEF WcInv
<1>1. CASE PostponeDeletion(c)
  <2>1. Keep(c) \in Turns /\ AddTurn(Keep(c)) /\ c \in owned
    BY <1>1 DEF PostponeDeletion, Turns, Keeps
  <2>2. TurnOK(Keep(c))
    BY <2>1, KeepFacts DEF TurnOK, WcTypes
  <2>3. \A d \in Callees : Keep(c) = Keep(d) => d \in owned
    BY <2>1, KeepFacts
  <2> QED
    BY <2>1, <2>2, <2>3, AddTurnStep
<1>2. CASE AddWeakCallback(c)
  <2> DEFINE t == [kind |-> "weak", callee |-> c, life |-> life[c], calls |-> FALSE]
  <2>1. life[c] # 0 /\ AddTurn(t)
    BY <1>2 DEF AddWeakCallback
  <2>2. life[c] \in Nat \ {0} /\ life[c] <= lives
    BY <2>1 DEF WcTypes
  <2>3. t \in Weaks /\ t.callee = c /\ t.life = life[c]
    BY <2>2 DEF Weaks
  <2> HIDE DEF t
  <2>4. c \in past
    <3>1. c \in owned \/ Kept(c)
      BY <2>1 DEF HeldLive
    <3>2. CASE c \in owned
      BY <3>2 DEF WcTypes
    <3>3. CASE \E i \in DOMAIN turns : turns[i] = Keep(c)
      BY <3>3, KeepFacts DEF TurnOK
    <3>4. CASE running = Keep(c)
      <4>1. running # Nothing /\ running.callee = c
        BY <3>4, KeepFacts
      <4> QED
        BY <4>1 DEF WcTypes
    <3> QED
      BY <3>1, <3>2, <3>3, <3>4 DEF Kept
  <2>5. TurnOK(t)
    BY <2>1, <2>2, <2>3, <2>4 DEF TurnOK, LivesOwn
  <2>6. \A d \in Callees : t # Keep(d)
    BY <2>3, KeepFacts
  <2> QED
    BY <2>1, <2>3, <2>5, <2>6, AddTurnStep DEF Turns
<1> QED
  BY <1>1, <1>2

\* The first callback moves from the queue to what runs.
LEMMA ExecuteTurnStep == ASSUME WcInv, ExecuteTurn PROVE WcInv'
<1> USE DEF WcInv
<1> DEFINE t == turns[1]
<1>1. /\ running = Nothing /\ turns # <<>> /\ turns' = Tail(turns)
      /\ running' = IF t.kind = "weak" THEN [t EXCEPT !.calls = ~Expired(t.life)] ELSE t
      /\ life' = life /\ lives' = lives /\ owned' = owned /\ past' = past /\ queued' = queued /\ copied' = copied
  BY DEF ExecuteTurn
<1>2. copied' \in BOOLEAN
  BY <1>1, Zenon DEF WcTypes
<1>3. PICK n \in Nat : n = Len(turns)
  BY DEF WcTypes
<1>4. /\ n > 0 /\ DOMAIN turns = 1 .. n /\ t \in Turns /\ TurnOK(t)
      /\ turns' \in Seq(Turns) /\ Len(turns') = n - 1 /\ DOMAIN turns' = 1 .. n - 1
      /\ \A i \in 1 .. n - 1 : turns'[i] = turns[i + 1]
  <2>1. turns \in Seq(Turns)
    BY DEF WcTypes
  <2>2. n > 0 /\ DOMAIN turns = 1 .. n /\ 1 \in 1 .. n
    BY <1>1, <1>3, <2>1
  <2>3. /\ turns' \in Seq(Turns) /\ Len(turns') = n - 1 /\ DOMAIN turns' = 1 .. n - 1
        /\ \A i \in 1 .. n - 1 : turns'[i] = turns[i + 1]
    BY <1>1, <1>3, <2>1, <2>2
  <2> QED
    BY <2>1, <2>2, <2>3
<1> HIDE DEF t
<1>5. ASSUME NEW i \in 1 .. n - 1 PROVE i + 1 \in 1 .. n
  OBVIOUS
<1>6. ASSUME NEW i \in 1 .. n PROVE i = 1 \/ (i - 1 \in 1 .. n - 1 /\ i - 1 + 1 = i)
  OBVIOUS
<1>7. /\ running' \in Turns /\ running'.callee \in past
      /\ \A c \in Callees : running' = Keep(c) <=> t = Keep(c)
  <2>1. CASE t.kind = "weak"
    <3>1. t \in Weaks
      BY <1>4, <2>1, KeepFacts
    <3>2. Expired(t.life) \in BOOLEAN
      BY DEF Expired
    <3>3. running' \in Weaks /\ running'.callee = t.callee
      BY <1>1, <2>1, <3>1, <3>2 DEF Weaks
    <3> QED
      BY <1>4, <3>1, <3>3, KeepFacts DEF Turns, TurnOK
  <2>2. CASE t.kind # "weak"
    <3>1. running' = t
      BY <1>1, <2>2
    <3> QED
      BY <1>4, <3>1 DEF TurnOK
  <2> QED
    BY <2>1, <2>2
<1>8. WcTypes'
  <2>1. Len(turns') <= queued
    BY <1>3, <1>4 DEF WcTypes
  <2> QED
    BY <1>1, <1>2, <1>4, <1>7, <2>1 DEF WcTypes
<1>9. ASSUME NEW c \in Callees PROVE Kept(c)' <=> Kept(c)
  <2>1. Kept(c) <=> \E i \in 1 .. n : turns[i] = Keep(c)
    BY <1>1, <1>4, KeepFacts DEF Kept
  <2>2. Kept(c)' <=> t = Keep(c) \/ \E i \in 1 .. n - 1 : turns[i + 1] = Keep(c)
    BY <1>4, <1>7 DEF Kept
  <2>3. 1 \in 1 .. n
    BY <1>4
  <2>4. ASSUME NEW i \in 1 .. n, turns[i] = Keep(c) PROVE Kept(c)'
    <3>1. CASE i = 1
      BY <2>2, <2>4, <3>1 DEF t
    <3>2. CASE i # 1
      <4>1. i - 1 \in 1 .. n - 1 /\ i - 1 + 1 = i
        BY <1>6, <3>2
      <4> QED
        BY <2>2, <2>4, <4>1
    <3> QED
      BY <3>1, <3>2
  <2>5. ASSUME NEW i \in 1 .. n - 1, turns[i + 1] = Keep(c) PROVE Kept(c)
    BY <1>5, <2>1, <2>5
  <2>6. t = Keep(c) => Kept(c)
    BY <2>1, <2>3 DEF t
  <2> QED
    BY <2>1, <2>2, <2>4, <2>5, <2>6
<1>10. HeldLive'
  BY <1>1, <1>9 DEF HeldLive
<1>11. LivesOwn'
  BY <1>1 DEF LivesOwn
<1>12. ASSUME NEW i \in 1 .. n - 1 PROVE TurnOK(turns[i])'
  <2>1. TurnOK(turns'[i])
    BY <1>4, <1>5
  <2> QED
    BY <1>1, <2>1 DEF TurnOK
<1> QED
  BY <1>4, <1>8, <1>10, <1>11, <1>12

\* What a deletion leaves: it only ends lives.
LEMMA DeletionKeeps ==
    ASSUME WcInv, NEW gone, life' = Deleted(gone), UNCHANGED <<lives, owned, past, queued, copied>>,
           running' = Nothing, turns' \in Seq(Turns), Len(turns') <= queued,
           \A c \in Callees : running = Keep(c) \/ (\E i \in DOMAIN turns : turns[i] = Keep(c)) <=>
                              Keep(c) \in gone \/ \E i \in DOMAIN turns' : turns'[i] = Keep(c),
           \A i \in DOMAIN turns' : \E j \in DOMAIN turns : turns'[i] = turns[j]
    PROVE  WcInv'
<1> USE DEF WcInv
<1>1. ASSUME NEW c \in Callees
      PROVE  life'[c] = IF Keep(c) \in gone /\ c \notin owned /\ Keep(c) \notin {turns'[i] : i \in DOMAIN turns'}
                        THEN 0 ELSE life[c]
  BY DEF Deleted
<1>2. copied' \in BOOLEAN
  BY Zenon DEF WcTypes
<1>3. life' \in [Callees -> 0 .. lives]
  <2>1. life' = [c \in Callees |-> life'[c]]
    BY DEF Deleted
  <2>2. \A c \in Callees : life'[c] \in 0 .. lives
    <3> TAKE c \in Callees
    <3>1. life[c] \in 0 .. lives /\ 0 \in 0 .. lives
      BY DEF WcTypes
    <3> QED
      BY <1>1, <3>1
  <2> QED
    BY <2>1, <2>2
<1>4. WcTypes'
  BY <1>2, <1>3 DEF WcTypes
<1>5. ASSUME NEW c \in Callees PROVE life'[c] # 0 <=> c \in owned \/ Kept(c)'
  <2>1. Kept(c)' <=> \E i \in DOMAIN turns' : turns'[i] = Keep(c)
    BY KeepFacts DEF Kept
  <2>2. Kept(c) <=> Keep(c) \in gone \/ Kept(c)'
    BY <2>1 DEF Kept
  <2>3. life[c] # 0 <=> c \in owned \/ Kept(c)
    BY DEF HeldLive
  <2>4. Keep(c) \in {turns'[i] : i \in DOMAIN turns'} <=> Kept(c)'
    BY <2>1
  <2> QED
    BY <1>1, <2>2, <2>3, <2>4
<1>6. HeldLive'
  BY <1>5 DEF HeldLive
<1>7. \A c \in Callees : life'[c] \in {0, life[c]}
  BY <1>1
<1>8. LivesOwn'
  BY <1>7 DEF LivesOwn
<1>9. ASSUME NEW i \in DOMAIN turns' PROVE TurnOK(turns[i])'
  <2>1. TurnOK(turns'[i]) /\ turns'[i] \in Turns
    BY DEF WcTypes
  <2>2. turns'[i].callee \in Callees
    BY <2>1 DEF TurnOK, WcTypes
  <2>3. turns'[i].kind = "weak" => turns'[i].life # 0
    BY <2>1, KeepFacts DEF Weaks
  <2> QED
    BY <1>7, <2>1, <2>2, <2>3 DEF TurnOK
<1> QED
  BY <1>4, <1>6, <1>8, <1>9

\* Every step keeps the inductive invariant.
LEMMA WcInvStep == WcInv /\ [WcNext]_wcVars => WcInv'
<1> SUFFICES ASSUME WcInv, [WcNext]_wcVars PROVE WcInv'
  OBVIOUS
<1>1. CASE TurnEnds
  <2>1. /\ running' = Nothing /\ turns' = turns /\ life' = Deleted({running})
        /\ UNCHANGED <<lives, owned, past, queued, copied>>
    BY <1>1 DEF TurnEnds
  <2>2. turns' \in Seq(Turns) /\ Len(turns') <= queued
    BY <2>1 DEF WcInv, WcTypes
  <2>3. \A c \in Callees : running = Keep(c) \/ (\E i \in DOMAIN turns : turns[i] = Keep(c)) <=>
                           Keep(c) \in {running} \/ \E i \in DOMAIN turns' : turns'[i] = Keep(c)
    BY <2>1
  <2>4. \A i \in DOMAIN turns' : \E j \in DOMAIN turns : turns'[i] = turns[j]
    BY <2>1
  <2> QED
    BY <2>1, <2>2, <2>3, <2>4, DeletionKeeps
<1>2. CASE DestroyRunner
  <2> DEFINE gone == {turns[i] : i \in DOMAIN turns}
  <2>1. /\ running = Nothing /\ running' = Nothing /\ turns' = <<>> /\ life' = Deleted(gone)
        /\ UNCHANGED <<lives, owned, past, queued, copied>>
    BY <1>2 DEF DestroyRunner
  <2>2. turns' \in Seq(Turns) /\ Len(turns') <= queued /\ DOMAIN turns' = {}
    BY <2>1 DEF WcInv, WcTypes
  <2>3. \A c \in Callees : running = Keep(c) \/ (\E i \in DOMAIN turns : turns[i] = Keep(c)) <=>
                           Keep(c) \in gone \/ \E i \in DOMAIN turns' : turns'[i] = Keep(c)
    BY <2>1, <2>2, KeepFacts
  <2> QED
    BY <2>1, <2>2, <2>3, DeletionKeeps
<1>3. CASE UNCHANGED wcVars
  <2>1. /\ life' = life /\ lives' = lives /\ owned' = owned /\ past' = past /\ turns' = turns
        /\ running' = running /\ queued' = queued /\ copied' = copied
    BY <1>3 DEF wcVars
  <2>2. copied' \in BOOLEAN
    BY <2>1, Zenon DEF WcInv, WcTypes
  <2> QED
    BY <2>1, <2>2 DEF WcInv, WcTypes, HeldLive, LivesOwn, Kept, TurnOK
<1> QED
  BY <1>1, <1>2, <1>3, ConstructCalleeStep, ResetOwnerStep, CopyStep, AddCallbackStep, ExecuteTurnStep
     DEF WcNext

\* The inductive invariant implies the types that the run checks.
LEMMA WcInvMeans == WcInv => WcTypeOK
<1>1. WcInv => copied \in BOOLEAN
  BY Zenon DEF WcInv, WcTypes
<1> QED
  BY <1>1 DEF WcInv, WcTypes, HeldLive, WcTypeOK

\* The step of the queue calls the living.
LEMMA LivingCalled ==
    ASSUME WcInv, NEW c \in Callees, ExecuteTurn, running'.kind = "weak", running'.callee = c, ~copied
    PROVE  running'.calls <=> life[c] # 0
<1> DEFINE t == turns[1]
<1>1. /\ turns # <<>>
      /\ running' = IF t.kind = "weak" THEN [t EXCEPT !.calls = ~Expired(t.life)] ELSE t
  BY DEF ExecuteTurn
<1>2. turns \in Seq(Turns) /\ 1 \in DOMAIN turns
  BY <1>1 DEF WcInv, WcTypes
<1>3. t \in Turns /\ TurnOK(t)
  BY <1>2 DEF WcInv
<1> HIDE DEF t
<1>4. t.kind = "weak" /\ t \in Weaks
  BY <1>1, <1>3, KeepFacts
<1>5. running'.calls = ~Expired(t.life) /\ t.callee = c /\ t.life # 0
  BY <1>1, <1>4 DEF Weaks
<1>6. life[c] \in {0, t.life} /\ \A d \in Callees : life[d] = t.life => d = c
  BY <1>3, <1>4, <1>5 DEF TurnOK
<1>7. Expired(t.life) <=> life[c] = 0
  BY <1>5, <1>6 DEF Expired
<1> QED
  BY <1>5, <1>7, Zenon

-----------------------------------------------------------------------------
(* ControlMessage *)

\* CMSG_ALIGN rounds up, by one cell at the most.
LEMMA AlignFacts ==
    ASSUME NEW n \in Nat
    PROVE  /\ CmsgAlign(n) = IF n % 2 = 0 THEN n ELSE n + 1
           /\ CmsgAlign(n) \in Nat /\ CmsgAlign(n) % 2 = 0
<1>1. CmsgAlign(n) = ((n + 1) \div 2) * 2
  BY DEF CmsgAlign, AlignTo
<1>2. PICK k \in Nat : n = 2 * k \/ n = 2 * k + 1
  <2>1. n \div 2 \in Nat
    OBVIOUS
  <2>2. 2 * (n \div 2) <= n /\ n < 2 * (n \div 2) + 2
    OBVIOUS
  <2>3. n = 2 * (n \div 2) \/ n = 2 * (n \div 2) + 1
    BY <2>1, <2>2
  <2> QED
    BY <2>1, <2>3
<1>3. CASE n = 2 * k
  <2>1. (n + 1) \div 2 = k /\ n % 2 = 0
    BY <1>3
  <2> QED
    BY <1>1, <1>3, <2>1
<1>4. CASE n = 2 * k + 1
  <2>1. (n + 1) \div 2 = k + 1 /\ n % 2 = 1 /\ (n + 1) % 2 = 0
    BY <1>4
  <2> QED
    BY <1>1, <1>4, <2>1
<1> QED
  BY <1>2, <1>3, <1>4

\* Aligned sizes add up to aligned sizes.
LEMMA AlignSum ==
    ASSUME NEW m \in Nat, NEW n \in Nat, m % 2 = 0
    PROVE  (m + n) % 2 = n % 2
OBVIOUS

\* Aligning does not cross an aligned bound.
LEMMA AlignBelow ==
    ASSUME NEW m \in Nat, NEW n \in Nat, m <= n, n % 2 = 0
    PROVE  CmsgAlign(m) <= n
BY AlignFacts

\* CMSG_LEN and CMSG_SPACE
LEMMA SpaceFacts ==
    ASSUME NEW n \in Nat
    PROVE  CmsgLen(n) \in Nat /\ CmsgSpace(n) = CmsgAlign(CmsgLen(n)) /\ CmsgLen(n) <= CmsgSpace(n)
           /\ CmsgSpace(n) \in Nat /\ CmsgLen(n) >= Hdr /\ CmsgSpace(n) % 2 = 0 /\ CmsgLen(n) = 4 + n
<1>1. (4 + n) % 2 = n % 2
  BY AlignSum
<1>2. /\ CmsgAlign(n) = IF n % 2 = 0 THEN n ELSE n + 1
      /\ CmsgAlign(4 + n) = IF (4 + n) % 2 = 0 THEN 4 + n ELSE 4 + n + 1
  BY AlignFacts
<1>3. CmsgAlign(4 + n) % 2 = 0
  BY AlignFacts
<1> QED
  BY <1>1, <1>2, <1>3 DEF CmsgLen, CmsgSpace, Hdr

Message == [kind : Int, len : Int]

CmTypes ==
    /\ cm \in [buffer : Seq(Nat), usedSize : Nat]
    /\ cm.usedSize <= Len(cm.buffer) /\ Len(cm.buffer) < SizeT
    /\ it \in [ptr : Int, size : 0 .. SizeT - 1]
    /\ seen \in Seq(Message) /\ written \in Seq(Message) /\ made \in 0 .. MaxMessages

\* An iterator is at an aligned place, and not behind the end by more than the
\* padding of a message that ends unaligned.
IteratorOK ==
    \/ it = NoIterator
    \/ /\ it.ptr \in 0 .. cm.usedSize + 1 /\ it.ptr % 2 = 0
       /\ it.ptr <= cm.usedSize => it.ptr + it.size = cm.usedSize

\* The k-th message lies behind the first off[k - 1] cells.
Laid(off) ==
    /\ off[0] = 0 /\ off[Len(written)] = cm.usedSize
    /\ \A j, k \in 0 .. Len(written) : j < k => off[j] < off[k]
    /\ \A k \in 1 .. Len(written) :
         /\ off[k] = off[k - 1] + CmsgAlign(written[k].len)
         /\ written[k].len >= Hdr
         /\ cm.buffer[off[k - 1] + 1] = written[k].len /\ cm.buffer[off[k - 1] + 3] = written[k].kind

\* The iterator is in front of the first message that it has not seen.
Visited(off) ==
    it # NoIterator =>
        /\ Len(seen) <= Len(written) /\ it.ptr = off[Len(seen)]
        /\ \A k \in 1 .. Len(seen) : seen[k] = written[k]

Layout ==
    written # Unknown /\ cm.usedSize % 2 = 0 =>
        \E off \in [0 .. Len(written) -> 0 .. cm.usedSize] : Laid(off) /\ Visited(off)

\* The only message of an unaligned used size is one that recvmsg() has cut off, and
\* the iterator is in front of it, or behind it by its padding.
CutOff ==
    /\ written = <<>> => cm.usedSize = 0
    /\ written # Unknown /\ Len(written) = 1 /\ cm.usedSize % 2 # 0 =>
          /\ written[1].len = cm.usedSize /\ cm.usedSize >= Hdr
          /\ cm.buffer[1] = cm.usedSize /\ cm.buffer[3] = written[1].kind
          /\ it # NoIterator => \/ it.ptr = 0 /\ seen = <<>>
                                \/ it.ptr = cm.usedSize + 1 /\ seen = written

CmInv == CmTypes /\ IteratorOK /\ Layout /\ CutOff

\* The fields of the k-th message
LEMMA MessageLen ==
    ASSUME NEW q \in Seq(Message), NEW k \in 1 .. Len(q)
    PROVE  q[k] \in Message /\ q[k].kind \in Int /\ q[k].len \in Int
<1>1. q[k] \in Message
  OBVIOUS
<1> QED
  BY <1>1 DEF Message

\* A message with its header, aligned
LEMMA AlignAtLeast ==
    ASSUME NEW n \in Int, n >= Hdr
    PROVE  n \in Nat /\ CmsgAlign(n) \in Nat /\ CmsgAlign(n) >= 4 /\ n <= CmsgAlign(n)
<1>1. n \in Nat /\ n >= 4
  BY DEF Hdr
<1>2. CmsgAlign(n) = IF n % 2 = 0 THEN n ELSE n + 1
  BY <1>1, AlignFacts
<1> QED
  BY <1>1, <1>2

\* The header of a message is inside the bytes that are used.
LEMMA InsideCells ==
    ASSUME NEW u \in Nat, NEW a \in 0 .. u, NEW b \in 0 .. u, NEW len \in Nat, len >= 4, b = a + len
    PROVE  a + 1 \in 1 .. u /\ a + 3 \in 1 .. u
OBVIOUS

\* std::vector::resize() keeps the elements that remain.
LEMMA ResizeFacts ==
    ASSUME NEW b \in Seq(Nat), NEW n \in Nat
    PROVE  /\ Resize(b, n) \in Seq(Nat) /\ Len(Resize(b, n)) = n
           /\ \A i \in 1 .. n : i <= Len(b) => Resize(b, n)[i] = b[i]
<1> DEFINE e(i) == IF i <= Len(b) THEN b[i] ELSE 0
<1>1. \A i \in 1 .. n : e(i) \in Nat
  OBVIOUS
<1>2. Resize(b, n) = [i \in 1 .. n |-> e(i)]
  BY DEF Resize
<1>3. \A i \in 1 .. n : i <= Len(b) => e(i) = b[i]
  OBVIOUS
<1> HIDE DEF e
<1> QED
  BY <1>1, <1>2, <1>3

\* r is b with a message that was written behind the first at cells.
WriteDone(b, at, kind, len, r) ==
    /\ r \in Seq(Nat) /\ Len(r) = Len(b) /\ r[at + 1] = len /\ r[at + 3] = kind
    /\ \A i \in 1 .. at : r[i] = b[i]

\* Writing a message changes the cells of its header and its value only.
LEMMA WriteFacts ==
    ASSUME NEW b \in Seq(Nat), NEW at \in Nat, NEW kind \in Nat, NEW len \in Nat, at + 4 <= Len(b)
    PROVE  WriteDone(b, at, kind, len, Write(b, at, kind, len))
<1> DEFINE e(i) == CASE i = at + 1 -> len
                     [] i = at + 3 -> kind
                     [] i > at + Hdr /\ i <= at + len -> kind
                     [] OTHER -> b[i]
<1>1. Write(b, at, kind, len) = [i \in 1 .. Len(b) |-> e(i)]
  BY DEF Write
<1>2. ASSUME NEW i \in 1 .. Len(b)
      PROVE  e(i) = IF i = at + 1 THEN len ELSE IF i = at + 3 THEN kind
                    ELSE IF i > at + 4 /\ i <= at + len THEN kind ELSE b[i]
  <2>1. CASE i = at + 1
    <3>1. i # at + 3 /\ ~(i > at + Hdr)
      BY <2>1 DEF Hdr
    <3> QED
      BY <2>1, <3>1
  <2>2. CASE i = at + 3
    BY <2>2
  <2>3. CASE i > at + 4 /\ i <= at + len
    BY <2>3 DEF Hdr
  <2>4. CASE i # at + 1 /\ i # at + 3 /\ ~(i > at + 4 /\ i <= at + len)
    BY <2>4 DEF Hdr
  <2> QED
    BY <2>1, <2>2, <2>3, <2>4
<1> HIDE DEF e
<1>3. Len(b) \in Nat /\ \A i \in 1 .. Len(b) : e(i) \in Nat
  BY <1>2
<1>4. at + 1 \in 1 .. Len(b) /\ at + 3 \in 1 .. Len(b) /\ \A i \in 1 .. at : i \in 1 .. Len(b)
  BY <1>3
<1>5. e(at + 1) = len /\ e(at + 3) = kind
  BY <1>2, <1>4
<1>6. \A i \in 1 .. at : e(i) = b[i]
  BY <1>2, <1>4
<1> DEFINE w == [i \in 1 .. Len(b) |-> e(i)]
<1>7. w \in Seq(Nat) /\ Len(w) = Len(b) /\ \A i \in 1 .. Len(b) : w[i] = e(i)
  BY <1>3
<1>8. Write(b, at, kind, len) = w
  BY <1>1
<1> HIDE DEF w
<1> QED
  BY <1>4, <1>5, <1>6, <1>7, <1>8 DEF WriteDone

\* The inductive invariant holds in the beginning.
LEMMA CmInvInit == CmInit => CmInv
<1> SUFFICES ASSUME CmInit PROVE CmInv
  OBVIOUS
<1>1. cm = [buffer |-> <<>>, usedSize |-> 0] /\ it = NoIterator /\ seen = <<>> /\ written = <<>> /\ made = 0
  BY DEF CmInit
<1>2. CmTypes
  <2>1. SizeT \in Nat /\ SizeT > 0 /\ MaxMessages \in Nat
    BY CmAssumption
  <2>2. <<>> \in Seq(Nat) /\ <<>> \in Seq(Message) /\ Len(<<>>) = 0
    OBVIOUS
  <2>3. cm \in [buffer : Seq(Nat), usedSize : Nat] /\ cm.usedSize = 0 /\ cm.buffer = <<>>
    BY <1>1, <2>2
  <2>4. it \in [ptr : Int, size : 0 .. SizeT - 1]
    BY <1>1, <2>1 DEF NoIterator
  <2> QED
    BY <1>1, <2>1, <2>2, <2>3, <2>4 DEF CmTypes
<1>3. IteratorOK
  BY <1>1 DEF IteratorOK
<1>4. Layout
  <2> DEFINE off == [k \in 0 .. 0 |-> 0]
  <2>1. Len(written) = 0 /\ cm.usedSize = 0
    BY <1>1
  <2>2. off \in [0 .. Len(written) -> 0 .. cm.usedSize] /\ off[0] = 0
    BY <2>1
  <2>3. Laid(off) /\ Visited(off)
    BY <1>1, <2>1, <2>2 DEF Laid, Visited
  <2> QED
    BY <2>2, <2>3 DEF Layout
<1>5. CutOff
  BY <1>1 DEF CutOff
<1> QED
  BY <1>2, <1>3, <1>4, <1>5 DEF CmInv

\* Steps that leave the used cells and the messages as they are keep the layout.
LEMMA LayoutKept ==
    ASSUME CmInv, CmTypes', it' = NoIterator, written' = written, cm'.usedSize = cm.usedSize,
           \A i \in 1 .. cm.usedSize : cm'.buffer[i] = cm.buffer[i]
    PROVE  Layout' /\ CutOff'
<1>c. CutOff'
  <2>0. PICK u \in Nat : u = cm.usedSize
    BY DEF CmInv, CmTypes
  <2>1. cm.usedSize >= Hdr => 1 \in 1 .. cm.usedSize /\ 3 \in 1 .. cm.usedSize
    <3>1. u >= 4 => 1 \in 1 .. u /\ 3 \in 1 .. u
      OBVIOUS
    <3> QED
      BY <2>0, <3>1 DEF Hdr
  <2> QED
    BY <2>1 DEF CmInv, CutOff
<1> SUFFICES ASSUME written # Unknown, cm.usedSize % 2 = 0
             PROVE  \E off \in [0 .. Len(written) -> 0 .. cm.usedSize] : Laid(off)' /\ Visited(off)'
  BY <1>c DEF Layout
<1>1. PICK off \in [0 .. Len(written) -> 0 .. cm.usedSize] : Laid(off)
  BY DEF CmInv, Layout
<1>2. cm.usedSize \in Nat /\ Len(written) \in Nat /\ \A k \in 1 .. Len(written) : written[k].len \in Int
  <2>1. written \in Seq(Message) /\ cm.usedSize \in Nat
    BY DEF CmInv, CmTypes
  <2> QED
    BY <2>1, MessageLen
<1>3. ASSUME NEW k \in 1 .. Len(written)
      PROVE  off[k - 1] + 1 \in 1 .. cm.usedSize /\ off[k - 1] + 3 \in 1 .. cm.usedSize
  <2>1. off[k] \in 0 .. cm.usedSize /\ off[k - 1] \in 0 .. cm.usedSize
    <3>1. k \in 0 .. Len(written) /\ k - 1 \in 0 .. Len(written)
      BY <1>2
    <3> QED
      BY <3>1
  <2>2. off[k] = off[k - 1] + CmsgAlign(written[k].len) /\ written[k].len >= Hdr
    BY <1>1 DEF Laid
  <2>4. CmsgAlign(written[k].len) \in Nat /\ CmsgAlign(written[k].len) >= 4
    BY <1>2, <2>2, AlignAtLeast
  <2>5. PICK len \in Nat : len = CmsgAlign(written[k].len) /\ len >= 4
    BY <2>4
  <2> QED
    BY <1>2, <2>1, <2>2, <2>5, InsideCells
<1>4. Laid(off)'
  BY <1>1, <1>3 DEF Laid
<1>5. Visited(off)'
  BY DEF Visited
<1> QED
  BY <1>4, <1>5

\* append(): one more message behind the others
LEMMA AppendStep == ASSUME CmInv, NEW n \in ValueSizes, CmAppend(n) PROVE CmInv'
<1> USE DEF CmInv
<1> DEFINE used == cm.usedSize + CmsgSpace(n)
           bigger == Resize(cm.buffer, used)
           message == [kind |-> made + 1, len |-> CmsgLen(n)]
<1>1. /\ made < MaxMessages /\ it = NoIterator /\ used < SizeT
      /\ cm' = [buffer |-> Write(bigger, cm.usedSize, made + 1, CmsgLen(n)), usedSize |-> used]
      /\ written' = (IF written = Unknown THEN Unknown ELSE Append(written, message))
      /\ made' = made + 1 /\ it' = it /\ seen' = seen
  BY DEF CmAppend, Appended
<1>2. n \in Nat /\ MaxMessages \in Nat /\ SizeT \in Nat
  BY CmAssumption
<1>3. /\ CmsgLen(n) \in Nat /\ CmsgSpace(n) = CmsgAlign(CmsgLen(n)) /\ CmsgLen(n) <= CmsgSpace(n)
      /\ CmsgSpace(n) \in Nat /\ CmsgLen(n) >= 4 /\ CmsgSpace(n) % 2 = 0
  BY <1>2, SpaceFacts DEF Hdr
<1>4. cm.usedSize \in Nat /\ cm.buffer \in Seq(Nat) /\ cm.usedSize <= Len(cm.buffer) /\ made \in Nat
  BY DEF CmTypes
<1>5. used \in Nat /\ used >= cm.usedSize + 4
  BY <1>3, <1>4
<1>6. bigger \in Seq(Nat) /\ Len(bigger) = used /\ \A i \in 1 .. cm.usedSize : bigger[i] = cm.buffer[i]
  <2> HIDE DEF used
  <2>1. /\ bigger \in Seq(Nat) /\ Len(bigger) = used
        /\ \A i \in 1 .. used : i <= Len(cm.buffer) => bigger[i] = cm.buffer[i]
    BY <1>4, <1>5, ResizeFacts
  <2>2. \A i \in 1 .. cm.usedSize : i \in 1 .. used /\ i <= Len(cm.buffer)
    BY <1>4, <1>5
  <2> QED
    BY <2>1, <2>2
<1>7. message \in Message /\ message.kind = made + 1 /\ message.len = CmsgLen(n)
  BY <1>3, <1>4 DEF Message
<1> HIDE DEF used, bigger, message
<1>8. /\ cm'.buffer \in Seq(Nat) /\ Len(cm'.buffer) = used /\ cm'.usedSize = used
      /\ cm'.buffer[cm.usedSize + 1] = CmsgLen(n) /\ cm'.buffer[cm.usedSize + 3] = made + 1
      /\ \A i \in 1 .. cm.usedSize : cm'.buffer[i] = cm.buffer[i]
  <2>1. /\ cm.usedSize + 4 <= Len(bigger) /\ made + 1 \in Nat /\ CmsgLen(n) \in Nat
        /\ cm.usedSize \in Nat /\ bigger \in Seq(Nat)
    BY <1>3, <1>4, <1>5, <1>6
  <2>2. WriteDone(bigger, cm.usedSize, made + 1, CmsgLen(n), Write(bigger, cm.usedSize, made + 1, CmsgLen(n)))
    BY <2>1, WriteFacts
  <2>3. cm'.buffer = Write(bigger, cm.usedSize, made + 1, CmsgLen(n)) /\ cm'.usedSize = used
    BY <1>1
  <2>4. WriteDone(bigger, cm.usedSize, made + 1, CmsgLen(n), cm'.buffer)
    BY <2>2, <2>3
  <2> QED
    BY <1>6, <2>3, <2>4 DEF WriteDone
<1>9. CmTypes'
  <2>1. cm' \in [buffer : Seq(Nat), usedSize : Nat]
    BY <1>1, <1>5, <1>8
  <2>2. written' \in Seq(Message)
    BY <1>1, <1>7 DEF CmTypes
  <2>3. made' \in 0 .. MaxMessages
    BY <1>1, <1>2, <1>4
  <2> QED
    BY <1>1, <1>5, <1>8, <2>1, <2>2, <2>3 DEF CmTypes
<1>10. IteratorOK'
  BY <1>1 DEF IteratorOK
<1>11. Layout'
  <2> SUFFICES ASSUME written' # Unknown, used % 2 = 0
               PROVE  \E off \in [0 .. Len(written') -> 0 .. used] : Laid(off)' /\ Visited(off)'
    BY <1>8 DEF Layout
  <2>1. written # Unknown /\ written' = Append(written, message) /\ written \in Seq(Message)
    BY <1>1 DEF CmTypes
  <2>2. PICK m \in Nat : m = Len(written)
    BY <2>1
  <2>3. /\ Len(written') = m + 1 /\ written'[m + 1] = message
        /\ \A k \in 1 .. m : written'[k] = written[k]
    BY <2>1, <2>2
  <2>4. cm.usedSize % 2 = 0
    <3>1. (CmsgSpace(n) + cm.usedSize) % 2 = cm.usedSize % 2
      BY <1>3, <1>4, AlignSum
    <3>2. used = CmsgSpace(n) + cm.usedSize
      BY <1>3, <1>4 DEF used
    <3> QED
      BY <3>1, <3>2
  <2>5. PICK old \in [0 .. m -> 0 .. cm.usedSize] : Laid(old)
    BY <2>1, <2>2, <2>4 DEF Layout
  <2>6. PICK off \in [0 .. m + 1 -> 0 .. used] :
           off[m + 1] = used /\ \A k \in 0 .. m : off[k] = old[k] /\ old[k] \in 0 .. cm.usedSize
    <3> DEFINE new == [k \in 0 .. m + 1 |-> IF k <= m THEN old[k] ELSE used]
    <3>1. \A k \in 0 .. m : k <= m /\ k \in 0 .. m + 1 /\ old[k] \in 0 .. cm.usedSize /\ old[k] \in 0 .. used
      BY <1>4, <1>5
    <3>2. used \in 0 .. used /\ m + 1 \in 0 .. m + 1 /\ ~(m + 1 <= m)
      BY <1>5
    <3>3. \A k \in 0 .. m + 1 : k <= m => k \in 0 .. m
      OBVIOUS
    <3>4. new \in [0 .. m + 1 -> 0 .. used]
      BY <3>1, <3>2, <3>3
    <3>5. new[m + 1] = used /\ \A k \in 0 .. m : new[k] = old[k]
      BY <3>1, <3>2
    <3> HIDE DEF new
    <3> QED
      BY <3>1, <3>4, <3>5
  <2>7. old[0] = 0 /\ old[m] = cm.usedSize
    BY <2>2, <2>5 DEF Laid
  <2>8. off[0] = 0 /\ off[m] = cm.usedSize
    BY <2>6, <2>7
  <2>9. ASSUME NEW j \in 0 .. m + 1, NEW k \in 0 .. m + 1, j < k PROVE off[j] < off[k]
    <3>1. j \in 0 .. m
      BY <2>9
    <3>2. CASE k = m + 1
      BY <1>4, <1>5, <2>6, <3>1, <3>2
    <3>3. CASE k # m + 1
      <4>1. k \in 0 .. m
        BY <3>3
      <4> QED
        BY <2>2, <2>5, <2>6, <2>9, <3>1, <4>1 DEF Laid
    <3> QED
      BY <3>2, <3>3
  <2>10. ASSUME NEW k \in 1 .. m + 1
         PROVE  /\ off[k] = off[k - 1] + CmsgAlign(written'[k].len)
                /\ written'[k].len >= Hdr
                /\ cm'.buffer[off[k - 1] + 1] = written'[k].len /\ cm'.buffer[off[k - 1] + 3] = written'[k].kind
    <3>1. CASE k = m + 1
      <4>1. k - 1 = m /\ written'[k] = message
        BY <2>3, <3>1
      <4>2. off[k] = used /\ off[k - 1] = cm.usedSize
        BY <2>6, <2>8, <3>1, <4>1
      <4> QED
        BY <1>3, <1>7, <1>8, <4>1, <4>2 DEF used, Hdr
    <3>2. CASE k # m + 1
      <4>1. k \in 1 .. m /\ k \in 0 .. m /\ k - 1 \in 0 .. m
        BY <3>2
      <4>2. /\ old[k] = old[k - 1] + CmsgAlign(written[k].len) /\ written[k].len >= Hdr
            /\ cm.buffer[old[k - 1] + 1] = written[k].len /\ cm.buffer[old[k - 1] + 3] = written[k].kind
        BY <2>2, <2>5, <4>1 DEF Laid
      <4>3. off[k] = old[k] /\ off[k - 1] = old[k - 1] /\ written'[k] = written[k]
        BY <2>3, <2>6, <4>1
      <4>4. old[k - 1] + 1 \in 1 .. cm.usedSize /\ old[k - 1] + 3 \in 1 .. cm.usedSize
        <5>1. written[k].len \in Int
          BY <2>1, <2>2, <4>1, MessageLen
        <5>3. CmsgAlign(written[k].len) \in Nat /\ CmsgAlign(written[k].len) >= 4
          BY <4>2, <5>1, AlignAtLeast
        <5>4. old[k] \in 0 .. cm.usedSize /\ old[k - 1] \in 0 .. cm.usedSize
          BY <4>1
        <5> QED
          BY <1>4, <4>2, <5>3, <5>4, InsideCells
      <4> QED
        BY <1>8, <4>2, <4>3, <4>4
    <3> QED
      BY <3>1, <3>2
  <2>11. Laid(off)'
    BY <1>8, <2>3, <2>6, <2>8, <2>9, <2>10 DEF Laid
  <2>12. Visited(off)'
    BY <1>1 DEF Visited
  <2> QED
    BY <2>3, <2>6, <2>11, <2>12
<1>12. CutOff'
  <2>1. written' # <<>>
    <3>1. written \in Seq(Message)
      BY DEF CmTypes
    <3>2. Append(written, message) # <<>> /\ Unknown # <<>>
      BY <1>7, <3>1 DEF Unknown
    <3> QED
      BY <1>1, <3>2
  <2>2. ASSUME written' # Unknown, Len(written') = 1 PROVE used % 2 = 0
    <3>1. written \in Seq(Message) /\ written' = Append(written, message)
      BY <1>1, <2>2 DEF CmTypes
    <3>2. Len(written) = 0
      <4>1. PICK m \in Nat : m = Len(written)
        BY <3>1
      <4>2. Len(Append(written, message)) = m + 1
        BY <1>7, <3>1, <4>1
      <4>3. m + 1 = 1
        BY <2>2, <3>1, <4>2
      <4> QED
        BY <4>1, <4>3
    <3>4. written = <<>>
      BY <3>1, <3>2
    <3>3. used = CmsgSpace(n)
      BY <1>3, <3>4 DEF CutOff, used
    <3> QED
      BY <1>3, <3>3
  <2> QED
    BY <1>8, <2>1, <2>2 DEF CutOff
<1> QED
  BY <1>9, <1>10, <1>11, <1>12

\* The buffer grows, and what is used remains.
LEMMA ReserveStep == ASSUME CmInv, NEW n \in Capacities, CmReserve(n) PROVE CmInv'
<1> USE DEF CmInv
<1>1. /\ it = NoIterator /\ n >= cm.usedSize /\ cm' = [cm EXCEPT !.buffer = Resize(@, n)]
      /\ it' = it /\ seen' = seen /\ written' = written /\ made' = made
  BY DEF CmReserve
<1>2. n \in Nat /\ n < SizeT
  BY CmAssumption
<1>3. cm.buffer \in Seq(Nat) /\ cm.usedSize \in Nat /\ cm.usedSize <= Len(cm.buffer)
  BY DEF CmTypes
<1> DEFINE b == Resize(cm.buffer, n)
<1>4. b \in Seq(Nat) /\ Len(b) = n /\ \A i \in 1 .. n : i <= Len(cm.buffer) => b[i] = cm.buffer[i]
  BY <1>2, <1>3, ResizeFacts
<1>5. cm'.buffer = b /\ cm'.usedSize = cm.usedSize /\ cm' = [buffer |-> b, usedSize |-> cm.usedSize]
  BY <1>1 DEF CmTypes
<1> HIDE DEF b
<1>6. CmTypes'
  BY <1>1, <1>2, <1>3, <1>4, <1>5 DEF CmTypes
<1>7. IteratorOK'
  BY <1>1 DEF IteratorOK
<1>8. \A i \in 1 .. cm.usedSize : cm'.buffer[i] = cm.buffer[i]
  BY <1>1, <1>2, <1>3, <1>4, <1>5
<1>9. Layout' /\ CutOff'
  BY <1>1, <1>5, <1>6, <1>8, LayoutKept
<1> QED
  BY <1>6, <1>7, <1>9

\* After setting the used size by hand nothing is claimed of the messages.
LEMMA MarkUsedStep == ASSUME CmInv, NEW n \in Capacities, CmMarkUsed(n) PROVE CmInv'
<1> USE DEF CmInv
<1>1. /\ it = NoIterator /\ n <= Len(cm.buffer) /\ cm' = [cm EXCEPT !.usedSize = n] /\ written' = Unknown
      /\ it' = it /\ seen' = seen /\ made' = made
  <2>1. n \in Nat /\ Len(cm.buffer) \in Nat
    BY CmAssumption DEF CmTypes
  <2> QED
    BY <2>1 DEF CmMarkUsed, Overflow
<1>2. n \in Nat /\ Unknown \in Seq(Message)
  BY CmAssumption DEF Unknown, Message
<1>3. CmTypes'
  BY <1>1, <1>2 DEF CmTypes
<1>4. IteratorOK' /\ Layout' /\ CutOff'
  BY <1>1 DEF IteratorOK, Layout, CutOff, Unknown
<1> QED
  BY <1>3, <1>4

\* After copying raw bytes nothing is claimed of the messages.
LEMMA CopyBytesStep == ASSUME CmInv, NEW n \in Capacities, CmCopy(n) PROVE CmInv'
<1> USE DEF CmInv
<1>1. /\ it = NoIterator /\ n <= Len(cm.buffer) /\ cm' = [buffer |-> SubSeq(cm.buffer, 1, n), usedSize |-> n]
      /\ written' = (IF n = cm.usedSize THEN written ELSE Unknown)
      /\ it' = it /\ seen' = seen /\ made' = made
  BY DEF CmCopy, FromBytes
<1>2. n \in Nat /\ n < SizeT /\ Unknown \in Seq(Message) /\ cm.buffer \in Seq(Nat)
  BY CmAssumption DEF CmTypes, Unknown, Message
<1>3. /\ cm'.usedSize = n /\ cm'.buffer \in Seq(Nat) /\ Len(cm'.buffer) = n
      /\ \A i \in 1 .. n : cm'.buffer[i] = cm.buffer[i]
  <2> DEFINE b == SubSeq(cm.buffer, 1, n)
  <2>1. b \in Seq(Nat) /\ Len(b) = n /\ \A i \in 1 .. n : b[i] = cm.buffer[i]
    BY <1>1, <1>2
  <2> HIDE DEF b
  <2>2. cm'.usedSize = n /\ cm'.buffer = b
    BY <1>1 DEF b
  <2> QED
    BY <2>1, <2>2
<1>4. cm' \in [buffer : Seq(Nat), usedSize : Nat]
  BY <1>1, <1>2, <1>3
<1>5. written' \in Seq(Message)
  BY <1>1, <1>2 DEF CmTypes
<1>6. CmTypes'
  BY <1>1, <1>2, <1>3, <1>4, <1>5 DEF CmTypes
<1>7. IteratorOK'
  BY <1>1 DEF IteratorOK
<1>8. Layout' /\ CutOff'
  <2>1. CASE n = cm.usedSize
    BY <1>1, <1>3, <1>6, <2>1, LayoutKept
  <2>2. CASE n # cm.usedSize
    BY <1>1, <2>2 DEF Layout, CutOff, Unknown
  <2> QED
    BY <2>1, <2>2
<1> QED
  BY <1>6, <1>7, <1>8

\* What recvmsg() tells is the aligned length of what it has written, if aligned.
LEMMA ReceivedSize ==
    ASSUME NEW n \in Nat, NEW room \in Nat, NEW len, NEW used,
           len = IF CmsgLen(n) < room THEN CmsgLen(n) ELSE room,
           used = IF CmsgSpace(n) < room THEN CmsgSpace(n) ELSE room,
           used % 2 = 0
    PROVE  used = CmsgAlign(len)
<1>1. /\ CmsgLen(n) \in Nat /\ CmsgSpace(n) = CmsgAlign(CmsgLen(n)) /\ CmsgLen(n) <= CmsgSpace(n)
      /\ CmsgSpace(n) \in Nat
  BY SpaceFacts
<1>2. CASE CmsgSpace(n) < room
  BY <1>1, <1>2
<1>3. CASE ~(CmsgSpace(n) < room)
  <2>1. used = room /\ room % 2 = 0
    BY <1>3
  <2>2. CASE CmsgLen(n) < room
    <3>1. CmsgAlign(CmsgLen(n)) <= room
      BY <1>1, <2>1, <2>2, AlignBelow
    <3> QED
      BY <1>1, <1>3, <2>1, <2>2, <3>1
  <2>3. CASE ~(CmsgLen(n) < room)
    <3>1. CmsgAlign(room) = room
      BY <2>1, AlignFacts
    <3> QED
      BY <2>1, <2>3, <3>1
  <2> QED
    BY <2>2, <2>3
<1> QED
  BY <1>2, <1>3

\* An unaligned size is that of a message cut off to fill the room.
LEMMA CutOffSize ==
    ASSUME NEW n \in Nat, NEW room \in Nat, NEW len, NEW used,
           len = IF CmsgLen(n) < room THEN CmsgLen(n) ELSE room,
           used = IF CmsgSpace(n) < room THEN CmsgSpace(n) ELSE room,
           used % 2 # 0
    PROVE  used = len
<1>1. /\ CmsgLen(n) \in Nat /\ CmsgSpace(n) = CmsgAlign(CmsgLen(n)) /\ CmsgSpace(n) % 2 = 0
      /\ CmsgSpace(n) \in Nat
  BY SpaceFacts
<1>2. used = room /\ ~(CmsgSpace(n) < room) /\ CmsgSpace(n) # room
  BY <1>1
<1>3. CmsgSpace(n) = CmsgLen(n) \/ CmsgSpace(n) = CmsgLen(n) + 1
  BY <1>1, AlignFacts
<1>4. ~(CmsgLen(n) < room)
  BY <1>1, <1>2, <1>3
<1> QED
  BY <1>2, <1>4

\* recvmsg() wrote one message, as far as there was room.
LEMMA ReceiveStep == ASSUME CmInv, NEW n \in ValueSizes, CmReceive(n) PROVE CmInv'
<1> USE DEF CmInv
<1>1. n \in Nat /\ MaxMessages \in Nat /\ SizeT \in Nat
  BY CmAssumption
<1>r. PICK room \in Nat : room = Len(cm.buffer)
  BY DEF CmTypes
<1>l. PICK len : len = IF CmsgLen(n) < room THEN CmsgLen(n) ELSE room
  OBVIOUS
<1>u. PICK used : used = IF room < Hdr THEN 0 ELSE IF CmsgSpace(n) < room THEN CmsgSpace(n) ELSE room
  OBVIOUS
<1>2. /\ room = Len(cm.buffer)
      /\ len = IF CmsgLen(n) < room THEN CmsgLen(n) ELSE room
      /\ used = IF room < Hdr THEN 0 ELSE IF CmsgSpace(n) < room THEN CmsgSpace(n) ELSE room
  BY <1>r, <1>l, <1>u
<1>3. /\ made < MaxMessages /\ it = NoIterator
      /\ cm' = [buffer |-> IF room < Hdr THEN cm.buffer ELSE Write(cm.buffer, 0, made + 1, len),
                usedSize |-> used]
      /\ written' = (IF room < Hdr THEN <<>> ELSE <<[kind |-> made + 1, len |-> len]>>)
      /\ made' = made + 1 /\ it' = it /\ seen' = seen
  BY <1>2 DEF CmReceive
<1>4. cm.buffer \in Seq(Nat) /\ room < SizeT /\ made \in Nat
  BY <1>2 DEF CmTypes
<1>5. CmsgLen(n) \in Nat /\ CmsgSpace(n) \in Nat /\ CmsgLen(n) >= 4
  BY <1>1, SpaceFacts DEF Hdr
<1>6. len \in Nat /\ used \in Nat /\ used <= room
  BY <1>2, <1>5
<1>7. IteratorOK' /\ made' \in 0 .. MaxMessages
  BY <1>1, <1>3, <1>4 DEF IteratorOK
<1>8. CASE room < Hdr
  <2>1. used = 0 /\ cm'.buffer = cm.buffer /\ cm'.usedSize = 0 /\ written' = <<>>
    BY <1>2, <1>3, <1>8
  <2>2. cm' \in [buffer : Seq(Nat), usedSize : Nat]
    BY <1>3, <1>4, <1>6, <1>8
  <2>3. CmTypes'
    BY <1>2, <1>3, <1>4, <1>6, <1>7, <2>1, <2>2 DEF CmTypes
  <2>4. PICK off \in [0 .. 0 -> 0 .. 0] : off[0] = 0
    <3>1. [k \in 0 .. 0 |-> 0] \in [0 .. 0 -> 0 .. 0] /\ [k \in 0 .. 0 |-> 0][0] = 0
      OBVIOUS
    <3> QED
      BY <3>1
  <2>5. Len(written') = 0
    BY <2>1
  <2>6. Laid(off)' /\ Visited(off)'
    BY <1>3, <2>1, <2>4, <2>5 DEF Laid, Visited
  <2>7. Layout'
    BY <2>1, <2>4, <2>5, <2>6 DEF Layout
  <2>8. CutOff'
    BY <2>1, <2>5 DEF CutOff
  <2> QED
    BY <1>7, <2>3, <2>7, <2>8
<1>9. CASE ~(room < Hdr)
  <2>1. room >= 4 /\ len >= 4
    BY <1>2, <1>5, <1>9 DEF Hdr
  <2>2. WriteDone(cm.buffer, 0, made + 1, len, Write(cm.buffer, 0, made + 1, len))
    <3>1. 0 + 4 <= Len(cm.buffer) /\ made + 1 \in Nat /\ 0 \in Nat
      BY <1>2, <1>4, <2>1
    <3> QED
      BY <1>4, <1>6, <3>1, WriteFacts
  <2>3. /\ cm'.buffer = Write(cm.buffer, 0, made + 1, len) /\ cm'.usedSize = used
        /\ cm' = [buffer |-> cm'.buffer, usedSize |-> used]
    BY <1>3, <1>9
  <2>4. /\ cm'.buffer \in Seq(Nat) /\ Len(cm'.buffer) = room
        /\ cm'.buffer[0 + 1] = len /\ cm'.buffer[0 + 3] = made + 1
    BY <1>2, <2>2, <2>3 DEF WriteDone
  <2>5. cm' \in [buffer : Seq(Nat), usedSize : Nat]
    BY <1>6, <2>3, <2>4
  <2>6. PICK message \in Message : message.kind = made + 1 /\ message.len = len /\ written' = <<message>>
    <3>1. [kind |-> made + 1, len |-> len] \in Message
      BY <1>4, <1>6 DEF Message
    <3> QED
      BY <1>3, <1>9, <3>1
  <2>7. written' \in Seq(Message) /\ Len(written') = 1 /\ written'[1] = message
    BY <2>6
  <2>8. CmTypes'
    BY <1>3, <1>4, <1>6, <1>7, <2>3, <2>4, <2>5, <2>7 DEF CmTypes
  <2>9. Layout'
    <3> SUFFICES ASSUME used % 2 = 0
                 PROVE  \E off \in [0 .. 1 -> 0 .. used] : Laid(off)' /\ Visited(off)'
      BY <2>3, <2>7 DEF Layout
    <3>1. used = CmsgAlign(len)
      BY <1>1, <1>2, <1>9, ReceivedSize
    <3>2. used >= 4
      BY <1>6, <2>1, <3>1, AlignAtLeast DEF Hdr
    <3>3. PICK off \in [0 .. 1 -> 0 .. used] : off[0] = 0 /\ off[1] = used
      <4>1. 0 \in 0 .. used /\ used \in 0 .. used
        BY <1>6
      <4> DEFINE f == [k \in 0 .. 1 |-> IF k = 0 THEN 0 ELSE used]
      <4>2. f \in [0 .. 1 -> 0 .. used] /\ f[0] = 0 /\ f[1] = used
        BY <4>1
      <4> QED
        BY <4>2
    <3>4. \A j, k \in 0 .. 1 : j < k => off[j] < off[k]
      <4>1. \A j, k \in 0 .. 1 : j < k => j = 0 /\ k = 1
        OBVIOUS
      <4> QED
        BY <1>6, <3>2, <3>3, <4>1
    <3>5. ASSUME NEW k \in 1 .. 1
          PROVE  /\ off[k] = off[k - 1] + CmsgAlign(written'[k].len)
                 /\ written'[k].len >= Hdr
                 /\ cm'.buffer[off[k - 1] + 1] = written'[k].len /\ cm'.buffer[off[k - 1] + 3] = written'[k].kind
      <4>1. k = 1 /\ off[k - 1] = 0 /\ off[k] = used /\ written'[k] = message
        BY <2>7, <3>3
      <4>2. message.len >= Hdr
        BY <2>1, <2>6 DEF Hdr
      <4>3. off[k] = off[k - 1] + CmsgAlign(written'[k].len)
        BY <1>6, <2>6, <3>1, <4>1
      <4> QED
        BY <2>4, <2>6, <4>1, <4>2, <4>3
    <3>6. Laid(off)'
      BY <2>3, <2>7, <3>3, <3>4, <3>5 DEF Laid
    <3>7. Visited(off)'
      BY <1>3 DEF Visited
    <3> QED
      BY <3>6, <3>7
  <2>10. CutOff'
    <3>1. written' # <<>> /\ it' = NoIterator /\ used >= 4
      <4>1. used >= 4
        <5>1. CmsgSpace(n) >= 4
          BY <1>1, <1>5, SpaceFacts
        <5> QED
          BY <1>2, <1>5, <1>9, <2>1, <5>1
      <4> QED
        BY <1>3, <2>7, <4>1
    <3>2. used % 2 # 0 => used = len
      BY <1>1, <1>2, <1>9, CutOffSize
    <3> QED
      BY <2>3, <2>4, <2>6, <2>7, <3>1, <3>2 DEF CutOff, Hdr
  <2> QED
    BY <1>7, <2>8, <2>9, <2>10
<1> QED
  BY <1>8, <1>9

\* begin()
LEMMA BeginStep == ASSUME CmInv, CmBegin PROVE CmInv'
<1> USE DEF CmInv
<1>1. /\ it = NoIterator /\ it' = [ptr |-> 0, size |-> cm.usedSize] /\ seen' = <<>>
      /\ cm' = cm /\ written' = written /\ made' = made
  BY DEF CmBegin, Begin
<1>2. cm.usedSize \in Nat /\ cm.usedSize < SizeT /\ SizeT \in Nat
  BY CmAssumption DEF CmTypes
<1>3. it'.ptr = 0 /\ it'.size = cm.usedSize /\ it' \in [ptr : Int, size : 0 .. SizeT - 1]
  BY <1>1, <1>2
<1>4. CmTypes'
  BY <1>1, <1>3 DEF CmTypes
<1>5. IteratorOK'
  BY <1>1, <1>2, <1>3 DEF IteratorOK
<1>6. Layout'
  <2> SUFFICES ASSUME written # Unknown, cm.usedSize % 2 = 0
               PROVE  \E off \in [0 .. Len(written) -> 0 .. cm.usedSize] : Laid(off)' /\ Visited(off)'
    BY <1>1 DEF Layout
  <2>1. PICK off \in [0 .. Len(written) -> 0 .. cm.usedSize] : Laid(off)
    BY DEF Layout
  <2>2. Laid(off)'
    BY <1>1, <2>1 DEF Laid
  <2>3. Len(seen') = 0 /\ Len(written) \in Nat /\ off[0] = 0
    BY <1>1, <2>1 DEF Laid, CmTypes
  <2>4. Visited(off)'
    BY <1>1, <1>3, <2>3 DEF Visited
  <2> QED
    BY <2>2, <2>4
<1>7. CutOff'
  BY <1>1, <1>3 DEF CutOff
<1> QED
  BY <1>4, <1>5, <1>6, <1>7

\* The iterator is dropped, at the end or by an exception.
LEMMA LeaveStep ==
    ASSUME CmInv, it' = NoIterator, UNCHANGED <<cm, seen, written, made>> PROVE CmInv'
<1> USE DEF CmInv
<1>1. NoIterator \in [ptr : Int, size : 0 .. SizeT - 1]
  BY CmAssumption DEF NoIterator
<1>2. CmTypes'
  BY <1>1 DEF CmTypes
<1>3. IteratorOK'
  BY DEF IteratorOK
<1>4. Layout' /\ CutOff'
  BY <1>2, LayoutKept
<1> QED
  BY <1>2, <1>3, <1>4

\* What the width of size_t does to a number
LEMMA ModFacts ==
    ASSUME NEW x \in Int, NEW m \in Nat \ {0}
    PROVE  x % m \in 0 .. m - 1 /\ (x \in 0 .. m - 1 => x % m = x)
OBVIOUS

\* One message is looked at and the iterator moves on, or is refused.
LEMMA VisitStep == ASSUME CmInv, CmVisit PROVE CmInv'
<1> USE DEF CmInv
<1>1. it # NoIterator /\ it.ptr < cm.usedSize /\ cm' = cm /\ written' = written /\ made' = made
  BY DEF CmVisit
<1>2. CASE BadCMSG(cm, it)
  BY <1>1, <1>2, LeaveStep DEF CmVisit
<1>3. CASE ~BadCMSG(cm, it)
  <2>1. PICK ptr \in Nat, size \in Nat : ptr = it.ptr /\ size = it.size /\ size \in 0 .. SizeT - 1
    BY <1>1 DEF IteratorOK, CmTypes
  <2>2. /\ cm.usedSize \in Nat /\ cm.buffer \in Seq(Nat) /\ cm.usedSize <= Len(cm.buffer)
        /\ Len(cm.buffer) \in Nat /\ SizeT \in Nat \ {0}
    BY CmAssumption DEF CmTypes
  <2>3. ptr < cm.usedSize /\ ptr + size = cm.usedSize /\ ptr % 2 = 0
    BY <1>1, <2>1, <2>2 DEF IteratorOK
  <2>4. PICK len \in Nat : len = cm.buffer[ptr + 1]
    BY <2>2, <2>3
  <2>5. size >= 4 /\ len >= 4 /\ len <= size
    <3>1. ~(size < 4) /\ ~(len < 4) /\ ~(size < len)
      BY <1>3, <2>1, <2>4 DEF BadCMSG, Hdr
    <3> QED
      BY <3>1
  <2>6. PICK kind \in Nat : kind = cm.buffer[ptr + 3]
    <3>1. ptr + 3 \in 1 .. Len(cm.buffer)
      BY <2>2, <2>3, <2>5
    <3> QED
      BY <2>2, <3>1
  <2>7. PICK asize \in Nat : asize = CmsgAlign(len) /\ asize % 2 = 0 /\ asize <= len + 1 /\ len <= asize
    BY AlignFacts
  <2>8. PICK message \in Message : message = [kind |-> kind, len |-> len]
    <3>1. [kind |-> kind, len |-> len] \in Message
      BY DEF Message
    <3> QED
      BY <3>1
  <2>9. seen' = Append(seen, message) /\ it' = [ptr |-> ptr + asize, size |-> (size - asize) % SizeT]
    BY <1>1, <1>3, <2>1, <2>4, <2>6, <2>7, <2>8 DEF CmVisit, Increment
  <2>10. (size - asize) % SizeT \in 0 .. SizeT - 1 /\ (asize <= size => (size - asize) % SizeT = size - asize)
    <3>1. size - asize \in Int /\ (asize <= size => size - asize \in 0 .. SizeT - 1)
      BY <2>1, <2>2
    <3> QED
      BY <2>2, <3>1, ModFacts
  <2>11. PICK rest \in 0 .. SizeT - 1 : rest = (size - asize) % SizeT /\ (asize <= size => rest = size - asize)
    BY <2>10
  <2>12. it'.ptr = ptr + asize /\ it'.size = rest /\ it' \in [ptr : Int, size : 0 .. SizeT - 1]
    BY <2>9, <2>11
  <2>13. CmTypes'
    BY <1>1, <2>9, <2>12 DEF CmTypes
  <2>14. IteratorOK'
    <3>1. (ptr + asize) % 2 = 0
      BY <2>3, <2>7, AlignSum
    <3>2. ptr + asize \in 0 .. cm.usedSize + 1
      BY <2>2, <2>3, <2>5, <2>7
    <3>3. ptr + asize <= cm.usedSize => ptr + asize + rest = cm.usedSize
      <4>1. ptr + asize <= cm.usedSize => asize <= size
        BY <2>2, <2>3
      <4>2. asize <= size => rest = size - asize
        BY <2>11
      <4> QED
        BY <2>2, <2>3, <4>1, <4>2
    <3> QED
      BY <1>1, <2>12, <3>1, <3>2, <3>3 DEF IteratorOK
  <2>15. Layout'
    <3> SUFFICES ASSUME written # Unknown, cm.usedSize % 2 = 0
                 PROVE  \E off \in [0 .. Len(written) -> 0 .. cm.usedSize] : Laid(off)' /\ Visited(off)'
      BY <1>1 DEF Layout
    <3>1. PICK off \in [0 .. Len(written) -> 0 .. cm.usedSize] : Laid(off) /\ Visited(off)
      BY DEF Layout
    <3>2. Laid(off)'
      BY <1>1, <3>1 DEF Laid
    <3>3. PICK m \in Nat, n \in Nat : m = Len(seen) /\ n = Len(written)
      BY DEF CmTypes
    <3>4. m <= n /\ ptr = off[m] /\ \A k \in 1 .. m : seen[k] = written[k]
      BY <1>1, <2>1, <3>1, <3>3 DEF Visited
    <3>5. m # n
      <4>1. off[n] = cm.usedSize
        BY <3>1, <3>3 DEF Laid
      <4> QED
        BY <2>3, <3>4, <4>1
    <3>6. m + 1 \in 1 .. n /\ m + 1 - 1 = m
      BY <3>4, <3>5
    <3>7. /\ off[m + 1] = off[m] + CmsgAlign(written[m + 1].len)
          /\ cm.buffer[off[m] + 1] = written[m + 1].len /\ cm.buffer[off[m] + 3] = written[m + 1].kind
      BY <3>1, <3>3, <3>6 DEF Laid
    <3>8. written[m + 1].len = len /\ written[m + 1].kind = kind /\ off[m + 1] = ptr + asize
      BY <2>4, <2>6, <2>7, <3>4, <3>7
    <3>9. written[m + 1] = message
      <4>1. written[m + 1] \in Message
        BY <3>3, <3>6, MessageLen DEF CmTypes
      <4> QED
        BY <2>8, <3>8, <4>1 DEF Message
    <3>10. Len(seen') = m + 1 /\ seen'[m + 1] = message /\ \A k \in 1 .. m : seen'[k] = seen[k]
      BY <2>9, <3>3 DEF CmTypes
    <3>11. \A k \in 1 .. m + 1 : seen'[k] = written[k]
      <4>1. \A k \in 1 .. m + 1 : k = m + 1 \/ k \in 1 .. m
        OBVIOUS
      <4> QED
        BY <3>4, <3>9, <3>10, <4>1
    <3>12. Visited(off)'
      <4>1. Len(seen') <= Len(written)
        BY <3>3, <3>6, <3>10
      <4> QED
        BY <1>1, <2>12, <3>8, <3>10, <3>11, <4>1 DEF Visited
    <3> QED
      BY <3>2, <3>12
  <2>16. CutOff'
    <3> SUFFICES ASSUME written # Unknown, Len(written) = 1, cm.usedSize % 2 # 0
                 PROVE  it'.ptr = cm.usedSize + 1 /\ seen' = written
      BY <1>1 DEF CutOff
    <3>1. /\ written[1].len = cm.usedSize /\ cm.buffer[1] = cm.usedSize /\ cm.buffer[3] = written[1].kind
          /\ ptr = 0 /\ seen = <<>>
      BY <1>1, <2>1, <2>2, <2>3 DEF CutOff
    <3>2. len = cm.usedSize /\ kind = written[1].kind
      BY <2>4, <2>6, <3>1
    <3>3. asize = cm.usedSize + 1
      BY <2>2, <2>7, <3>2, AlignFacts
    <3>4. written[1] = message
      <4>1. written[1] \in Message
        <5>1. written \in Seq(Message) /\ 1 \in 1 .. Len(written)
          BY DEF CmTypes
        <5> QED
          BY <5>1, MessageLen
      <4> QED
        BY <2>8, <3>1, <3>2, <4>1 DEF Message
    <3>5. written = <<message>> /\ seen' = <<message>>
      BY <2>9, <3>1, <3>4 DEF CmTypes
    <3> QED
      BY <2>2, <2>12, <3>1, <3>3, <3>5
  <2> QED
    BY <2>13, <2>14, <2>15, <2>16
<1> QED
  BY <1>2, <1>3

\* Every step keeps the inductive invariant.
LEMMA CmInvStep == CmInv /\ [CmNext]_cmVars => CmInv'
<1> SUFFICES ASSUME CmInv, [CmNext]_cmVars PROVE CmInv'
  OBVIOUS
<1>1. CASE CmEnd
  BY <1>1, LeaveStep DEF CmEnd
<1>2. CASE UNCHANGED cmVars
  BY <1>2 DEF cmVars, CmInv, CmTypes, IteratorOK, Layout, Laid, Visited, CutOff
<1> QED
  BY <1>1, <1>2, AppendStep, ReceiveStep, ReserveStep, MarkUsedStep, CopyBytesStep, BeginStep, VisitStep DEF CmNext

\* The inductive invariant implies what the run checks.
LEMMA CmInvMeans == CmInv => IterationSound
<1> SUFFICES ASSUME CmInv PROVE IterationSound
  OBVIOUS
<1> USE DEF CmInv
<1>1. CmTypeOK
  <2>1. it.ptr \in Nat \cup {-1}
    BY DEF IteratorOK, CmTypes, NoIterator
  <2> QED
    BY <2>1 DEF CmTypes, CmTypeOK
<1>2. cm.usedSize \in Nat /\ cm.buffer \in Seq(Nat) /\ cm.usedSize <= Len(cm.buffer)
  BY DEF CmTypes
<1>3. /\ CmsgAlign(cm.usedSize) = cm.usedSize => cm.usedSize % 2 = 0
      /\ cm.usedSize % 2 # 0 => CmsgAlign(cm.usedSize) = cm.usedSize + 1
  BY <1>2, AlignFacts
<1>4. ASSUME it # NoIterator, cm.usedSize % 2 = 0
      PROVE  it.ptr \in Nat /\ it.size \in Nat /\ it.ptr + it.size = cm.usedSize
  <2>1. it.ptr \in 0 .. cm.usedSize + 1 /\ it.ptr % 2 = 0 /\ it.size \in Nat
    BY <1>4 DEF IteratorOK, CmTypes
  <2>2. (cm.usedSize + 1) % 2 = 1 % 2
    BY <1>2, <1>4, AlignSum
  <2>3. it.ptr # cm.usedSize + 1
    BY <2>1, <2>2
  <2>4. it.ptr <= cm.usedSize
    BY <1>2, <2>1, <2>3
  <2> QED
    BY <1>4, <2>1, <2>4 DEF IteratorOK
<1>5. IteratorInside
  <2>1. CASE cm.usedSize % 2 = 0
    BY <1>4, <2>1 DEF IteratorInside
  <2>2. ASSUME cm.usedSize % 2 # 0, it # NoIterator
        PROVE  it.ptr + it.size = cm.usedSize \/ (cm.usedSize < it.ptr /\ it.ptr = CmsgAlign(cm.usedSize))
    <3>1. it.ptr \in 0 .. cm.usedSize + 1 /\ (it.ptr <= cm.usedSize => it.ptr + it.size = cm.usedSize)
      BY <2>2 DEF IteratorOK
    <3> QED
      BY <1>2, <1>3, <2>2, <3>1
  <2> QED
    BY <2>1, <2>2 DEF IteratorInside
<1>7. ASSUME it # NoIterator, written # Unknown, cm.usedSize % 2 # 0, Len(written) = 1
      PROVE  /\ SubSeq(written, 1, Len(seen)) = seen
             /\ IF it.ptr < cm.usedSize THEN ~BadCMSG(cm, it) ELSE seen = written
  <2>1. /\ cm.usedSize >= 4 /\ cm.buffer[1] = cm.usedSize
        /\ \/ it.ptr = 0 /\ seen = <<>>
           \/ it.ptr = cm.usedSize + 1 /\ seen = written
    BY <1>7 DEF CutOff, Hdr
  <2>2. written \in Seq(Message)
    BY DEF CmTypes
  <2>3. CASE it.ptr = 0 /\ seen = <<>>
    <3>1. it.size = cm.usedSize
      BY <1>2, <1>7, <2>3 DEF IteratorOK, CmTypes
    <3>2. ~BadCMSG(cm, it)
      BY <1>2, <2>1, <2>3, <3>1 DEF BadCMSG, Hdr
    <3>3. Len(seen) = 0 /\ SubSeq(written, 1, 0) = <<>>
      BY <2>2, <2>3
    <3> QED
      BY <1>2, <2>1, <2>3, <3>2, <3>3
  <2>4. CASE it.ptr = cm.usedSize + 1 /\ seen = written
    <3>1. SubSeq(written, 1, Len(written)) = written
      BY <2>2
    <3> QED
      BY <1>2, <2>4, <3>1
  <2> QED
    BY <2>1, <2>3, <2>4
<1>6. AllSeen
  <2> SUFFICES ASSUME it # NoIterator, written # Unknown, cm.usedSize % 2 = 0
               PROVE  /\ SubSeq(written, 1, Len(seen)) = seen
                      /\ IF it.ptr < cm.usedSize THEN ~BadCMSG(cm, it) ELSE seen = written
    BY <1>3, <1>7 DEF AllSeen
  <2>1. PICK off \in [0 .. Len(written) -> 0 .. cm.usedSize] : Laid(off) /\ Visited(off)
    BY DEF Layout
  <2>2. PICK m \in Nat, n \in Nat : m = Len(seen) /\ n = Len(written)
    BY DEF CmTypes
  <2>3. m <= n /\ it.ptr = off[m] /\ \A k \in 1 .. m : seen[k] = written[k]
    BY <2>1, <2>2 DEF Visited
  <2>4. seen \in Seq(Message) /\ written \in Seq(Message)
    BY DEF CmTypes
  <2>5. SubSeq(written, 1, Len(seen)) = seen
    <3> DEFINE q == SubSeq(written, 1, Len(seen))
    <3>1. q \in Seq(Message) /\ Len(q) = m /\ \A k \in 1 .. m : q[k] = written[k]
      BY <2>2, <2>3, <2>4
    <3> HIDE DEF q
    <3>2. q = seen
      BY <2>2, <2>3, <2>4, <3>1
    <3> QED
      BY <3>2 DEF q
  <2>6. CASE ~(it.ptr < cm.usedSize)
    <3>1. off[m] = cm.usedSize /\ off[n] = cm.usedSize
      <4>1. it.ptr = cm.usedSize
        BY <1>2, <1>4, <2>6
      <4> QED
        BY <2>1, <2>2, <2>3, <4>1 DEF Laid
    <3>2. ~(off[m] < off[n])
      BY <1>2, <3>1
    <3>3. m = n
      BY <2>1, <2>2, <2>3, <3>2 DEF Laid
    <3>4. seen = written
      <4>1. Len(seen) = Len(written) /\ \A k \in 1 .. Len(written) : seen[k] = written[k]
        BY <2>2, <2>3, <3>3
      <4> QED
        BY <2>4, <4>1
    <3> QED
      BY <2>5, <2>6, <3>4
  <2>7. CASE it.ptr < cm.usedSize
    <3>1. it.ptr # cm.usedSize
      BY <1>2, <2>7
    <3>2. m # n
      BY <2>1, <2>2, <2>3, <3>1 DEF Laid
    <3>3. m + 1 \in 1 .. n /\ m + 1 - 1 = m /\ m + 1 \in 0 .. n /\ n \in 0 .. n /\ m \in 0 .. n
      BY <2>3, <3>2
    <3>4. /\ off[m + 1] = off[m] + CmsgAlign(written[m + 1].len) /\ written[m + 1].len >= Hdr
          /\ cm.buffer[off[m] + 1] = written[m + 1].len
      BY <2>1, <2>2, <3>3 DEF Laid
    <3>5. off[m + 1] \in 0 .. cm.usedSize /\ off[m] \in 0 .. cm.usedSize
      BY <2>2, <3>3
    <3>6. PICK len \in Int : len = written[m + 1].len
      BY <2>2, <2>4, <3>3, MessageLen
    <3>7. len >= 4 /\ CmsgAlign(len) \in Nat /\ len <= CmsgAlign(len)
      BY <3>4, <3>6, AlignAtLeast DEF Hdr
    <3>8. it.ptr + it.size = cm.usedSize /\ it.size \in Nat /\ it.ptr \in Nat
      BY <1>4
    <3>9. off[m] + CmsgAlign(len) <= cm.usedSize /\ it.ptr = off[m]
      BY <1>2, <2>3, <3>4, <3>5, <3>6
    <3>10. it.size >= len
      <4>1. PICK p \in Nat, z \in Nat, u \in Nat, c \in Nat :
              p = it.ptr /\ z = it.size /\ u = cm.usedSize /\ c = CmsgAlign(len)
        BY <1>2, <3>7, <3>8
      <4>2. p + z = u /\ p + c <= u /\ len <= c
        BY <3>7, <3>8, <3>9, <4>1
      <4>3. z >= len
        BY <4>2
      <4> QED
        BY <4>1, <4>3
    <3>11. cm.buffer[it.ptr + 1] = len
      BY <3>4, <3>6, <3>9
    <3>12. ~BadCMSG(cm, it)
      BY <3>7, <3>8, <3>10, <3>11 DEF BadCMSG, Hdr
    <3> QED
      BY <2>5, <2>7, <3>12
  <2> QED
    BY <2>6, <2>7
<1> QED
  BY <1>1, <1>5, <1>6 DEF IterationSound

-----------------------------------------------------------------------------
(* SocketAddress *)

AddressType == [mem : [1 .. MemSize -> Nat], used : 0 .. Modulus - 1]

\* An address: the padding is zero and the cells of a port are bits.  The used size
\* is any number.
Well(s) ==
    /\ s \in AddressType
    /\ s.mem[MemSize] = 0
    /\ s.mem[1] \in {IPv4, IPv6} => s.mem[2] \in {0, 1} /\ s.mem[3] \in {0, 1}

\* The sizes, in numbers
LEMMA SizeFacts ==
    /\ PathSize \in Nat /\ PathSize >= 5 /\ MemSize = PathSize + 2 /\ MemSize \in Nat /\ MemSize >= 7
    /\ SizeUn = PathSize + 1 /\ SizeIn = 4 /\ SizeIn6 = 6 /\ Off = 1
    /\ Modulus \in Nat /\ MemSize + 1 < Modulus
BY SizesAssumption DEF MemSize, SizeUn, SizeIn, SizeIn6, Off

\* The memory and the used size of a proper address
LEMMA WellMem ==
    ASSUME NEW s, Well(s)
    PROVE  /\ s.mem \in [1 .. MemSize -> Nat] /\ s.used \in 0 .. Modulus - 1 /\ s.used \in Nat
           /\ \A i \in 1 .. MemSize : s.mem[i] \in Nat
BY SizeFacts DEF Well, AddressType

\* The used size is inside the union, as the factories and the kernel make it.
Fits(s) == Well(s) /\ s.used <= MemSize

-----------------------------------------------------------------------------
(* operator < and operator == *)

\* operator < and operator == exclude each other and leave nothing out.
LEMMA Ordered ==
    ASSUME NEW s, NEW t, Well(s), Fits(t)
    PROVE  /\ Equal(s, t) => ~Less(s, t)
           /\ ~(Less(s, t) /\ Less(t, s))
           /\ Less(s, t) \/ Less(t, s) \/ Equal(s, t)
<1>1. /\ s.used \in Nat /\ t.used \in 0 .. MemSize /\ MemSize \in Nat
      /\ \A i \in 1 .. MemSize : s.mem[i] \in Nat /\ t.mem[i] \in Nat
  BY WellMem, SizeFacts DEF Fits
<1>2. CASE s.used # t.used
  BY <1>1, <1>2 DEF Equal, Less
<1>3. CASE s.used = t.used
  <2> DEFINE n == s.used
             D == {i \in 1 .. n : s.mem[i] # t.mem[i]}
  <2>1. Differing(s, t, s.used) = D /\ Differing(t, s, t.used) = D
    BY <1>3 DEF Differing
  <2>2. Less(s, t) <=> \E i \in D : s.mem[i] < t.mem[i] /\ \A j \in D : i <= j
    BY <1>1, <1>3, <2>1 DEF Less, Below
  <2>3. Less(t, s) <=> \E i \in D : t.mem[i] < s.mem[i] /\ \A j \in D : i <= j
    BY <1>1, <1>3, <2>1 DEF Less, Below
  <2>4. Equal(s, t) <=> D = {}
    BY <1>3, <2>1 DEF Equal
  <2>5. /\ D \subseteq Nat
        /\ \A i \in D : i \in 1 .. MemSize /\ s.mem[i] \in Nat /\ t.mem[i] \in Nat /\ s.mem[i] # t.mem[i]
    BY <1>1, <1>3
  <2> HIDE DEF D
  <2>6. Equal(s, t) => ~Less(s, t)
    BY <2>2, <2>4
  <2>7. ~(Less(s, t) /\ Less(t, s))
    <3> SUFFICES ASSUME Less(s, t), Less(t, s) PROVE FALSE
      OBVIOUS
    <3>1. PICK i \in D : s.mem[i] < t.mem[i] /\ \A j \in D : i <= j
      BY <2>2
    <3>2. PICK k \in D : t.mem[k] < s.mem[k] /\ \A j \in D : k <= j
      BY <2>3
    <3>3. i = k
      BY <2>5, <3>1, <3>2
    <3> QED
      BY <2>5, <3>1, <3>2, <3>3
  <2>8. Less(s, t) \/ Less(t, s) \/ Equal(s, t)
    <3> SUFFICES ASSUME D # {} PROVE Less(s, t) \/ Less(t, s)
      BY <2>4
    <3>1. PICK i \in D : \A j \in D : i <= j
      BY <2>5, LeastSignal
    <3>2. s.mem[i] < t.mem[i] \/ t.mem[i] < s.mem[i]
      BY <2>5
    <3> QED
      BY <2>2, <2>3, <3>1, <3>2
  <2> QED
    BY <2>6, <2>7, <2>8
<1> QED
  BY <1>2, <1>3

-----------------------------------------------------------------------------
(* The factories *)

\* What a factory makes of cells that do not reach the padding
LEMMA MakeFacts ==
    ASSUME NEW cells \in Seq(Nat), Len(cells) <= SizeUn, NEW size \in 0 .. MemSize
    PROVE  /\ Make(cells, size) \in AddressType /\ Make(cells, size).used = size
           /\ Make(cells, size).mem[MemSize] = 0
           /\ \A i \in 1 .. MemSize : Make(cells, size).mem[i] = IF i <= Len(cells) THEN cells[i] ELSE 0
<1> DEFINE e(i) == IF i <= Len(cells) THEN cells[i] ELSE 0
           m == [i \in 1 .. MemSize |-> e(i)]
<1>1. Make(cells, size) = [mem |-> m, used |-> size]
  BY DEF Make, Padded
<1>2. \A i \in 1 .. MemSize : e(i) \in Nat
  OBVIOUS
<1>3. MemSize \in 1 .. MemSize /\ ~(MemSize <= Len(cells))
  BY SizeFacts
<1>4. e(MemSize) = 0
  BY <1>3
<1>5. \A i \in 1 .. MemSize : m[i] = IF i <= Len(cells) THEN cells[i] ELSE 0
  OBVIOUS
<1> HIDE DEF e
<1>6. m \in [1 .. MemSize -> Nat] /\ m[MemSize] = 0
  BY <1>2, <1>3, <1>4
<1>7. size \in 0 .. Modulus - 1
  BY SizeFacts
<1> HIDE DEF m
<1> QED
  BY <1>1, <1>5, <1>6, <1>7 DEF AddressType

\* The cells of a Unix address
UnixCells(s, path, size) ==
    /\ s \in AddressType /\ s.mem[1] = Unix /\ s.used = size /\ s.mem[MemSize] = 0
    /\ \A i \in 1 .. Len(path) : s.mem[i + 1] = path[i]
    /\ \A i \in 1 .. MemSize : i > Len(path) + 1 => s.mem[i] = 0

\* What a factory makes of a path
LEMMA UnixFacts ==
    ASSUME NEW path \in Seq(Nat), Len(path) <= PathSize, NEW size \in 1 .. MemSize
    PROVE  /\ UnixCells(Make(<<Unix>> \o path, size), path, size)
           /\ Fits(Make(<<Unix>> \o path, size))
<1> DEFINE cells == <<Unix>> \o path
           s == Make(cells, size)
<1>1. /\ cells \in Seq(Nat) /\ Len(cells) = Len(path) + 1 /\ cells[1] = Unix /\ Len(path) \in Nat
      /\ \A i \in 1 .. Len(path) : cells[i + 1] = path[i]
  BY DEF Unix
<1>2. Len(cells) <= SizeUn /\ size \in 0 .. MemSize
  BY <1>1, SizeFacts
<1> HIDE DEF cells
<1>3. /\ s \in AddressType /\ s.used = size /\ s.mem[MemSize] = 0
      /\ \A i \in 1 .. MemSize : s.mem[i] = IF i <= Len(cells) THEN cells[i] ELSE 0
  BY <1>1, <1>2, MakeFacts
<1> HIDE DEF s
<1>4. s.mem[1] = Unix
  BY <1>1, <1>3, SizeFacts
<1>5. ASSUME NEW i \in 1 .. Len(path) PROVE s.mem[i + 1] = path[i]
  <2>1. i + 1 \in 1 .. MemSize /\ i + 1 <= Len(cells)
    BY <1>1, SizeFacts
  <2> QED
    BY <1>1, <1>3, <2>1
<1>6. ASSUME NEW i \in 1 .. MemSize, i > Len(path) + 1 PROVE s.mem[i] = 0
  BY <1>1, <1>3, <1>6
<1>7. UnixCells(s, path, size)
  BY <1>3, <1>4, <1>5, <1>6 DEF UnixCells
<1>8. Fits(s)
  BY <1>3, <1>4, SizeFacts DEF Fits, Well, Unix, IPv4, IPv6
<1> QED
  BY <1>7, <1>8 DEF s, cells

-----------------------------------------------------------------------------
(* The text of a Unix address *)

\* The size that outputUnix() is given: a used size below offsetof(sun_path) wraps.
LEMMA PathLengthIs ==
    ASSUME NEW s, Well(s)
    PROVE  PathLength(s) \in Nat /\ (s.used >= 1 => PathLength(s) = s.used - 1)
<1>1. PICK u \in 0 .. Modulus - 1 : u = s.used
  BY WellMem
<1>2. Modulus \in Nat \ {0} /\ u - 1 \in Int /\ (u >= 1 => u - 1 \in 0 .. Modulus - 1)
  BY SizeFacts
<1>3. (u - 1) % Modulus \in 0 .. Modulus - 1 /\ (u - 1 \in 0 .. Modulus - 1 => (u - 1) % Modulus = u - 1)
  BY <1>2, ModFacts
<1>4. PathLength(s) = (u - 1) % Modulus
  BY <1>1 DEF PathLength, Off
<1> QED
  BY <1>1, <1>2, <1>3, <1>4

\* The loop of outputUnix() stops at n.
StopsAt(s, n) ==
    /\ n >= PathLength(s) \/ s.mem[Off + n + 1] = NUL
    /\ \A i \in FirstChar(s) .. n - 1 : i < PathLength(s) /\ s.mem[Off + i + 1] # NUL

\* The loop of outputUnix() stops at one place only,
LEMMA EndIs ==
    ASSUME NEW s, Well(s), NEW n \in FirstChar(s) .. MemSize, StopsAt(s, n)
    PROVE  EndOfPath(s) = n
<1>1. FirstChar(s) \in Nat /\ PathLength(s) \in Int /\ MemSize \in Nat
  BY PathLengthIs, SizeFacts DEF FirstChar
<1>2. ASSUME NEW k \in FirstChar(s) .. MemSize, StopsAt(s, k), k # n PROVE FALSE
  <2>1. CASE k < n
    <3>1. k \in FirstChar(s) .. n - 1 /\ k \in Int
      BY <1>1, <2>1
    <3> QED
      BY <1>1, <1>2, <3>1 DEF StopsAt
  <2>2. CASE n < k
    <3>1. n \in FirstChar(s) .. k - 1 /\ n \in Int
      BY <1>1, <2>2
    <3> QED
      BY <1>1, <1>2, <3>1 DEF StopsAt
  <2> QED
    BY <1>1, <1>2, <2>1, <2>2
<1>3. EndOfPath(s) = CHOOSE k \in FirstChar(s) .. MemSize : StopsAt(s, k)
  BY DEF EndOfPath, StopsAt
<1> QED
  BY <1>2, <1>3

\* and it does stop, inside sun_path or at the padding.
LEMMA EndExists ==
    ASSUME NEW s, Well(s)
    PROVE  EndOfPath(s) \in FirstChar(s) .. PathSize /\ StopsAt(s, EndOfPath(s))
<1>1. FirstChar(s) \in {0, 1} /\ PathLength(s) \in Int /\ MemSize \in Nat /\ PathSize \in Nat
      /\ MemSize = PathSize + 2
      /\ PathSize >= 5 /\ Off = 1
  BY PathLengthIs, SizeFacts DEF FirstChar
<1> DEFINE Stops == {n \in FirstChar(s) .. PathSize : n >= PathLength(s) \/ s.mem[Off + n + 1] = NUL}
<1>2. PathSize \in Stops
  <2>1. Off + PathSize + 1 = MemSize
    BY <1>1
  <2>2. s.mem[Off + PathSize + 1] = NUL
    BY <2>1 DEF Well, NUL
  <2> QED
    BY <1>1, <2>2
<1>3. Stops \subseteq Nat
  BY <1>1
<1>4. PICK n \in Stops : \A m \in Stops : n <= m
  BY <1>2, <1>3, LeastSignal
<1>5. n \in FirstChar(s) .. PathSize /\ n \in Nat
  BY <1>1
<1>6. ASSUME NEW i \in FirstChar(s) .. n - 1 PROVE i < PathLength(s) /\ s.mem[Off + i + 1] # NUL
  <2>1. i \in FirstChar(s) .. PathSize /\ i < n /\ i \in Int
    BY <1>1, <1>5
  <2>2. i \notin Stops
    BY <1>4, <1>5, <2>1
  <2> QED
    BY <1>1, <2>1, <2>2
<1>7. StopsAt(s, n)
  BY <1>4, <1>6 DEF StopsAt
<1>8. n \in FirstChar(s) .. MemSize
  BY <1>1, <1>5
<1>9. EndOfPath(s) = n
  BY <1>7, <1>8, EndIs
<1> QED
  BY <1>5, <1>7, <1>9

\* The characters behind an '@' that stands for the leading NUL
Characters(s) == SubSeq(s.mem, Off + FirstChar(s) + 1, Off + EndOfPath(s))

\* A part of a sequence
LEMMA PartOf ==
    ASSUME NEW q \in Seq(Nat), NEW f \in Nat, NEW e \in Nat, f <= e, e + 1 <= Len(q)
    PROVE  /\ SubSeq(q, 1 + f + 1, 1 + e) \in Seq(Nat) /\ Len(SubSeq(q, 1 + f + 1, 1 + e)) = e - f
           /\ \A i \in 1 .. e - f : SubSeq(q, 1 + f + 1, 1 + e)[i] = q[1 + f + i]
<1>1. PICK a \in Nat, b \in Nat : a = 1 + f + 1 /\ b = 1 + e
  OBVIOUS
<1>2. b - a + 1 = e - f /\ e - f \in Nat /\ a >= 1 /\ b <= Len(q)
  BY <1>1
<1>3. SubSeq(q, a, b) \in Seq(Nat) /\ Len(SubSeq(q, a, b)) = b - a + 1
  BY <1>2
<1>4. ASSUME NEW i \in 1 .. e - f PROVE SubSeq(q, a, b)[i] = q[1 + f + i]
  <2>1. i \in 1 .. b - a + 1 /\ a + i - 1 = 1 + f + i
    BY <1>1, <1>2
  <2>2. SubSeq(q, a, b)[i] = q[a + i - 1]
    BY <1>2, <2>1
  <2> QED
    BY <2>1, <2>2
<1> QED
  BY <1>1, <1>2, <1>3, <1>4

\* The characters, as the cells that they are in
LEMMA CharactersAre ==
    ASSUME NEW s, Well(s), NEW e, e = EndOfPath(s), NEW f, f = FirstChar(s)
    PROVE  /\ Characters(s) \in Seq(Nat) /\ Len(Characters(s)) = e - f /\ e - f \in Nat
           /\ \A i \in 1 .. e - f : Characters(s)[i] = s.mem[1 + f + i]
<1>1. e \in f .. PathSize /\ f \in {0, 1} /\ PathSize \in Nat /\ MemSize = PathSize + 2 /\ Off = 1
  BY EndExists, SizeFacts DEF FirstChar
<1>2. s.mem \in Seq(Nat) /\ Len(s.mem) = MemSize
  BY WellMem, SizeFacts
<1>3. Characters(s) = SubSeq(s.mem, 1 + f + 1, 1 + e)
  BY <1>1 DEF Characters
<1>4. f \in Nat /\ e \in Nat /\ f <= e /\ e + 1 <= MemSize /\ e - f \in Nat
  BY <1>1
<1>5. PICK q \in Seq(Nat) : q = s.mem
  BY <1>2
<1>6. f \in Nat /\ e \in Nat /\ f <= e /\ e + 1 <= Len(q)
  BY <1>2, <1>4, <1>5
<1>7. /\ SubSeq(q, 1 + f + 1, 1 + e) \in Seq(Nat) /\ Len(SubSeq(q, 1 + f + 1, 1 + e)) = e - f
      /\ \A i \in 1 .. e - f : SubSeq(q, 1 + f + 1, 1 + e)[i] = q[1 + f + i]
  BY <1>6, PartOf, Zenon
<1>8. Characters(s) = SubSeq(q, 1 + f + 1, 1 + e)
  BY <1>3, <1>5
<1> QED
  BY <1>4, <1>5, <1>7, <1>8, Zenon

\* No character of the text is NUL.
LEMMA CharactersNotNUL ==
    ASSUME NEW s, Well(s), NEW i \in 1 .. Len(Characters(s)) PROVE Characters(s)[i] # NUL
<1>1. PICK e, f : e = EndOfPath(s) /\ f = FirstChar(s)
  OBVIOUS
<1>2. /\ Len(Characters(s)) = e - f /\ Characters(s)[i] = s.mem[1 + f + i] /\ i \in 1 .. e - f
  BY <1>1, CharactersAre
<1>3. e \in f .. PathSize /\ f \in {0, 1} /\ StopsAt(s, e) /\ PathSize \in Nat /\ Off = 1
  BY <1>1, EndExists, SizeFacts DEF FirstChar
<1>4. f + i - 1 \in f .. e - 1 /\ Off + (f + i - 1) + 1 = 1 + f + i
  BY <1>2, <1>3
<1> QED
  BY <1>1, <1>2, <1>3, <1>4 DEF StopsAt

\* The text of a Unix address
LEMMA PathTextIs ==
    ASSUME NEW s, Well(s)
    PROVE  PathText(s) = IF IsAbstract(s) THEN <<At>> \o Characters(s) ELSE Characters(s)
<1>1. Characters(s) \in Seq(Nat)
  BY CharactersAre
<1>2. PathText(s) = (IF IsAbstract(s) THEN <<At>> ELSE <<>>) \o Characters(s)
  BY DEF PathText, Characters
<1> HIDE DEF Characters
<1>3. <<>> \o Characters(s) = Characters(s)
  BY <1>1
<1> QED
  BY <1>2, <1>3

\* OutputInside, for every proper address
LEMMA OutputStaysInside ==
    ASSUME NEW s, Well(s), s.mem[1] = Unix
    PROVE  /\ Off + EndOfPath(s) + 1 <= MemSize /\ Len(PathText(s)) <= PathSize
           /\ Off <= s.used => Len(PathText(s)) <= s.used - Off
<1>1. PICK e, f : e = EndOfPath(s) /\ f = FirstChar(s)
  OBVIOUS
<1>2. e \in f .. PathSize /\ f \in {0, 1} /\ StopsAt(s, e) /\ PathSize \in Nat /\ MemSize = PathSize + 2 /\ Off = 1
  BY <1>1, EndExists, SizeFacts DEF FirstChar
<1>3. PathLength(s) \in Nat /\ s.used \in Nat /\ (s.used >= 1 => PathLength(s) = s.used - 1)
  BY WellMem, PathLengthIs
<1>4. f = 1 <=> IsAbstract(s)
  BY <1>1 DEF FirstChar
<1>5. IsAbstract(s) => PathLength(s) > 0
  BY DEF IsAbstract
<1>6. e <= PathLength(s)
  <2>1. CASE e = f
    BY <1>2, <1>3, <1>4, <1>5, <2>1
  <2>2. CASE e # f
    <3>1. e - 1 \in f .. e - 1
      BY <1>2, <2>2
    <3>2. e - 1 < PathLength(s)
      BY <1>1, <1>2, <3>1 DEF StopsAt
    <3> QED
      BY <1>2, <1>3, <3>2
  <2> QED
    BY <2>1, <2>2
<1>7. Characters(s) \in Seq(Nat) /\ Len(Characters(s)) = e - f
  BY <1>1, CharactersAre
<1>8. Len(PathText(s)) = e
  <2>1. CASE IsAbstract(s)
    <3>1. PathText(s) = <<At>> \o Characters(s)
      BY <2>1, PathTextIs
    <3>2. Len(<<At>> \o Characters(s)) = 1 + Len(Characters(s))
      BY <1>7 DEF At
    <3> QED
      BY <1>2, <1>4, <1>7, <2>1, <3>1, <3>2
  <2>2. CASE ~IsAbstract(s)
    <3>1. PathText(s) = Characters(s) /\ f = 0
      BY <1>2, <1>4, <2>2, PathTextIs
    <3> QED
      BY <1>2, <1>7, <3>1
  <2> QED
    BY <2>1, <2>2
<1> QED
  BY <1>1, <1>2, <1>3, <1>6, <1>8

-----------------------------------------------------------------------------
(* Unix text that is read again *)

\* Sequences with the same elements are the same.
LEMMA SameSequence ==
    ASSUME NEW p \in Seq(Nat), NEW q \in Seq(Nat), Len(p) = Len(q), \A i \in 1 .. Len(q) : p[i] = q[i]
    PROVE  p = q
OBVIOUS

\* createUnixAny() has the empty text.
LEMMA AnyUnix ==
    /\ Fits(CreateUnixAny) /\ CreateUnixAny.mem[1] = Unix /\ CreateUnixAny.used = 1
    /\ PathText(CreateUnixAny) = <<>>
<1> DEFINE s == Make(<<Unix>> \o <<>>, 1)
<1>1. CreateUnixAny = s
  <2>1. <<Unix>> \o <<>> = <<Unix>>
    OBVIOUS
  <2> QED
    BY <2>1 DEF CreateUnixAny, Off
<1>2. <<>> \in Seq(Nat) /\ Len(<<>>) <= PathSize /\ 1 \in 1 .. MemSize
  BY SizeFacts
<1>3. UnixCells(s, <<>>, 1) /\ Fits(s) /\ Well(s)
  BY <1>2, UnixFacts DEF Fits
<1> HIDE DEF s
<1>4. s.mem[1] = Unix /\ s.used = 1
  BY <1>3 DEF UnixCells
<1>5. PathLength(s) = 0
  BY <1>3, <1>4, PathLengthIs
<1>6. ~IsAbstract(s) /\ FirstChar(s) = 0
  BY <1>5 DEF IsAbstract, FirstChar
<1>7. StopsAt(s, 0) /\ 0 \in FirstChar(s) .. MemSize
  BY <1>5, <1>6, SizeFacts DEF StopsAt
<1>8. EndOfPath(s) = 0
  BY <1>3, <1>7, EndIs
<1>9. Characters(s) \in Seq(Nat) /\ Len(Characters(s)) = 0
  BY <1>3, <1>6, <1>8, CharactersAre
<1>10. PathText(s) = <<>>
  BY <1>3, <1>6, <1>9, PathTextIs
<1> QED
  BY <1>1, <1>3, <1>4, <1>10

\* createUnix() of a path without NUL has the path as its text.
LEMMA PathUnix ==
    ASSUME NEW path \in Seq(Nat), path # <<>>, Len(path) < PathSize, \A i \in 1 .. Len(path) : path[i] # NUL
    PROVE  /\ Well(CreateUnix(path)) /\ CreateUnix(path).mem[1] = Unix /\ PathText(CreateUnix(path)) = path
<1> PICK n \in Nat : n = Len(path)
  OBVIOUS
<1>0. PathSize \in Nat /\ MemSize = PathSize + 2 /\ Off = 1 /\ n > 0 /\ n < PathSize
  BY SizeFacts
<1>s. PICK s : s = CreateUnix(path)
  OBVIOUS
<1>1. s = Make(<<Unix>> \o path, n + 2)
  <2>1. ~(Len(path) >= PathSize) /\ Off + Len(path) + 1 = n + 2
    BY <1>0
  <2> QED
    BY <1>s, <2>1 DEF CreateUnix
<1>2. UnixCells(s, path, n + 2) /\ Well(s)
  <2>1. n + 2 \in 1 .. MemSize /\ Len(path) <= PathSize
    BY <1>0
  <2> QED
    BY <1>1, <2>1, UnixFacts DEF Fits
<1>3. /\ s.mem[1] = Unix /\ s.used = n + 2 /\ \A i \in 1 .. n : s.mem[i + 1] = path[i]
      /\ \A i \in 1 .. MemSize : i > n + 1 => s.mem[i] = 0
  BY <1>2 DEF UnixCells
<1>4. PathLength(s) = n + 1
  BY <1>0, <1>2, <1>3, PathLengthIs
<1>5. ~IsAbstract(s) /\ FirstChar(s) = 0
  <2>1. 1 \in 1 .. n /\ 1 + 1 = Off + 1
    BY <1>0
  <2>2. s.mem[Off + 1] # NUL
    BY <1>3, <2>1
  <2> QED
    BY <2>2 DEF IsAbstract, FirstChar
<1>6. StopsAt(s, n)
  <2>1. Off + n + 1 \in 1 .. MemSize /\ Off + n + 1 > n + 1
    BY <1>0
  <2>2. s.mem[Off + n + 1] = NUL
    BY <1>3, <2>1 DEF NUL
  <2>3. ASSUME NEW i \in 0 .. n - 1 PROVE i < n + 1 /\ s.mem[Off + i + 1] # NUL
    <3>1. i + 1 \in 1 .. n /\ Off + i + 1 = (i + 1) + 1 /\ i < n + 1
      BY <1>0
    <3> QED
      BY <1>3, <3>1
  <2> QED
    BY <1>4, <1>5, <2>2, <2>3 DEF StopsAt
<1>7. EndOfPath(s) = n
  <2>1. n \in FirstChar(s) .. MemSize
    BY <1>0, <1>5
  <2> QED
    BY <1>2, <1>6, <2>1, EndIs
<1>8. /\ Characters(s) \in Seq(Nat) /\ Len(Characters(s)) = n - 0
      /\ \A i \in 1 .. n - 0 : Characters(s)[i] = s.mem[1 + 0 + i]
  <2>1. PICK e, f : e = EndOfPath(s) /\ f = FirstChar(s)
    OBVIOUS
  <2>2. /\ Characters(s) \in Seq(Nat) /\ Len(Characters(s)) = e - f
        /\ \A i \in 1 .. e - f : Characters(s)[i] = s.mem[1 + f + i]
    BY <1>2, <2>1, CharactersAre
  <2> QED
    BY <1>5, <1>7, <2>1, <2>2
<1>9. ASSUME NEW i \in 1 .. n PROVE Characters(s)[i] = path[i]
  <2>1. i \in 1 .. n - 0 /\ 1 + 0 + i = i + 1
    OBVIOUS
  <2> QED
    BY <1>3, <1>8, <2>1
<1>10. Characters(s) = path
  <2>1. Len(Characters(s)) = Len(path)
    BY <1>8
  <2> QED
    BY <1>8, <1>9, <2>1, SameSequence
<1> QED
  BY <1>2, <1>3, <1>5, <1>10, <1>s, PathTextIs

\* The family and the leading NUL of an abstract address
LEMMA TwoInFront ==
    ASSUME NEW path \in Seq(Nat), NEW q, q = <<NUL>> \o path
    PROVE  <<Unix, NUL>> \o path = <<Unix>> \o q
<1> PICK n \in Nat : n = Len(path)
  OBVIOUS
<1>1. q \in Seq(Nat) /\ Len(q) = n + 1 /\ q[1] = NUL /\ \A i \in 1 .. n : q[i + 1] = path[i]
  BY DEF NUL
<1>2. <<Unix, NUL>> \o path \in Seq(Nat) /\ <<Unix>> \o q \in Seq(Nat)
  BY <1>1 DEF Unix, NUL
<1>3. Len(<<Unix, NUL>> \o path) = n + 2 /\ Len(<<Unix>> \o q) = n + 2
  BY <1>1
<1>4. ASSUME NEW i \in 1 .. n + 2 PROVE (<<Unix, NUL>> \o path)[i] = (<<Unix>> \o q)[i]
  <2>1. CASE i = 1
    BY <1>1, <2>1
  <2>2. CASE i = 2
    BY <1>1, <2>2
  <2>3. CASE i > 2
    <3>1. i - 2 \in 1 .. n /\ i - 1 = (i - 2) + 1
      BY <2>3
    <3>2. (<<Unix, NUL>> \o path)[i] = path[i - 2]
      BY <2>3
    <3>3. (<<Unix>> \o q)[i] = q[i - 1]
      BY <1>1, <2>3
    <3> QED
      BY <1>1, <3>1, <3>2, <3>3
  <2>4. i = 1 \/ i = 2 \/ i > 2
    OBVIOUS
  <2> QED
    BY <2>1, <2>2, <2>3, <2>4
<1> QED
  BY <1>2, <1>3, <1>4, SameSequence

\* createAbstractUnix() of a path without NUL has it as its text, behind an '@'.
LEMMA AbstractUnix ==
    ASSUME NEW path \in Seq(Nat), path # <<>>, Len(path) <= PathSize - 1, \A i \in 1 .. Len(path) : path[i] # NUL
    PROVE  /\ Well(CreateAbstractUnix(path)) /\ CreateAbstractUnix(path).mem[1] = Unix
           /\ PathText(CreateAbstractUnix(path)) = <<At>> \o path
<1> PICK n \in Nat : n = Len(path)
  OBVIOUS
<1>0. PathSize \in Nat /\ MemSize = PathSize + 2 /\ Off = 1 /\ n > 0 /\ n < PathSize
  BY SizeFacts
<1>s. PICK s : s = CreateAbstractUnix(path)
  OBVIOUS
<1>q. PICK q \in Seq(Nat) : /\ q = <<NUL>> \o path /\ Len(q) = n + 1 /\ q[1] = NUL
                            /\ \A i \in 1 .. n : q[i + 1] = path[i]
  <2>1. /\ <<NUL>> \o path \in Seq(Nat) /\ Len(<<NUL>> \o path) = n + 1 /\ (<<NUL>> \o path)[1] = NUL
        /\ \A i \in 1 .. n : (<<NUL>> \o path)[i + 1] = path[i]
    BY DEF NUL
  <2> QED
    BY <2>1
<1>1. s = Make(<<Unix>> \o q, n + 2)
  <2>1. ~(Len(path) > PathSize - 1) /\ Off + Len(path) + 1 = n + 2
    BY <1>0
  <2>2. <<Unix, NUL>> \o path = <<Unix>> \o q
    BY <1>q, TwoInFront
  <2> QED
    BY <1>s, <2>1, <2>2 DEF CreateAbstractUnix
<1>2. UnixCells(s, q, n + 2) /\ Well(s)
  <2>1. n + 2 \in 1 .. MemSize /\ Len(q) <= PathSize
    BY <1>0, <1>q
  <2> QED
    BY <1>1, <2>1, UnixFacts DEF Fits
<1>3. s.mem[1] = Unix /\ s.used = n + 2 /\ \A i \in 1 .. n + 1 : s.mem[i + 1] = q[i]
  BY <1>2, <1>q DEF UnixCells
<1>4. PathLength(s) = n + 1
  BY <1>0, <1>2, <1>3, PathLengthIs
<1>c. ASSUME NEW i \in 1 .. n PROVE s.mem[i + 2] = path[i]
  <2>1. i + 1 \in 1 .. n + 1 /\ (i + 1) + 1 = i + 2
    OBVIOUS
  <2> QED
    BY <1>3, <1>q, <2>1
<1>5. IsAbstract(s) /\ FirstChar(s) = 1
  <2>1. 1 \in 1 .. n /\ 1 \in 1 .. n + 1 /\ Off + 1 = 1 + 1 /\ Off + 2 = 1 + 2
    BY <1>0
  <2>2. s.mem[Off + 1] = NUL /\ s.mem[Off + 2] # NUL
    BY <1>3, <1>c, <1>q, <2>1
  <2> QED
    BY <1>4, <2>2 DEF IsAbstract, FirstChar
<1>6. StopsAt(s, n + 1)
  <2>1. ASSUME NEW i \in 1 .. n + 1 - 1 PROVE i < n + 1 /\ s.mem[Off + i + 1] # NUL
    <3>1. i \in 1 .. n /\ Off + i + 1 = i + 2 /\ i < n + 1
      BY <1>0
    <3> QED
      BY <1>c, <3>1
  <2> QED
    BY <1>4, <1>5, <2>1 DEF StopsAt
<1>7. EndOfPath(s) = n + 1
  <2>1. n + 1 \in FirstChar(s) .. MemSize
    BY <1>0, <1>5
  <2> QED
    BY <1>2, <1>6, <2>1, EndIs
<1>8. /\ Characters(s) \in Seq(Nat) /\ Len(Characters(s)) = n + 1 - 1
      /\ \A i \in 1 .. n + 1 - 1 : Characters(s)[i] = s.mem[1 + 1 + i]
  BY <1>2, <1>5, <1>7, CharactersAre
<1>9. ASSUME NEW i \in 1 .. n PROVE Characters(s)[i] = path[i]
  <2>1. i \in 1 .. n + 1 - 1 /\ 1 + 1 + i = i + 2
    OBVIOUS
  <2> QED
    BY <1>8, <1>c, <2>1
<1>10. Characters(s) = path
  <2>1. Len(Characters(s)) = Len(path)
    BY <1>8
  <2> QED
    BY <1>8, <1>9, <2>1, SameSequence
<1> QED
  BY <1>2, <1>3, <1>5, <1>10, <1>s, PathTextIs

-----------------------------------------------------------------------------
(* IP addresses *)

Ports == 0 .. 3

\* Changing the byte order twice changes nothing.
LEMMA SwapTwice ==
    ASSUME NEW p \in Ports PROVE Swap(p) \in Ports /\ Swap(Swap(p)) = p
<1>1. p = 0 \/ p = 1 \/ p = 2 \/ p = 3
  BY DEF Ports
<1>2. Swap(0) = 0 /\ Swap(1) = 2 /\ Swap(2) = 1 /\ Swap(3) = 3
  BY DEF Swap
<1> QED
  BY <1>1, <1>2 DEF Ports

\* A number is read from its text.
LEMMA NumberOfText ==
    ASSUME NEW n \in Ports PROVE Number(Text(n)) = {n}
<1>1. n = 0 \/ n = 1 \/ n = 2 \/ n = 3
  BY DEF Ports
<1>2. Text(0) = "0" /\ Text(1) = "1" /\ Text(2) = "2" /\ Text(3) = "3"
  BY DEF Text
<1>3. Number("0") = {0} /\ Number("1") = {1} /\ Number("2") = {2} /\ Number("3") = {3}
  BY DEF Number
<1> QED
  BY <1>1, <1>2, <1>3

\* getServByName() returns ports.
LEMMA ServicePorts ==
    ASSUME NEW service PROVE GetServByName(service) \subseteq Ports
<1>1. Number(service) \subseteq Ports
  BY DEF Number, Ports
<1>2. Named(service) \subseteq Ports
  <2>1. Swap(1) \in Ports
    BY SwapTwice DEF Ports
  <2> QED
    BY <2>1 DEF Named
<1>3. \A n \in Number(service) : Swap(n) \in Ports
  BY <1>1, SwapTwice
<1> QED
  BY <1>2, <1>3 DEF GetServByName

\* The port that is printed is the one that is read.
LEMMA PortOfText ==
    ASSUME NEW p \in Ports PROVE GetServByName(Text(Swap(p))) = {p}
<1>1. PICK n \in Ports : n = Swap(p) /\ Swap(n) = p
  BY SwapTwice
<1>2. Number(Text(n)) = {n}
  BY NumberOfText
<1>3. GetServByName(Text(n)) = {Swap(k) : k \in {n}}
  BY <1>2 DEF GetServByName
<1> QED
  BY <1>1, <1>3

\* The family, the port and the other fields
LEMMA PortCells ==
    ASSUME NEW f \in Nat, NEW x \in Nat, NEW y \in Nat, NEW rest \in Seq(Nat),
           NEW cells, cells = <<f>> \o <<x, y>> \o rest
    PROVE  /\ cells \in Seq(Nat) /\ Len(cells) = Len(rest) + 3
           /\ cells[1] = f /\ cells[2] = x /\ cells[3] = y
           /\ \A i \in 1 .. Len(rest) : cells[i + 3] = rest[i]
<1>1. PICK b \in Seq(Nat) : b = <<x, y>> /\ Len(b) = 2 /\ b[1] = x /\ b[2] = y
  <2>1. <<x, y>> \in Seq(Nat) /\ Len(<<x, y>>) = 2 /\ <<x, y>>[1] = x /\ <<x, y>>[2] = y
    OBVIOUS
  <2> QED
    BY <2>1
<1>2. PICK h \in Seq(Nat) : h = <<f>> \o b /\ Len(h) = 3 /\ h[1] = f /\ h[2] = x /\ h[3] = y
  <2>1. /\ <<f>> \o b \in Seq(Nat) /\ Len(<<f>> \o b) = 3 /\ (<<f>> \o b)[1] = f
        /\ (<<f>> \o b)[2] = b[1] /\ (<<f>> \o b)[3] = b[2]
    BY <1>1
  <2> QED
    BY <1>1, <2>1
<1>3. cells = h \o rest
  BY <1>1, <1>2
<1> QED
  BY <1>2, <1>3

\* The cells of an IPv4 address
V4Cells(s, a, p) ==
    /\ Well(s) /\ s.used = 4 /\ s.mem[1] = IPv4 /\ s.mem[4] = a /\ IPPort(s) = p

\* What is made of an IPv4 address and a port
LEMMA V4Facts ==
    ASSUME NEW a \in Nat, NEW p \in Ports PROVE V4Cells(FromIPv4(a, p), a, p)
<1> DEFINE cells == <<IPv4>> \o Bytes(p) \o <<a>>
           s == Make(cells, 4)
<1>0. p \in {0, 1, 2, 3}
  BY DEF Ports
<1>1. p % 2 \in {0, 1} /\ p \div 2 \in {0, 1} /\ (p % 2) + 2 * (p \div 2) = p
  BY <1>0
<1>2. PICK x \in {0, 1}, y \in {0, 1} : x = p % 2 /\ y = p \div 2
  BY <1>1
<1>3. PICK rest \in Seq(Nat) : rest = <<a>> /\ Len(rest) = 1 /\ rest[1] = a
  <2>1. <<a>> \in Seq(Nat) /\ Len(<<a>>) = 1 /\ <<a>>[1] = a
    OBVIOUS
  <2> QED
    BY <2>1
<1>4. FromIPv4(a, p) = s
  BY DEF FromIPv4, SizeIn
<1>c. cells = <<2>> \o <<x, y>> \o rest
  BY <1>2, <1>3 DEF Bytes, IPv4
<1> HIDE DEF cells
<1>5. cells \in Seq(Nat) /\ Len(cells) = 4 /\ cells[1] = 2 /\ cells[2] = x /\ cells[3] = y /\ cells[4] = a
  <2>1. /\ cells \in Seq(Nat) /\ Len(cells) = Len(rest) + 3 /\ cells[1] = 2 /\ cells[2] = x /\ cells[3] = y
        /\ \A i \in 1 .. Len(rest) : cells[i + 3] = rest[i]
    <3>1. x \in Nat /\ y \in Nat
      OBVIOUS
    <3> QED
      BY <1>c, <3>1, PortCells
  <2>2. 1 \in 1 .. Len(rest) /\ 1 + 3 = 4
    BY <1>3
  <2> QED
    BY <1>3, <2>1, <2>2
<1>6. 4 <= SizeUn /\ 4 \in 0 .. MemSize /\ 1 .. 4 \subseteq 1 .. MemSize
  BY SizeFacts
<1>7. /\ s \in AddressType /\ s.used = 4 /\ s.mem[MemSize] = 0
      /\ \A i \in 1 .. MemSize : s.mem[i] = IF i <= Len(cells) THEN cells[i] ELSE 0
  BY <1>5, <1>6, MakeFacts
<1> HIDE DEF s
<1>8. s.mem[1] = 2 /\ s.mem[2] = x /\ s.mem[3] = y /\ s.mem[4] = a
  BY <1>5, <1>6, <1>7
<1>9. Well(s)
  BY <1>1, <1>2, <1>7, <1>8 DEF Well, Unix
<1>10. IPPort(s) = p
  BY <1>1, <1>2, <1>8 DEF IPPort
<1> QED
  BY <1>4, <1>7, <1>8, <1>9, <1>10 DEF V4Cells, IPv4

\* The cells of an IPv6 address
V6Cells(s, a, c, p) ==
    /\ Well(s) /\ s.used = 6 /\ s.mem[1] = IPv6 /\ s.mem[5] = a /\ s.mem[6] = c /\ IPPort(s) = p

\* What is made of an IPv6 address, a scope and a port
LEMMA V6Facts ==
    ASSUME NEW a \in Nat, NEW c \in Nat, NEW p \in Ports PROVE V6Cells(FromIPv6(a, c, p), a, c, p)
<1> DEFINE cells == <<IPv6>> \o Bytes(p) \o <<0, a, c>>
           s == Make(cells, 6)
<1>0. p \in {0, 1, 2, 3}
  BY DEF Ports
<1>1. p % 2 \in {0, 1} /\ p \div 2 \in {0, 1} /\ (p % 2) + 2 * (p \div 2) = p
  BY <1>0
<1>2. PICK x \in {0, 1}, y \in {0, 1} : x = p % 2 /\ y = p \div 2
  BY <1>1
<1>3. PICK rest \in Seq(Nat) : rest = <<0, a, c>> /\ Len(rest) = 3 /\ rest[2] = a /\ rest[3] = c
  <2>1. <<0, a, c>> \in Seq(Nat) /\ Len(<<0, a, c>>) = 3 /\ <<0, a, c>>[2] = a /\ <<0, a, c>>[3] = c
    OBVIOUS
  <2> QED
    BY <2>1
<1>4. FromIPv6(a, c, p) = s
  BY DEF FromIPv6, SizeIn6
<1>c. cells = <<3>> \o <<x, y>> \o rest
  BY <1>2, <1>3 DEF Bytes, IPv6
<1> HIDE DEF cells
<1>5. /\ cells \in Seq(Nat) /\ Len(cells) = 6 /\ cells[1] = 3 /\ cells[2] = x /\ cells[3] = y
      /\ cells[5] = a /\ cells[6] = c
  <2>1. /\ cells \in Seq(Nat) /\ Len(cells) = Len(rest) + 3 /\ cells[1] = 3 /\ cells[2] = x /\ cells[3] = y
        /\ \A i \in 1 .. Len(rest) : cells[i + 3] = rest[i]
    <3>1. x \in Nat /\ y \in Nat
      OBVIOUS
    <3> QED
      BY <1>c, <3>1, PortCells
  <2>2. 2 \in 1 .. Len(rest) /\ 3 \in 1 .. Len(rest) /\ 2 + 3 = 5 /\ 3 + 3 = 6
    BY <1>3
  <2> QED
    BY <1>3, <2>1, <2>2
<1>6. 6 <= SizeUn /\ 6 \in 0 .. MemSize /\ 1 .. 6 \subseteq 1 .. MemSize
  BY SizeFacts
<1>7. /\ s \in AddressType /\ s.used = 6 /\ s.mem[MemSize] = 0
      /\ \A i \in 1 .. MemSize : s.mem[i] = IF i <= Len(cells) THEN cells[i] ELSE 0
  BY <1>5, <1>6, MakeFacts
<1> HIDE DEF s
<1>8. s.mem[1] = 3 /\ s.mem[2] = x /\ s.mem[3] = y /\ s.mem[5] = a /\ s.mem[6] = c
  BY <1>5, <1>6, <1>7
<1>9. Well(s)
  BY <1>1, <1>2, <1>7, <1>8 DEF Well, Unix
<1>10. IPPort(s) = p
  BY <1>1, <1>2, <1>8 DEF IPPort
<1> QED
  BY <1>4, <1>7, <1>8, <1>9, <1>10 DEF V6Cells, IPv6

\* What getaddrinfo() gives for a node that operator << names
LEMMA NodesOf ==
    ASSUME NEW a \in Nat, NEW b \in {0, 1}, b = 0 <=> a = 0
    PROVE  /\ Nodes[NodeOf(IPv4, a)].v4 = {b} /\ NodeOf(IPv4, b) = NodeOf(IPv4, a)
           /\ Nodes[NodeOf(IPv6, a)].v6 = {b} /\ NodeOf(IPv6, b) = NodeOf(IPv6, a)
<1>1. Nodes["any4"].v4 = {0} /\ Nodes["host4"].v4 = {1} /\ Nodes["any6"].v6 = {0} /\ Nodes["host6"].v6 = {1}
  BY DEF Nodes
<1>2. /\ NodeOf(IPv4, a) = IF a = 0 THEN "any4" ELSE "host4"
      /\ NodeOf(IPv6, a) = IF a = 0 THEN "any6" ELSE "host6"
      /\ NodeOf(IPv4, b) = IF b = 0 THEN "any4" ELSE "host4"
      /\ NodeOf(IPv6, b) = IF b = 0 THEN "any6" ELSE "host6"
  BY DEF NodeOf, IPv4, IPv6
<1>3. CASE a = 0
  BY <1>1, <1>2, <1>3
<1>4. CASE a # 0
  BY <1>1, <1>2, <1>4
<1> QED
  BY <1>3, <1>4

\* The addresses that getaddrinfo() knows
LEMMA NodeAddresses ==
    ASSUME NEW node \in DOMAIN Nodes
    PROVE  Nodes[node].v4 \subseteq {0, 1} /\ Nodes[node].v6 \subseteq {0, 1}
BY DEF Nodes

-----------------------------------------------------------------------------
(* What the factories make *)

MadeV4(s) == \E a \in {0, 1}, p \in Ports : s = FromIPv4(a, p)
MadeV6(s) == \E a \in {0, 1}, c \in Nat, p \in Ports : s = FromIPv6(a, c, p)
MadeIP(s) == MadeV4(s) \/ MadeV6(s)

\* Such addresses are proper.
LEMMA MadeIPWell ==
    ASSUME NEW s, MadeIP(s) PROVE Fits(s) /\ s # TooLong
<1>1. CASE MadeV4(s)
  <2>1. PICK a \in {0, 1}, p \in Ports : s = FromIPv4(a, p)
    BY <1>1 DEF MadeV4
  <2>2. a \in Nat
    OBVIOUS
  <2> QED
    BY <2>1, <2>2, V4Facts, SizeFacts DEF V4Cells, Fits, TooLong
<1>2. CASE MadeV6(s)
  <2>1. PICK a \in {0, 1}, c \in Nat, p \in Ports : s = FromIPv6(a, c, p)
    BY <1>2 DEF MadeV6
  <2>2. a \in Nat
    OBVIOUS
  <2> QED
    BY <2>1, <2>2, V6Facts, SizeFacts DEF V6Cells, Fits, TooLong
<1> QED
  BY <1>1, <1>2 DEF MadeIP

\* The default constructor makes a proper address.
LEMMA DefaultWell == Fits(Default) /\ Well(Default) /\ Default.mem[1] = Unspec
<1>1. PICK cells \in Seq(Nat) : cells = <<>> /\ Len(cells) = 0
  <2>1. <<>> \in Seq(Nat) /\ Len(<<>>) = 0
    OBVIOUS
  <2> QED
    BY <2>1
<1>2. Len(cells) <= SizeUn /\ 0 \in 0 .. MemSize /\ 1 \in 1 .. MemSize /\ ~(1 <= Len(cells))
  BY <1>1, SizeFacts
<1>d. Default = Make(cells, 0)
  BY <1>1 DEF Default
<1>3. Default \in AddressType /\ Default.mem[MemSize] = 0 /\ Default.mem[1] = 0 /\ Default.used = 0
  BY <1>d, <1>2, MakeFacts
<1> QED
  BY <1>3, SizeFacts DEF Fits, Well, Unix, IPv4, IPv6, Unspec

UnixMade(s) == Fits(s) /\ s.mem[1] = Unix

\* createUnix(), for any path that is not too long
LEMMA CreateUnixMade ==
    ASSUME NEW path \in Seq(Nat), CreateUnix(path) # TooLong PROVE UnixMade(CreateUnix(path))
<1>1. Len(path) < PathSize /\ Len(path) \in Nat /\ CreateUnix(path) = Make(<<Unix>> \o path, Off + Len(path) + 1)
  BY SizeFacts DEF CreateUnix
<1>2. Len(path) <= PathSize /\ Off + Len(path) + 1 \in 1 .. MemSize
  BY <1>1, SizeFacts
<1> QED
  BY <1>1, <1>2, UnixFacts DEF UnixMade, UnixCells

\* createAbstractUnix(), for any path that is not too long
LEMMA CreateAbstractMade ==
    ASSUME NEW path \in Seq(Nat), CreateAbstractUnix(path) # TooLong PROVE UnixMade(CreateAbstractUnix(path))
<1>1. /\ Len(path) <= PathSize - 1 /\ Len(path) \in Nat
      /\ CreateAbstractUnix(path) = Make(<<Unix, NUL>> \o path, Off + Len(path) + 1)
  BY SizeFacts DEF CreateAbstractUnix
<1>2. PICK q \in Seq(Nat) : q = <<NUL>> \o path /\ Len(q) = Len(path) + 1
  <2>1. <<NUL>> \o path \in Seq(Nat) /\ Len(<<NUL>> \o path) = Len(path) + 1
    BY DEF NUL
  <2> QED
    BY <2>1
<1>3. <<Unix, NUL>> \o path = <<Unix>> \o q
  BY <1>2, TwoInFront
<1>4. Len(q) <= PathSize /\ Off + Len(path) + 1 \in 1 .. MemSize
  BY <1>1, <1>2, SizeFacts
<1>5. PICK size \in 1 .. MemSize : size = Off + Len(path) + 1
  BY <1>4
<1>6. UnixCells(Make(<<Unix>> \o q, size), q, size) /\ Fits(Make(<<Unix>> \o q, size))
  BY <1>4, UnixFacts
<1>7. CreateAbstractUnix(path) = Make(<<Unix>> \o q, size)
  BY <1>1, <1>3, <1>5
<1> QED
  BY <1>6, <1>7 DEF UnixMade, UnixCells

\* All results of getaddrinfo()
LEMMA AddrInfoMade ==
    ASSUME NEW family, NEW node \in DOMAIN Nodes, NEW scope \in Nat, NEW ports, ports \subseteq Ports,
           NEW s \in GetAddrInfo(family, node, scope, ports)
    PROVE  MadeIP(s)
<1>1. Nodes[node].v4 \subseteq {0, 1} /\ Nodes[node].v6 \subseteq {0, 1}
  BY NodeAddresses
<1>2. CASE \E a \in (IF family # IPv6 THEN Nodes[node].v4 ELSE {}), p \in ports : s = FromIPv4(a, p)
  BY <1>1, <1>2 DEF MadeIP, MadeV4
<1>3. CASE \E a \in (IF family # IPv4 THEN Nodes[node].v6 ELSE {}), p \in ports : s = FromIPv6(a, scope, p)
  BY <1>1, <1>3 DEF MadeIP, MadeV6
<1> QED
  BY <1>2, <1>3 DEF GetAddrInfo

\* The port of getAddrInfoWithPort() survives the text.
LEMMA PortsOfText ==
    ASSUME NEW p \in 0 .. 2 PROVE {Swap(n) : n \in Number(Text(Swap(p)))} \subseteq Ports
<1>1. PICK q \in Ports : q = Swap(p)
  BY SwapTwice DEF Ports
<1>2. Number(Text(q)) = {q}
  BY NumberOfText
<1> QED
  BY <1>1, <1>2, SwapTwice

\* Characters are numbers.
LEMMA PathsAreSequences == UnixPaths \subseteq Seq(Nat)
<1> DEFINE Chars == NUL .. Letter
<1>1. Chars \subseteq Nat
  BY DEF NUL, Letter
<1>2. UnixPaths \subseteq Seq(Chars)
  BY SizesAssumption
<1> HIDE DEF Chars
<1>3. ASSUME NEW p \in Seq(Chars) PROVE p \in Seq(Nat)
  <2>1. Len(p) \in Nat /\ p \in [1 .. Len(p) -> Chars]
    OBVIOUS
  <2>2. p \in [1 .. Len(p) -> Nat]
    BY <1>1, <2>1
  <2> QED
    BY <2>1, <2>2
<1> QED
  BY <1>2, <1>3

\* Every address of the factories is the empty one, a Unix address or one of
\* the IP addresses.
LEMMA CreatedIs ==
    ASSUME NEW s \in Created PROVE s = Default \/ UnixMade(s) \/ MadeIP(s)
<1>0. UnixPaths \subseteq Seq(Nat)
  BY PathsAreSequences
<1>1. CASE s \in UnixAddresses /\ s # TooLong
  <2>1. CASE \E p \in UnixPaths : s = CreateUnix(p)
    BY <1>0, <1>1, <2>1, CreateUnixMade
  <2>2. CASE \E p \in UnixPaths : s = CreateAbstractUnix(p)
    BY <1>0, <1>1, <2>2, CreateAbstractMade
  <2>3. CASE s = CreateUnixAny
    BY <2>3, AnyUnix DEF UnixMade
  <2> QED
    BY <1>1, <2>1, <2>2, <2>3 DEF UnixAddresses
<1>2. CASE s \in BinaryAddresses
  <2>1. 0 \in Ports /\ 0 \in Nat /\ 1 \in Nat
    BY DEF Ports
  <2>2. CASE s \in {FromIPv4(0, 0), FromIPv6(0, 0, 0)}
    BY <2>1, <2>2 DEF MadeIP, MadeV4, MadeV6
  <2>3. CASE \E service \in Services : \E p \in GetServByName(service) : s \in {FromIPv4(1, p), FromIPv6(1, 1, p)}
    <3>1. PICK p \in Ports : s \in {FromIPv4(1, p), FromIPv6(1, 1, p)}
      BY <2>3, ServicePorts
    <3> QED
      BY <2>1, <3>1 DEF MadeIP, MadeV4, MadeV6
  <2> QED
    BY <1>2, <2>2, <2>3 DEF BinaryAddresses
<1>3. CASE s \in NamedAddresses
  <2> DEFINE V(n, service) == WithService(Unspec, n, 0, service)
             W(n, p) == WithPort(Unspec, n, 0, p)
             E == {V(n, service) : n \in DOMAIN Nodes, service \in Services}
             F == {W(n, p) : n \in DOMAIN Nodes, p \in 0 .. 2}
  <2>1. NamedAddresses = (UNION E) \cup (UNION F)
    BY DEF NamedAddresses
  <2>2. ASSUME NEW n \in DOMAIN Nodes, NEW service \in Services, s \in V(n, service) PROVE MadeIP(s)
    <3>1. GetServByName(service) \subseteq Ports
      BY ServicePorts
    <3> QED
      BY <2>2, <3>1, AddrInfoMade DEF WithService
  <2>3. ASSUME NEW n \in DOMAIN Nodes, NEW p \in 0 .. 2, s \in W(n, p) PROVE MadeIP(s)
    <3>1. {Swap(k) : k \in Number(Text(Swap(p)))} \subseteq Ports
      BY PortsOfText
    <3> QED
      BY <2>3, <3>1, AddrInfoMade DEF WithPort
  <2> HIDE DEF V, W
  <2>4. ASSUME NEW X \in E, s \in X PROVE MadeIP(s)
    BY <2>2, <2>4
  <2>5. ASSUME NEW X \in F, s \in X PROVE MadeIP(s)
    BY <2>3, <2>5
  <2> HIDE DEF E, F
  <2>6. (\E X \in E : s \in X) \/ (\E X \in F : s \in X)
    BY <1>3, <2>1, Zenon
  <2> QED
    BY <2>4, <2>5, <2>6
<1> QED
  BY <1>1, <1>2, <1>3 DEF Created

\* What accept() and getsockname() give
LEMMA KernelWell ==
    ASSUME NEW s \in KernelAddresses
    PROVE  /\ Fits(s) /\ s.used >= 1 /\ s.mem[1] \in {Unix, IPv4, IPv6}
           /\ (s.mem[1] # Unix => s.used >= 4)
<1>1. CASE s = CreateUnixAny
  BY <1>1, AnyUnix
<1>2. CASE s = FromIPv4(1, 2)
  <2>1. V4Cells(s, 1, 2)
    BY <1>2, V4Facts DEF Ports
  <2> QED
    BY <2>1, SizeFacts DEF V4Cells, Fits
<1>3. CASE s = FromIPv6(1, 1, 2)
  <2>1. V6Cells(s, 1, 1, 2)
    BY <1>3, V6Facts DEF Ports
  <2> QED
    BY <2>1, SizeFacts DEF V6Cells, Fits
<1>4. CASE s = Make(<<Unix>> \o [i \in 1 .. PathSize |-> Letter], SizeUn)
  <2> DEFINE path == [i \in 1 .. PathSize |-> Letter]
  <2>1. PathSize \in Nat /\ SizeUn \in 1 .. MemSize /\ SizeUn >= 1
    BY SizeFacts
  <2>2. path \in Seq(Nat) /\ Len(path) = PathSize
    BY <2>1 DEF Letter
  <2> HIDE DEF path
  <2>3. UnixCells(s, path, SizeUn) /\ Fits(s)
    BY <1>4, <2>1, <2>2, UnixFacts DEF path
  <2> QED
    BY <2>1, <2>3 DEF UnixCells
<1> QED
  BY <1>1, <1>2, <1>3, <1>4 DEF KernelAddresses

\* All addresses that there are to begin with are proper.
LEMMA AnyWell ==
    ASSUME NEW s \in Created \cup KernelAddresses PROVE Fits(s)
BY CreatedIs, KernelWell, DefaultWell, MadeIPWell DEF UnixMade

-----------------------------------------------------------------------------
(* operator >> *)

\* operator >> reads the whole path if there is no white space in it.
LEMMA WordOf ==
    ASSUME NEW path \in Seq(Nat)
    PROVE  /\ Word(path) \in Seq(Nat) /\ Len(Word(path)) <= Len(path)
           /\ Space \notin Range(path) => Word(path) = path
<1> DEFINE spaces == {i \in DOMAIN path : path[i] = Space}
           Ends(n) == (n = Len(path) \/ n + 1 \in spaces) /\ \A i \in spaces : n < i
<1>1. DOMAIN path = 1 .. Len(path) /\ Len(path) \in Nat
  OBVIOUS
<1>2. spaces \subseteq 1 .. Len(path)
  BY <1>1
<1>3. Space \notin Range(path) => spaces = {}
  BY DEF Range
<1>4. Word(path) = SubSeq(path, 1, CHOOSE n \in 0 .. Len(path) : Ends(n))
  BY DEF Word
<1> HIDE DEF spaces
<1>5. \E n \in 0 .. Len(path) : Ends(n)
  <2>1. CASE spaces = {}
    <3>1. Ends(Len(path)) /\ Len(path) \in 0 .. Len(path)
      BY <1>1, <2>1
    <3> QED
      BY <3>1
  <2>2. CASE spaces # {}
    <3>1. PICK k \in spaces : \A i \in spaces : k <= i
      <4>1. spaces \subseteq Nat
        BY <1>1, <1>2
      <4> QED
        BY <2>2, <4>1, LeastSignal
    <3>2. k \in 1 .. Len(path)
      BY <1>2
    <3>3. k - 1 \in 0 .. Len(path) /\ (k - 1) + 1 = k
      BY <1>1, <3>2
    <3>4. \A i \in spaces : k - 1 < i
      BY <1>2, <3>1, <3>2
    <3>5. Ends(k - 1)
      BY <3>3, <3>4
    <3> QED
      BY <3>3, <3>5
  <2> QED
    BY <2>1, <2>2
<1>6. spaces = {} => \A n \in 0 .. Len(path) : Ends(n) => n = Len(path)
  OBVIOUS
<1> HIDE DEF Ends
<1>7. PICK n \in 0 .. Len(path) : n = (CHOOSE k \in 0 .. Len(path) : Ends(k)) /\ Ends(n)
  BY <1>5
<1>8. Word(path) = SubSeq(path, 1, n)
  BY <1>4, <1>7
<1>9. SubSeq(path, 1, n) \in Seq(Nat) /\ Len(SubSeq(path, 1, n)) <= Len(path)
  BY <1>1
<1>10. n = Len(path) => SubSeq(path, 1, n) = path
  BY <1>1
<1> QED
  BY <1>3, <1>6, <1>7, <1>8, <1>9, <1>10

\* What is read from the text of a path
LEMMA UnixInput ==
    ASSUME NEW path \in Seq(Nat), NEW w, w = Word(path)
    PROVE  /\ w \in Seq(Nat) /\ Len(w) <= Len(path)
           /\ Input(UnixText(path)) = {IF w # <<>> /\ w[1] = At THEN CreateAbstractUnix(Tail(w))
                                       ELSE IF w = <<>> THEN CreateUnixAny ELSE CreateUnix(w)}
<1>1. UnixText(path).kind = "unix" /\ UnixText(path).path = path
  BY DEF UnixText
<1>2. Input(UnixText(path)) = {IF w # <<>> /\ w[1] = At THEN CreateAbstractUnix(Tail(w))
                               ELSE IF w = <<>> THEN CreateUnixAny ELSE CreateUnix(w)}
  BY <1>1 DEF Input
<1> QED
  BY <1>2, WordOf

\* It is a proper Unix address, if it is not too long.
LEMMA UnixInputMade ==
    ASSUME NEW path \in Seq(Nat), NEW s \in Input(UnixText(path)), s # TooLong PROVE UnixMade(s)
<1>1. PICK w : w = Word(path)
  OBVIOUS
<1>2. /\ w \in Seq(Nat)
      /\ s = IF w # <<>> /\ w[1] = At THEN CreateAbstractUnix(Tail(w))
             ELSE IF w = <<>> THEN CreateUnixAny ELSE CreateUnix(w)
  BY <1>1, UnixInput
<1>3. CASE w # <<>> /\ w[1] = At
  <2>1. Tail(w) \in Seq(Nat)
    BY <1>2, <1>3
  <2> QED
    BY <1>2, <1>3, <2>1, CreateAbstractMade
<1>4. CASE w = <<>>
  BY <1>2, <1>4, AnyUnix DEF UnixMade
<1>5. CASE w # <<>> /\ w[1] # At
  BY <1>2, <1>5, CreateUnixMade
<1> QED
  BY <1>3, <1>4, <1>5

\* What is read from the text of an IP address
LEMMA IPInput ==
    ASSUME NEW node, NEW scope, NEW service
    PROVE  /\ Input(IPText("ipv4", node, scope, service)) = WithService(IPv4, node, scope, service)
           /\ Input(IPText("ipv6", node, scope, service)) = WithService(IPv6, node, scope, service)
BY DEF Input, IPText

\* It is an address of getaddrinfo().
LEMMA IPInputMade ==
    ASSUME NEW family, NEW node \in DOMAIN Nodes, NEW scope \in Nat, NEW service,
           NEW s \in WithService(family, node, scope, service)
    PROVE  MadeIP(s)
BY ServicePorts, AddrInfoMade DEF WithService

-----------------------------------------------------------------------------
(* Every step leaves a proper address. *)

\* operator >> gives a proper address,
LEMMA ReadStep ==
    ASSUME NEW t \in Texts, NEW s \in Input(t) \ {TooLong} PROVE Well(s)
<1>1. CASE \E p \in UnixPaths : t = UnixText(p)
  BY <1>1, PathsAreSequences, UnixInputMade DEF UnixMade, Fits
<1>2. ASSUME NEW n \in DOMAIN Nodes, NEW v \in Services, t = IPText("ipv4", n, 0, v) PROVE Well(s)
  <2>1. s \in WithService(IPv4, n, 0, v)
    BY <1>2, IPInput
  <2> QED
    BY <2>1, IPInputMade, MadeIPWell DEF Fits
<1>3. ASSUME NEW n \in DOMAIN Nodes, NEW c \in {0, 1}, NEW v \in Services, t = IPText("ipv6", n, c, v) PROVE Well(s)
  <2>1. s \in WithService(IPv6, n, c, v) /\ c \in Nat
    BY <1>3, IPInput
  <2> QED
    BY <2>1, IPInputMade, MadeIPWell DEF Fits
<1> DEFINE A == {UnixText(p) : p \in UnixPaths}
           B == {IPText("ipv4", n, 0, v) : n \in DOMAIN Nodes, v \in Services}
           C == {IPText("ipv6", n, c, v) : n \in DOMAIN Nodes, c \in {0, 1}, v \in Services}
<1>4. Texts = A \cup B \cup C
  BY DEF Texts
<1>5. t \in A => Well(s)
  BY <1>1
<1>6. t \in B => Well(s)
  BY <1>2
<1>7. t \in C => Well(s)
  BY <1>3
<1> HIDE DEF A, B, C
<1> QED
  BY <1>4, <1>5, <1>6, <1>7

\* and so do the constructors from memory,
LEMMA PointerStep ==
    ASSUME NEW s, Well(s), NEW n \in Sizes PROVE Well(FromMemory(s.mem, n))
<1> DEFINE k == IF n < MemSize THEN n ELSE MemSize
           cells == SubSeq(s.mem, 1, k)
           r == Make(cells, k)
<1>1. n \in Nat /\ MemSize \in Nat /\ MemSize >= 7
  BY SizesAssumption, SizeFacts
<1>2. k \in 0 .. MemSize
  BY <1>1
<1>3. FromMemory(s.mem, n) = r
  BY DEF FromMemory
<1> HIDE DEF k
<1>4. s.mem \in Seq(Nat) /\ Len(s.mem) = MemSize /\ s.mem \in [1 .. MemSize -> Nat]
  BY <1>1, WellMem
<1>5. Len(cells) = k /\ \A i \in 1 .. k : cells[i] = s.mem[i]
  BY <1>1, <1>2, <1>4
<1> HIDE DEF cells
<1> DEFINE m == [i \in 1 .. MemSize |-> IF i <= k THEN s.mem[i] ELSE 0]
<1>6. \A i \in 1 .. MemSize : (IF i <= Len(cells) THEN cells[i] ELSE 0) = IF i <= k THEN s.mem[i] ELSE 0
  BY <1>2, <1>5
<1>7. r = [mem |-> m, used |-> k]
  BY <1>6 DEF Make, Padded
<1>8. m \in [1 .. MemSize -> Nat]
  BY <1>2, <1>4
<1>9. m[MemSize] = 0
  BY <1>1 DEF Well
<1>10. m[1] \in {0, s.mem[1]} /\ m[2] \in {0, s.mem[2]} /\ m[3] \in {0, s.mem[3]}
  BY <1>1, <1>2
<1> HIDE DEF m, r
<1>11. r.mem = m /\ r.used = k /\ r \in AddressType
  BY <1>2, <1>7, <1>8, SizeFacts DEF AddressType
<1>12. m[1] \in {IPv4, IPv6} => m[2] \in {0, 1} /\ m[3] \in {0, 1}
  BY <1>10 DEF Well, IPv4, IPv6
<1> QED
  BY <1>3, <1>9, <1>11, <1>12 DEF Well

\* setUsedSize(),
LEMMA SizeStep ==
    ASSUME NEW s, Well(s), NEW n \in Sizes PROVE Well([s EXCEPT !.used = n])
<1>1. n \in 0 .. Modulus - 1
  BY SizesAssumption
<1>2. PICK r : r = [s EXCEPT !.used = n]
  OBVIOUS
<1>3. r \in AddressType /\ r.mem = s.mem /\ r.used = n
  BY <1>1, <1>2 DEF Well, AddressType
<1> QED
  BY <1>1, <1>2, <1>3 DEF Well

\* What the kernel writes into the room that there is
Filled(s, k) ==
    [mem |-> [i \in 1 .. MemSize |-> IF i <= AvailableSize(s) /\ i <= k.used THEN k.mem[i] ELSE s.mem[i]],
     used |-> k.used]

\* and the kernel, however much it has to leave out.
LEMMA FillStep ==
    ASSUME NEW s, Well(s), NEW k \in KernelAddresses PROVE Well(Filled(s, k))
<1>1. Well(k) /\ k.used >= 1 /\ k.mem[1] \in {Unix, IPv4, IPv6} /\ (k.mem[1] # Unix => k.used >= 4)
  BY KernelWell DEF Fits
<1>2. PICK room \in Nat : room = AvailableSize(s) /\ room >= 4
  <2>1. AvailableSize(s) \in {SizeUn, SizeIn, SizeIn6, MemSize}
    BY DEF AvailableSize
  <2>2. \A x \in {SizeUn, SizeIn, SizeIn6, MemSize} : x \in Nat /\ x >= 4
    BY SizeFacts
  <2> QED
    BY <2>1, <2>2
<1>3. /\ k.used \in 0 .. Modulus - 1 /\ k.used \in Nat /\ MemSize \in Nat /\ MemSize >= 7
      /\ \A i \in 1 .. MemSize : s.mem[i] \in Nat /\ k.mem[i] \in Nat
  BY <1>1, WellMem, SizeFacts
<1> DEFINE m == [i \in 1 .. MemSize |-> IF i <= room /\ i <= k.used THEN k.mem[i] ELSE s.mem[i]]
           r == [mem |-> m, used |-> k.used]
<1>4. Filled(s, k) = r
  BY <1>2 DEF Filled
<1>5. m \in [1 .. MemSize -> Nat]
  BY <1>3
<1>6. m[MemSize] = 0
  BY <1>1, <1>3 DEF Well
<1>7. m[1] = k.mem[1]
  BY <1>1, <1>2, <1>3
<1>8. k.used >= 4 => m[2] = k.mem[2] /\ m[3] = k.mem[3]
  BY <1>2, <1>3
<1> HIDE DEF m
<1>9. r \in AddressType /\ r.mem = m /\ r.used = k.used
  BY <1>3, <1>5 DEF AddressType
<1> HIDE DEF r
<1>10. m[1] \in {IPv4, IPv6} => m[2] \in {0, 1} /\ m[3] \in {0, 1}
  BY <1>1, <1>7, <1>8 DEF Well, Unix, IPv4, IPv6
<1> QED
  BY <1>1, <1>4, <1>6, <1>9, <1>10 DEF Well

SaInv == Well(sa)

\* The inductive invariant holds in the beginning.
LEMMA SaInvInit == SaInit => SaInv
BY DefaultWell DEF SaInit, SaInv

\* Every operation keeps the inductive invariant.
LEMMA SaInvStep == SaInv /\ [SaNext]_saVars => SaInv'
<1> SUFFICES ASSUME Well(sa), [SaNext]_saVars PROVE Well(sa')
  BY DEF SaInv
<1>1. CASE Assign
  BY <1>1, AnyWell DEF Assign, Fits
<1>2. CASE Read
  BY <1>2, ReadStep DEF Read
<1>3. CASE FromPointer
  BY <1>3, AnyWell, PointerStep DEF FromPointer, Fits
<1>4. CASE SetUsedSize
  BY <1>4, SizeStep DEF SetUsedSize
<1>5. CASE Fill
  BY <1>5, FillStep DEF Fill, Filled
<1>6. CASE UNCHANGED saVars
  BY <1>6 DEF saVars
<1> QED
  BY <1>1, <1>2, <1>3, <1>4, <1>5, <1>6 DEF SaNext

-----------------------------------------------------------------------------
(* operator << and operator >> *)

\* operator << by families
LEMMA OutputIs ==
    ASSUME NEW s, Well(s)
    PROVE  /\ s.mem[1] = Unix => Output(s) = UnixText(PathText(s))
           /\ s.mem[1] = IPv4 => Output(s) = IPText("ipv4", NodeOf(IPv4, s.mem[4]), 0, Text(Swap(IPPort(s))))
           /\ s.mem[1] = IPv6 => Output(s) = IPText("ipv6", NodeOf(IPv6, s.mem[5]), s.mem[6], Text(Swap(IPPort(s))))
           /\ s.mem[1] \notin {Unix, IPv4, IPv6} => Output(s) = NoText
<1>1. Unix # IPv4 /\ Unix # IPv6 /\ IPv4 # IPv6
  BY DEF Unix, IPv4, IPv6
<1>2. s.mem[1] = IPv4 => Address(s) = s.mem[4]
  BY DEF Address, Family
<1>3. s.mem[1] = IPv6 => Address(s) = s.mem[5] /\ ScopeId(s) = s.mem[6]
  BY <1>1 DEF Address, Family, ScopeId
<1> QED
  BY <1>1, <1>2, <1>3 DEF Output, Family

\* The text of a Unix address has no NUL.
LEMMA PathTextFacts ==
    ASSUME NEW s, Well(s)
    PROVE  PathText(s) \in Seq(Nat) /\ \A i \in 1 .. Len(PathText(s)) : PathText(s)[i] # NUL
<1>1. PICK c \in Seq(Nat) : c = Characters(s) /\ \A i \in 1 .. Len(c) : c[i] # NUL
  BY CharactersAre, CharactersNotNUL
<1>2. CASE IsAbstract(s)
  <2>1. PICK p : p = <<At>> \o c
    OBVIOUS
  <2>2. p \in Seq(Nat) /\ Len(p) = Len(c) + 1 /\ p[1] = At /\ \A i \in 1 .. Len(c) : p[i + 1] = c[i]
    BY <2>1 DEF At
  <2>3. ASSUME NEW i \in 1 .. Len(p) PROVE p[i] # NUL
    <3>1. CASE i = 1
      BY <2>2, <3>1 DEF At, NUL
    <3>2. CASE i > 1
      <4>1. i - 1 \in 1 .. Len(c) /\ (i - 1) + 1 = i
        BY <2>2, <3>2
      <4> QED
        BY <1>1, <2>2, <4>1
    <3> QED
      BY <2>2, <3>1, <3>2
  <2>4. PathText(s) = p
    BY <1>1, <1>2, <2>1, PathTextIs
  <2> QED
    BY <2>2, <2>3, <2>4
<1>3. CASE ~IsAbstract(s)
  BY <1>1, <1>3, PathTextIs
<1> QED
  BY <1>2, <1>3

\* The text of a Unix address, read again, gives the same text.
LEMMA UnixTextStable ==
    ASSUME NEW p \in Seq(Nat), \A i \in 1 .. Len(p) : p[i] # NUL, Space \notin Range(p), p # <<At>>,
           NEW s \in Input(UnixText(p)), s # TooLong
    PROVE  Output(s) = UnixText(p)
<1>1. p = Word(p)
  BY WordOf
<1>2. s = IF p # <<>> /\ p[1] = At THEN CreateAbstractUnix(Tail(p))
          ELSE IF p = <<>> THEN CreateUnixAny ELSE CreateUnix(p)
  BY <1>1, UnixInput
<1> SUFFICES Well(s) /\ s.mem[1] = Unix /\ PathText(s) = p
  BY OutputIs
<1>3. CASE p # <<>> /\ p[1] = At
  <2>1. PICK q : q = Tail(p)
    OBVIOUS
  <2>2. /\ q \in Seq(Nat) /\ Len(p) \in Nat /\ Len(p) > 0 /\ Len(q) = Len(p) - 1
        /\ \A i \in 1 .. Len(q) : q[i] = p[i + 1]
    BY <1>3, <2>1
  <2>3. p = <<At>> \o q
    <3>1. <<At>> \o q \in Seq(Nat) /\ Len(<<At>> \o q) = Len(p)
      BY <2>2 DEF At
    <3>2. ASSUME NEW i \in 1 .. Len(p) PROVE (<<At>> \o q)[i] = p[i]
      <4>1. CASE i = 1
        BY <1>3, <2>2, <4>1
      <4>2. CASE i > 1
        <5>1. i - 1 \in 1 .. Len(q) /\ (i - 1) + 1 = i
          BY <2>2, <4>2
        <5>2. (<<At>> \o q)[i] = q[i - 1]
          BY <2>2, <4>2
        <5> QED
          BY <2>2, <5>1, <5>2
      <4> QED
        BY <2>2, <4>1, <4>2
    <3> QED
      BY <3>1, <3>2, SameSequence
  <2>4. q # <<>>
    <3> SUFFICES ASSUME q = <<>> PROVE FALSE
      OBVIOUS
    <3>1. <<At>> \o <<>> = <<At>>
      OBVIOUS
    <3> QED
      BY <2>3, <3>1
  <2>5. ASSUME NEW i \in 1 .. Len(q) PROVE q[i] # NUL
    <3>1. i + 1 \in 1 .. Len(p)
      BY <2>2
    <3> QED
      BY <2>2, <3>1
  <2>6. s = CreateAbstractUnix(q)
    BY <1>2, <1>3, <2>1
  <2>7. Len(q) <= PathSize - 1
    <3>1. ~(Len(q) > PathSize - 1)
      BY <2>6 DEF CreateAbstractUnix
    <3> QED
      BY <2>2, <3>1, SizeFacts
  <2> QED
    BY <2>2, <2>3, <2>4, <2>5, <2>6, <2>7, AbstractUnix
<1>4. CASE p = <<>>
  BY <1>2, <1>4, AnyUnix DEF Fits
<1>5. CASE p # <<>> /\ p[1] # At
  <2>1. s = CreateUnix(p)
    BY <1>2, <1>5
  <2>2. Len(p) < PathSize
    <3>1. ~(Len(p) >= PathSize)
      BY <2>1 DEF CreateUnix
    <3> QED
      BY <3>1, SizeFacts
  <2> QED
    BY <1>5, <2>1, <2>2, PathUnix
<1> QED
  BY <1>3, <1>4, <1>5

\* What operator << prints of a Unix address is not refused, and not too long unless
\* it fills sun_path.
LEMMA UnixTextRead ==
    ASSUME NEW p \in Seq(Nat), Len(p) <= PathSize
    PROVE  /\ Input(UnixText(p)) # {}
           /\ TooLong \in Input(UnixText(p)) => Len(p) = PathSize
<1>1. PICK w : w = Word(p)
  OBVIOUS
<1>2. /\ w \in Seq(Nat) /\ Len(w) <= Len(p)
      /\ Input(UnixText(p)) = {IF w # <<>> /\ w[1] = At THEN CreateAbstractUnix(Tail(w))
                               ELSE IF w = <<>> THEN CreateUnixAny ELSE CreateUnix(w)}
  BY <1>1, UnixInput
<1>3. PICK m \in Nat, n \in Nat : m = Len(w) /\ n = Len(p) /\ m <= n /\ n <= PathSize
  BY <1>2
<1>4. CASE w # <<>> /\ w[1] = At
  <2>1. Tail(w) \in Seq(Nat) /\ Len(Tail(w)) = m - 1
    BY <1>2, <1>3, <1>4
  <2>2. ~(Len(Tail(w)) > PathSize - 1)
    BY <1>3, <2>1, SizeFacts
  <2>3. CreateAbstractUnix(Tail(w)).used = Off + Len(Tail(w)) + 1
    BY <2>2 DEF CreateAbstractUnix, Make
  <2>4. CreateAbstractUnix(Tail(w)).used # 0
    BY <1>3, <2>1, <2>3, SizeFacts
  <2>5. CreateAbstractUnix(Tail(w)) # TooLong
    BY <2>4 DEF TooLong
  <2> QED
    BY <1>2, <1>4, <2>5
<1>5. CASE w = <<>>
  <2>1. CreateUnixAny # TooLong
    BY AnyUnix DEF TooLong
  <2> QED
    BY <1>2, <1>5, <2>1
<1>6. CASE w # <<>> /\ w[1] # At
  <2>1. Input(UnixText(p)) = {CreateUnix(w)}
    BY <1>2, <1>6
  <2>2. CASE m < PathSize
    <3>1. CreateUnix(w).used = Off + m + 1
      BY <1>3, <2>2, SizeFacts DEF CreateUnix, Make
    <3>2. CreateUnix(w) # TooLong
      BY <3>1, SizeFacts DEF TooLong
    <3> QED
      BY <2>1, <3>2
  <2>3. CASE ~(m < PathSize)
    <3>1. n = PathSize
      BY <1>3, <2>3, SizeFacts
    <3> QED
      BY <1>3, <2>1, <3>1
  <2> QED
    BY <2>2, <2>3
<1> QED
  BY <1>4, <1>5, <1>6

\* A port is a port.
LEMMA WellPort ==
    ASSUME NEW s, Well(s), s.mem[1] \in {IPv4, IPv6} PROVE IPPort(s) \in Ports
<1>1. s.mem[2] \in {0, 1} /\ s.mem[3] \in {0, 1}
  BY DEF Well
<1> QED
  BY <1>1 DEF IPPort, Ports

\* What is read from the text of an IP address
LEMMA IPv4Read ==
    ASSUME NEW s, Well(s), s.mem[1] = IPv4, NEW b \in {0, 1}, b = 0 <=> s.mem[4] = 0
    PROVE  /\ Input(Output(s)) = {FromIPv4(b, IPPort(s))}
           /\ Output(FromIPv4(b, IPPort(s))) = Output(s)
           /\ FromIPv4(b, IPPort(s)) # TooLong
<1>1. PICK p \in Ports : p = IPPort(s)
  BY WellPort
<1>2. PICK a \in Nat : a = s.mem[4]
  <2>1. 4 \in 1 .. MemSize
    BY SizeFacts
  <2> QED
    BY <2>1, WellMem
<1>3. PICK node : node = NodeOf(IPv4, a)
  OBVIOUS
<1>4. PICK text : text = Text(Swap(p))
  OBVIOUS
<1>5. Output(s) = IPText("ipv4", node, 0, text)
  BY <1>1, <1>2, <1>3, <1>4, OutputIs
<1>6. Nodes[node].v4 = {b} /\ NodeOf(IPv4, b) = node
  BY <1>2, <1>3, NodesOf
<1>7. GetServByName(text) = {p}
  BY <1>4, PortOfText
<1>8. Input(IPText("ipv4", node, 0, text)) = GetAddrInfo(IPv4, node, 0, {p})
  BY <1>7, IPInput DEF WithService
<1>9. GetAddrInfo(IPv4, node, 0, {p}) = {FromIPv4(b, p)}
  BY <1>6 DEF GetAddrInfo, IPv4, IPv6
<1>10. V4Cells(FromIPv4(b, p), b, p)
  <2>1. b \in Nat
    OBVIOUS
  <2> QED
    BY <2>1, V4Facts
<1>11. Output(FromIPv4(b, p)) = IPText("ipv4", node, 0, text)
  BY <1>4, <1>6, <1>10, OutputIs DEF V4Cells
<1>12. FromIPv4(b, p) # TooLong
  BY <1>10 DEF V4Cells, TooLong
<1> QED
  BY <1>1, <1>5, <1>8, <1>9, <1>11, <1>12

\* The same for IPv6, with the scope
LEMMA IPv6Read ==
    ASSUME NEW s, Well(s), s.mem[1] = IPv6, NEW b \in {0, 1}, b = 0 <=> s.mem[5] = 0
    PROVE  /\ Input(Output(s)) = {FromIPv6(b, s.mem[6], IPPort(s))}
           /\ Output(FromIPv6(b, s.mem[6], IPPort(s))) = Output(s)
           /\ FromIPv6(b, s.mem[6], IPPort(s)) # TooLong
<1>1. PICK p \in Ports : p = IPPort(s)
  BY WellPort
<1>2. PICK a \in Nat, c \in Nat : a = s.mem[5] /\ c = s.mem[6]
  <2>1. 5 \in 1 .. MemSize /\ 6 \in 1 .. MemSize
    BY SizeFacts
  <2> QED
    BY <2>1, WellMem
<1>3. PICK node : node = NodeOf(IPv6, a)
  OBVIOUS
<1>4. PICK text : text = Text(Swap(p))
  OBVIOUS
<1>5. Output(s) = IPText("ipv6", node, c, text)
  BY <1>1, <1>2, <1>3, <1>4, OutputIs
<1>6. Nodes[node].v6 = {b} /\ NodeOf(IPv6, b) = node
  BY <1>2, <1>3, NodesOf
<1>7. GetServByName(text) = {p}
  BY <1>4, PortOfText
<1>8. Input(IPText("ipv6", node, c, text)) = GetAddrInfo(IPv6, node, c, {p})
  BY <1>7, IPInput DEF WithService
<1>9. GetAddrInfo(IPv6, node, c, {p}) = {FromIPv6(b, c, p)}
  BY <1>6 DEF GetAddrInfo, IPv4, IPv6
<1>10. V6Cells(FromIPv6(b, c, p), b, c, p)
  <2>1. b \in Nat
    OBVIOUS
  <2> QED
    BY <2>1, V6Facts
<1>11. Output(FromIPv6(b, c, p)) = IPText("ipv6", node, c, text)
  BY <1>4, <1>6, <1>10, OutputIs DEF V6Cells
<1>12. FromIPv6(b, c, p) # TooLong
  BY <1>10 DEF V6Cells, TooLong
<1> QED
  BY <1>1, <1>2, <1>5, <1>8, <1>9, <1>11, <1>12

\* An address equals itself.
LEMMA EqualSelf == ASSUME NEW s PROVE Equal(s, s)
BY DEF Equal, Differing

\* IP addresses of the factories are read back as they were.
LEMMA ReadsBack ==
    ASSUME NEW s, Well(s), s \in Created, s.mem[1] \in {IPv4, IPv6}
    PROVE  s \in Input(Output(s))
<1>0. Unix \notin {IPv4, IPv6} /\ Unspec \notin {IPv4, IPv6} /\ IPv4 # IPv6
  BY DEF Unix, IPv4, IPv6, Unspec
<1>1. MadeV4(s) \/ MadeV6(s)
  BY <1>0, CreatedIs, DefaultWell DEF UnixMade, MadeIP
<1>2. CASE MadeV4(s)
  <2>1. PICK a \in {0, 1}, p \in Ports : s = FromIPv4(a, p)
    BY <1>2 DEF MadeV4
  <2>2. a \in Nat
    OBVIOUS
  <2>3. s.mem[1] = IPv4 /\ s.mem[4] = a /\ IPPort(s) = p
    BY <2>1, <2>2, V4Facts DEF V4Cells
  <2>4. Input(Output(s)) = {FromIPv4(a, IPPort(s))}
    BY <2>3, IPv4Read
  <2> QED
    BY <2>1, <2>3, <2>4
<1>3. CASE MadeV6(s)
  <2>1. PICK a \in {0, 1}, c \in Nat, p \in Ports : s = FromIPv6(a, c, p)
    BY <1>3 DEF MadeV6
  <2>2. a \in Nat
    OBVIOUS
  <2>3. s.mem[1] = IPv6 /\ s.mem[5] = a /\ s.mem[6] = c /\ IPPort(s) = p
    BY <2>1, <2>2, V6Facts DEF V6Cells
  <2>4. Input(Output(s)) = {FromIPv6(a, s.mem[6], IPPort(s))}
    BY <2>3, IPv6Read
  <2> QED
    BY <2>1, <2>3, <2>4
<1> QED
  BY <1>1, <1>2, <1>3

\* The inductive invariant implies what the run checks.
LEMMA SaInvMeans == SaInv => AddressSound
<1> SUFFICES ASSUME Well(sa) PROVE AddressSound
  BY DEF SaInv
<1>1. SaTypeOK
  <2>1. sa.mem \in [1 .. MemSize -> Nat] /\ sa.used \in 0 .. Modulus - 1 /\ MemSize \in Nat
    BY WellMem, SizeFacts
  <2>2. Len(sa.mem) = MemSize
    BY <2>1
  <2> QED
    BY <2>1, <2>2 DEF SaTypeOK
<1>2. OneOfThree
  BY AnyWell, Ordered DEF OneOfThree
<1>3. OutputInside
  BY OutputStaysInside DEF OutputInside, Family
<1>4. TextStable
  <2>0. PICK t : t = Output(sa)
    OBVIOUS
  <2>1. /\ t.kind # "other" => Input(t) # {}
        /\ TooLong \in Input(t) => Len(t.path) = PathSize
        /\ (t.kind = "unix" => Space \notin Range(t.path) /\ t.path # <<At>>) =>
              \A s \in Input(t) \ {TooLong} : Output(s) = t
    <3>1. CASE sa.mem[1] = Unix
      <4>1. PICK p \in Seq(Nat) : p = PathText(sa) /\ \A i \in 1 .. Len(p) : p[i] # NUL
        BY PathTextFacts
      <4>2. t = UnixText(p) /\ t.kind = "unix" /\ t.path = p
        BY <2>0, <3>1, <4>1, OutputIs DEF UnixText
      <4>3. Len(p) <= PathSize
        BY <3>1, <4>1, OutputStaysInside
      <4>4. Input(t) # {} /\ (TooLong \in Input(t) => Len(t.path) = PathSize)
        BY <4>2, <4>3, UnixTextRead
      <4>5. ASSUME Space \notin Range(p), p # <<At>>, NEW s \in Input(UnixText(p)) \ {TooLong}
            PROVE  Output(s) = UnixText(p)
        BY <4>1, <4>5, UnixTextStable
      <4> QED
        BY <4>2, <4>4, <4>5
    <3>2. CASE sa.mem[1] = IPv4
      <4>1. PICK b \in {0, 1} : b = 0 <=> sa.mem[4] = 0
        OBVIOUS
      <4>2. Input(t) = {FromIPv4(b, IPPort(sa))} /\ Output(FromIPv4(b, IPPort(sa))) = t
            /\ FromIPv4(b, IPPort(sa)) # TooLong
        BY <2>0, <3>2, <4>1, IPv4Read
      <4> QED
        BY <4>2
    <3>3. CASE sa.mem[1] = IPv6
      <4>1. PICK b \in {0, 1} : b = 0 <=> sa.mem[5] = 0
        OBVIOUS
      <4>2. Input(t) = {FromIPv6(b, sa.mem[6], IPPort(sa))} /\ Output(FromIPv6(b, sa.mem[6], IPPort(sa))) = t
            /\ FromIPv6(b, sa.mem[6], IPPort(sa)) # TooLong
        BY <2>0, <3>3, <4>1, IPv6Read
      <4> QED
        BY <4>2
    <3>4. CASE sa.mem[1] \notin {Unix, IPv4, IPv6}
      <4>1. t = NoText
        BY <2>0, <3>4, OutputIs
      <4>2. Input(NoText) = {} /\ NoText.kind = "other"
        BY DEF Input, NoText
      <4> QED
        BY <4>1, <4>2
    <3> QED
      BY <3>1, <3>2, <3>3, <3>4
  <2>2. ASSUME sa \in Created, Family(sa) \in {IPv4, IPv6} PROVE \E s \in Input(t) : Equal(s, sa)
    BY <2>0, <2>2, ReadsBack, EqualSelf DEF Family
  <2> QED
    BY <2>0, <2>1, <2>2 DEF TextStable
<1> QED
  BY <1>1, <1>2, <1>3, <1>4 DEF AddressSound

-----------------------------------------------------------------------------
(* The classes together *)

MCInv == SmInv /\ UehInv /\ FdInv /\ WcInv /\ CmInv /\ SaInv

\* The invariants of all hold in the beginning.
LEMMA MCInvInit == MCInit => MCInv
BY SmInvInit, UehInvInit, FdInvInit, WcInvInit, CmInvInit, SaInvInit DEF MCInit, MCInv

\* A step of one class leaves the others alone, and so keeps the invariants of all.
LEMMA MCInvStep == MCInv /\ [MCNext]_<<vars, uehVars, fdVars, saVars, cmVars, wcVars>> => MCInv'
<1> SUFFICES ASSUME MCInv, [MCNext]_<<vars, uehVars, fdVars, saVars, cmVars, wcVars>> PROVE MCInv'
  OBVIOUS
<1>1. [Next]_vars
  BY DEF MCNext
<1>2. [UehNext]_uehVars
  BY DEF MCNext
<1>3. [FdNext]_fdVars
  BY DEF MCNext
<1>4. [WcNext]_wcVars
  BY DEF MCNext
<1>5. [CmNext]_cmVars
  BY DEF MCNext
<1>6. [SaNext]_saVars
  BY DEF MCNext
<1> QED
  BY <1>1, <1>2, <1>3, <1>4, <1>5, <1>6, SmInvStep, UehInvStep, FdInvStep, WcInvStep, CmInvStep, SaInvStep
     DEF MCInv

\* SignalFD and SigPipeSuppressor set back the signal mask if runners are used as a
\* stack and no call has failed half-way; sigTimedWait() takes the SIGPIPE of the
\* suppressed write before it is unblocked, and leaves one that was pending before;
\* UncaughtExceptionHandler, with one user at a time, sets back the terminate handler.
\* All have their types.
THEOREM AlwaysRestored == MCSpec => []ProcessRestored
<1>1. MCInv => ProcessRestored
  BY SmInvMeans, WcInvMeans DEF MCInv, UehInv, FdInv, ProcessRestored
<1> QED
  BY <1>1, MCInvInit, MCInvStep, PTL DEF MCSpec

\* ControlMessage: of any bytes and used size, the iterator ends where the used bytes
\* do, or behind the padding of a last message that ends unaligned; it finds the
\* messages that append() or the kernel wrote, if the used size is aligned, or if there
\* is one message, cut off or not.
THEOREM AlwaysIterated == MCSpec => []IterationSound
<1>1. MCInv => IterationSound
  BY CmInvMeans DEF MCInv
<1> QED
  BY <1>1, MCInvInit, MCInvStep, PTL DEF MCSpec

\* SocketAddress: an address that was made in any way, and used again in any
\* other, with any used size, can be compared with those of the factories, printed
\* without looking behind the union, and read back.
THEOREM AddressesSound == MCSpec => []AddressSound
<1>1. MCInv => AddressSound
  BY SaInvMeans DEF MCInv
<1> QED
  BY <1>1, MCInvInit, MCInvStep, PTL DEF MCSpec

\* WeakCallback: at its turn a callback calls its function if and only if its
\* callee is alive, provided that no Callee was copied.
THEOREM AlwaysTheLiving == WcSpec => CallsTheLiving
<1> DEFINE Calls ==
      \A c \in Callees : ExecuteTurn /\ running'.kind = "weak" /\ running'.callee = c /\ ~copied =>
                           (running'.calls <=> life[c] # 0)
<1>1. WcInv => Calls
  BY LivingCalled
<1> QED
  BY <1>1, WcInvInit, WcInvStep, PTL DEF WcSpec, CallsTheLiving
=============================================================================
