----------------------------- MODULE ByteQueue -----------------------------
(***************************************************************************)
(* What StreamBuffer promises: every stream buffer is a queue of bytes of  *)
(* its own.  Bytes are appended at the tail, removed or spliced off at the *)
(* head and read in place; how they are stored cannot be observed.  The    *)
(* bytes that are appended are numbered, so that no two are equal.         *)
(***************************************************************************)
EXTENDS Integers, Sequences

CONSTANTS Objects,  \* stream buffers
          Sizes     \* the numbers of bytes that are appended at once

VARIABLES content,  \* content[o]: the used data of o
          stored,   \* number of bytes appended so far
          result    \* what a read has just returned

vars == <<content, stored, result>>

Init == content = [o \in Objects |-> <<>>] /\ stored = 0 /\ result = <<>>

\* appendData, getMutableArray, or getFreeIOVec with increaseUsed
AppendBytes(o, n) ==
    /\ content' = [content EXCEPT ![o] = @ \o [i \in 1 .. n |-> stored + i]]
    /\ stored' = stored + n
    /\ result' = <<>>

\* appendStreamBuffer
AppendAll(o, p) ==
    /\ content' = [content EXCEPT ![o] = @ \o content[p]]
    /\ stored' = stored /\ result' = <<>>

\* cutHead, which may be asked to remove more than there is
Cut(o, n) ==
    /\ content' = [content EXCEPT ![o] = SubSeq(@, n + 1, Len(@))]
    /\ stored' = stored /\ result' = <<>>

\* spliceHead, the result of which is assigned to p
Splice(o, p, n) ==
    /\ content' = [content EXCEPT ![o] = SubSeq(@, n + 1, Len(@)),
                                  ![p] = SubSeq(content[o], 1, n)]
    /\ stored' = stored /\ result' = <<>>

\* the copy constructor and operator=
Copy(o, p) ==
    /\ content' = [content EXCEPT ![p] = content[o]]
    /\ stored' = stored /\ result' = <<>>

\* getData and getConstArray
Read(o, offset, n) ==
    /\ offset + n <= Len(content[o])
    /\ result' = SubSeq(content[o], offset + 1, offset + n)
    /\ UNCHANGED <<content, stored>>

Next ==
    \E o \in Objects :
        \/ \E n \in Sizes : AppendBytes(o, n)
        \/ \E n \in 1 .. Len(content[o]) : Cut(o, n)
        \/ \E offset, n \in 0 .. Len(content[o]) : Read(o, offset, n)
        \/ \E p \in Objects \ {o} :
             \/ AppendAll(o, p) \/ Copy(o, p)
             \/ \E n \in 1 .. Len(content[o]) : Splice(o, p, n)

Spec == Init /\ [][Next]_vars
=============================================================================
