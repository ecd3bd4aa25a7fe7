------------------------- MODULE ChildProcessProofs -------------------------
(***************************************************************************)
(* ChildProcess: CleanedUp and DrainedBeforeClose, for any number of       *)
(* children, any amount of data and any size of the pipes.                 *)
(*                                                                         *)
(* The inductive invariant says of each child which states of the object,  *)
(* the member pid and the process go together (ObjectOK), and of each of   *)
(* its output streams where the units are that it has written (DataOK).    *)
(***************************************************************************)
EXTENDS ChildProcess, TLAPS

\* Which states of the object and the process go together
ObjectOK(c) ==
    /\ object[c] \in {"none", "failed"} =>
         proc[c] = "none" /\ ~pid[c] /\ open[c] = {} /\ told[c] = "nothing"
    /\ object[c] = "none" => listeners[c] = {}
    /\ object[c] \in {"exists", "gone"} => proc[c] # "none" /\ listeners[c] = open[c]
    /\ object[c] = "gone" => proc[c] = "reaped"
    /\ object[c] = "exists" /\ ~pid[c] => proc[c] = "reaped"
    /\ proc[c] = "reaped" => open[c] = {}
    /\ told[c] # "nothing" => ~pid[c] /\ proc[c] = "reaped"

\* Where the units are that the child has written: until it is reaped each one is
\* in the pipe or has reached the output stream, and a pipe that was closed is
\* one that the child has closed and that has been emptied.
DataOK(c, s) ==
    /\ sink[c][s] + pipe[c][s] <= produced[c][s]
    /\ proc[c] # "reaped" => sink[c][s] + pipe[c][s] = produced[c][s]
    /\ proc[c] \in {"running", "zombie"} /\ s \notin open[c] => s \notin writing[c] /\ pipe[c][s] = 0

Inv ==
    /\ TypeOK
    /\ \A c \in Children : ObjectOK(c)
    /\ \A c \in Children, s \in Outs : DataOK(c, s)

\* Streams holds the input stream and the output streams.
LEMMA StreamsFacts == Outs \subseteq Streams /\ "in" \in Streams /\ "in" \notin Outs
BY OutsAssumption DEF Streams

\* The invariant holds in the beginning.
LEMMA InvInit == Init => Inv
<1> SUFFICES ASSUME Init PROVE Inv
  OBVIOUS
<1>1. pid \in [Children -> BOOLEAN] /\ good \in [Children -> BOOLEAN] /\ reading \in [Children -> BOOLEAN]
      /\ crashed \in BOOLEAN /\ sigchld \in BOOLEAN
  BY Zenon DEF Init
<1>2. source \in [Children -> 0 .. MaxIn] /\ stdin \in [Children -> 0 .. PipeCap] /\ handlers \in Nat
  BY SizesAssumption DEF Init
<1>3. /\ sink \in [Children -> [Outs -> 0 .. MaxOut]] /\ produced \in [Children -> [Outs -> 0 .. MaxOut]]
      /\ pipe \in [Children -> [Outs -> 0 .. PipeCap]]
  <2>1. 0 \in 0 .. MaxOut /\ 0 \in 0 .. PipeCap
    BY SizesAssumption
  <2> QED
    BY <2>1 DEF Init
<1>4. TypeOK
  BY <1>1, <1>2, <1>3 DEF Init, TypeOK
<1>5. \A c \in Children : ObjectOK(c)
  BY DEF Init, ObjectOK
<1>6. \A c \in Children, s \in Outs : DataOK(c, s)
  BY DEF Init, DataOK
<1> QED
  BY <1>4, <1>5, <1>6 DEF Inv

-----------------------------------------------------------------------------
(* The child *)

\* What the child does leaves the object alone.
LEMMA ChildStepKeeps == Inv /\ ChildStep => Inv'
<1> SUFFICES ASSUME Inv, NEW c \in Children,
                    \/ ReadStdin(c) \/ CloseStdin(c) \/ Exit(c)
                    \/ \E s \in Outs : Output(c, s) \/ CloseOutput(c, s)
             PROVE  Inv'
  BY DEF ChildStep
<1> USE SizesAssumption DEF member, streams, process, signals
<1>1. CASE ReadStdin(c)
  <2>1. TypeOK'
    BY <1>1 DEF Inv, TypeOK, ReadStdin
  <2> QED
    BY <1>1, <2>1 DEF Inv, ObjectOK, DataOK, ReadStdin
<1>2. CASE CloseStdin(c)
  <2>1. TypeOK'
    BY <1>2 DEF Inv, TypeOK, CloseStdin
  <2> QED
    BY <1>2, <2>1 DEF Inv, ObjectOK, DataOK, CloseStdin
<1>3. CASE Exit(c)
  <2>1. TypeOK'
    BY <1>3 DEF Inv, TypeOK, Exit
  <2>2. /\ proc[c] = "running" /\ proc' = [proc EXCEPT ![c] = "zombie"]
        /\ writing' = [writing EXCEPT ![c] = {}]
        /\ UNCHANGED <<object, pid, open, listeners, told, sink, pipe, produced>>
    BY <1>3 DEF Exit
  <2>3. ASSUME NEW d \in Children PROVE ObjectOK(d)'
    BY <2>2 DEF Inv, TypeOK, ObjectOK
  <2>4. ASSUME NEW d \in Children, NEW t \in Outs PROVE DataOK(d, t)'
    BY <2>2 DEF Inv, TypeOK, DataOK
  <2> QED
    BY <2>1, <2>3, <2>4 DEF Inv
<1>4. ASSUME NEW s \in Outs, Output(c, s) PROVE Inv'
  <2>0. /\ produced' = [produced EXCEPT ![c][s] = @ + 1] /\ pipe' = [pipe EXCEPT ![c][s] = @ + 1]
        /\ proc[c] = "running" /\ s \in writing[c] /\ produced[c][s] < MaxOut /\ pipe[c][s] < PipeCap
        /\ UNCHANGED <<object, pid, open, listeners, told, sink, source, good, crashed, proc, status,
                       reading, writing, stdin, sigchld, handlers>>
    BY <1>4 DEF Output
  <2>1. TypeOK'
    <3>1. produced' \in [Children -> [Outs -> 0 .. MaxOut]] /\ pipe' \in [Children -> [Outs -> 0 .. PipeCap]]
      BY <2>0 DEF Inv, TypeOK
    <3> QED
      BY <2>0, <3>1 DEF Inv, TypeOK
  <2>2. \A d \in Children : ObjectOK(d)'
    BY <2>0 DEF Inv, ObjectOK
  <2>3. ASSUME NEW d \in Children, NEW t \in Outs PROVE DataOK(d, t)'
    <3>1. DataOK(d, t) /\ sink[d][t] \in Nat /\ pipe[d][t] \in Nat /\ produced[d][t] \in Nat
      BY DEF Inv, TypeOK
    <3>2. CASE d = c /\ t = s
      BY <2>0, <3>1, <3>2 DEF Inv, TypeOK, DataOK
    <3>3. CASE ~(d = c /\ t = s)
      <4>1. produced'[d][t] = produced[d][t] /\ pipe'[d][t] = pipe[d][t]
        BY <2>0, <3>3 DEF Inv, TypeOK
      <4> QED
        BY <2>0, <3>1, <4>1 DEF DataOK
    <3> QED
      BY <3>2, <3>3
  <2> QED
    BY <2>1, <2>2, <2>3 DEF Inv
<1>5. ASSUME NEW s \in Outs, CloseOutput(c, s) PROVE Inv'
  <2>1. TypeOK'
    BY <1>5 DEF Inv, TypeOK, CloseOutput
  <2> QED
    BY <1>5, <2>1 DEF Inv, TypeOK, ObjectOK, DataOK, CloseOutput
<1> QED
  BY <1>1, <1>2, <1>3, <1>4, <1>5

-----------------------------------------------------------------------------
(* The parent: construction and destruction *)

\* A new object has a process that runs and all of its pipes.
LEMMA CreateKeeps == ASSUME Inv, NEW c \in Children, Create(c) PROVE Inv'
<1> USE DEF member, streams, process, signals
<1>0. /\ object[c] = "none" /\ object' = [object EXCEPT ![c] = "exists"]
      /\ pid' = [pid EXCEPT ![c] = TRUE]
      /\ open' = [open EXCEPT ![c] = Streams]
      /\ listeners' = [listeners EXCEPT ![c] = Streams]
      /\ proc' = [proc EXCEPT ![c] = "running"]
      /\ reading' = [reading EXCEPT ![c] = TRUE]
      /\ writing' = [writing EXCEPT ![c] = Outs]
      /\ UNCHANGED <<source, good, sink, told, crashed, status, stdin, pipe, produced, sigchld, handlers>>
  BY DEF Create
<1>1. TypeOK'
  BY <1>0 DEF Inv, TypeOK
<1>2. ASSUME NEW d \in Children PROVE ObjectOK(d)'
  BY <1>0 DEF Inv, TypeOK, ObjectOK
<1>3. ASSUME NEW d \in Children, NEW t \in Outs PROVE DataOK(d, t)'
  <2>1. DataOK(d, t) /\ ObjectOK(d)
    BY DEF Inv
  <2> QED
    BY <1>0, <2>1, StreamsFacts DEF Inv, TypeOK, DataOK, ObjectOK
<1> QED
  BY <1>1, <1>2, <1>3 DEF Inv

\* A constructor that throws leaves at most listeners behind.
LEMMA CreateFailsKeeps == ASSUME Inv, NEW c \in Children, CreateFails(c) PROVE Inv'
<1> USE DEF member, streams, process, signals
<1>0. PICK added \in {{}, {"in"}, {"in"} \cup (Outs \ {"err"}), Streams} :
        /\ object[c] = "none" /\ object' = [object EXCEPT ![c] = "failed"]
        /\ listeners' = [listeners EXCEPT ![c] = added]
        /\ UNCHANGED <<pid, open, source, good, sink, told, crashed, proc, status, reading, writing,
                       stdin, pipe, produced, sigchld, handlers>>
  BY DEF CreateFails
<1>1. added \subseteq Streams
  BY StreamsFacts
<1>2. TypeOK'
  BY <1>0, <1>1 DEF Inv, TypeOK
<1>3. ASSUME NEW d \in Children PROVE ObjectOK(d)'
  BY <1>0 DEF Inv, TypeOK, ObjectOK
<1>4. \A d \in Children, t \in Outs : DataOK(d, t)'
  BY <1>0 DEF Inv, DataOK
<1> QED
  BY <1>2, <1>3, <1>4 DEF Inv

\* waitpid() keeps the types, and changes nothing but the processes it returned.
LEMMA ReapedFacts ==
    ASSUME TypeOK, NEW cs \in SUBSET Children, Reaped(cs)
    PROVE  /\ proc' \in [Children -> {"none", "running", "zombie", "reaped"}]
           /\ status' \in [Children -> Statuses \cup {"nothing"}]
           /\ reading' \in [Children -> BOOLEAN] /\ writing' \in [Children -> SUBSET Outs]
           /\ stdin' \in [Children -> 0 .. PipeCap]
           /\ pipe' \in [Children -> [Outs -> 0 .. PipeCap]]
           /\ produced' = produced
           /\ \A d \in Children : proc'[d] = IF d \in cs THEN "reaped" ELSE proc[d]
           /\ \A d \in Children : writing'[d] = IF d \in cs THEN {} ELSE writing[d]
           /\ \A d \in Children, t \in Outs : pipe'[d][t] = IF d \in cs THEN 0 ELSE pipe[d][t]
<1>1. reading' \in [Children -> BOOLEAN]
  BY Zenon DEF Reaped
<1>2. stdin' \in [Children -> 0 .. PipeCap] /\ pipe' \in [Children -> [Outs -> 0 .. PipeCap]]
  BY SizesAssumption DEF Reaped, TypeOK
<1>3. /\ proc' \in [Children -> {"none", "running", "zombie", "reaped"}]
      /\ status' \in [Children -> Statuses \cup {"nothing"}]
      /\ writing' \in [Children -> SUBSET Outs]
  BY DEF Reaped, TypeOK
<1>4. /\ produced' = produced
      /\ \A d \in Children : proc'[d] = IF d \in cs THEN "reaped" ELSE proc[d]
      /\ \A d \in Children : writing'[d] = IF d \in cs THEN {} ELSE writing[d]
      /\ \A d \in Children, t \in Outs : pipe'[d][t] = IF d \in cs THEN 0 ELSE pipe[d][t]
  BY DEF Reaped, TypeOK
<1> QED
  BY <1>1, <1>2, <1>3, <1>4

\* kill() of a child, explicit or by the destructor: the process is reaped
\* afterwards, if it was not before, and nothing is open or listened to.
LEMMA KilledKeeps ==
    ASSUME Inv, NEW c \in Children, object[c] = "exists", CloseAll(c),
           NEW cs \in SUBSET {c},
           Reaped(cs) \/ (cs = {} /\ UNCHANGED process), proc[c] = "reaped" \/ cs = {c},
           object' = object \/ object' = [object EXCEPT ![c] = "gone"],
           crashed' \in BOOLEAN, sigchld' \in BOOLEAN,
           UNCHANGED <<pid, source, good, sink, told, handlers>>
    PROVE  Inv'
<1>1. /\ proc' \in [Children -> {"none", "running", "zombie", "reaped"}]
      /\ status' \in [Children -> Statuses \cup {"nothing"}]
      /\ reading' \in [Children -> BOOLEAN] /\ writing' \in [Children -> SUBSET Outs]
      /\ stdin' \in [Children -> 0 .. PipeCap]
      /\ pipe' \in [Children -> [Outs -> 0 .. PipeCap]]
      /\ produced' = produced
      /\ \A d \in Children : proc'[d] = IF d \in cs THEN "reaped" ELSE proc[d]
      /\ \A d \in Children : writing'[d] = IF d \in cs THEN {} ELSE writing[d]
      /\ \A d \in Children, t \in Outs : pipe'[d][t] = IF d \in cs THEN 0 ELSE pipe[d][t]
  <2>1. CASE Reaped(cs)
    BY <2>1, ReapedFacts DEF Inv
  <2>2. CASE cs = {} /\ UNCHANGED process
    BY <2>2 DEF process, Inv, TypeOK
  <2> QED
    BY <2>1, <2>2
<1>2. listeners' = [listeners EXCEPT ![c] = @ \ open[c]] /\ open' = [open EXCEPT ![c] = {}]
  BY DEF CloseAll
<1>3. /\ object' \in [Children -> {"none", "exists", "failed", "gone"}]
      /\ open' \in [Children -> SUBSET Streams] /\ listeners' \in [Children -> SUBSET Streams]
  BY <1>2 DEF Inv, TypeOK
<1>4. TypeOK'
  BY <1>1, <1>3 DEF Inv, TypeOK
<1>5. proc'[c] = "reaped" /\ listeners'[c] = {} /\ open'[c] = {} /\ object'[c] \in {"exists", "gone"}
  BY <1>1, <1>2 DEF Inv, TypeOK, ObjectOK
<1>6. \A d \in Children \ {c} : /\ proc'[d] = proc[d] /\ listeners'[d] = listeners[d] /\ open'[d] = open[d]
                                /\ object'[d] = object[d]
  BY <1>1, <1>2 DEF Inv, TypeOK
<1>7. ASSUME NEW d \in Children PROVE ObjectOK(d)'
  <2>1. ObjectOK(d) /\ pid' = pid /\ told' = told
    BY DEF Inv
  <2>2. CASE d = c
    BY <1>5, <2>1, <2>2 DEF ObjectOK
  <2>3. CASE d # c
    BY <1>6, <2>1, <2>3 DEF ObjectOK
  <2> QED
    BY <2>2, <2>3
<1>8. ASSUME NEW d \in Children, NEW t \in Outs PROVE DataOK(d, t)'
  <2>1. DataOK(d, t) /\ sink' = sink /\ sink[d][t] \in Nat /\ pipe[d][t] \in Nat /\ produced[d][t] \in Nat
    BY DEF Inv, TypeOK
  <2>2. CASE d = c
    BY <1>1, <1>5, <2>1, <2>2 DEF DataOK
  <2>3. CASE d # c
    BY <1>1, <1>6, <2>1, <2>3 DEF DataOK
  <2> QED
    BY <2>2, <2>3
<1> QED
  BY <1>4, <1>7, <1>8 DEF Inv

\* kill()
LEMMA KillKeeps == ASSUME Inv, NEW c \in Children, Kill(c) PROVE Inv'
<1>1. /\ object[c] = "exists" /\ CloseAll(c)
      /\ UNCHANGED <<object, pid, source, good, sink, told, crashed>>
  BY DEF Kill, streams
<1>2. crashed' \in BOOLEAN
  BY <1>1, Zenon DEF Inv, TypeOK
<1>3. CASE pid[c]
  <2>1. Reaped({c}) /\ sigchld' \in BOOLEAN /\ handlers' = handlers
    BY <1>3 DEF Kill, KillAndWait
  <2> QED
    BY <1>1, <1>2, <2>1, KilledKeeps
<1>4. CASE ~pid[c]
  <2>1. UNCHANGED process /\ sigchld' = sigchld /\ handlers' = handlers
    BY <1>4 DEF Kill, signals
  <2>2. proc[c] = "reaped"
    BY <1>1, <1>4 DEF Inv, ObjectOK
  <2>3. sigchld' \in BOOLEAN
    BY <2>1, Zenon DEF Inv, TypeOK
  <2> QED
    BY <1>1, <1>2, <2>1, <2>2, <2>3, KilledKeeps
<1> QED
  BY <1>3, <1>4

\* ~ChildProcess
LEMMA DestroyKeeps == ASSUME Inv, NEW c \in Children, Destroy(c) PROVE Inv'
<1>1. /\ object[c] = "exists" /\ object' = [object EXCEPT ![c] = "gone"] /\ CloseAll(c)
      /\ UNCHANGED <<pid, source, good, sink, told>>
  BY DEF Destroy, streams
<1>2. CASE pid[c] /\ proc[c] # "reaped"
  <2>1. Reaped({c}) /\ sigchld' \in BOOLEAN /\ handlers' = handlers /\ crashed' = crashed
    BY <1>2 DEF Destroy, KillAndWait
  <2>2. crashed' \in BOOLEAN
    BY <2>1, Zenon DEF Inv, TypeOK
  <2> QED
    BY <1>1, <2>1, <2>2, KilledKeeps
<1>3. CASE ~(pid[c] /\ proc[c] # "reaped")
  <2>1. UNCHANGED process /\ sigchld' = sigchld /\ handlers' = handlers /\ crashed' = pid[c]
    BY <1>3 DEF Destroy, signals
  <2>2. proc[c] = "reaped"
    BY <1>1, <1>3 DEF Inv, ObjectOK
  <2>3. sigchld' \in BOOLEAN /\ crashed' \in BOOLEAN
    BY <2>1, Zenon DEF Inv, TypeOK
  <2> QED
    BY <1>1, <2>1, <2>2, <2>3, KilledKeeps
<1> QED
  BY <1>2, <1>3

-----------------------------------------------------------------------------
(* The parent: events *)

\* close(fd) takes one descriptor of one child away, if it does anything.
LEMMA CloseFacts ==
    ASSUME TypeOK, NEW c \in Children, NEW s,
           Close(c, s) \/ UNCHANGED <<open, listeners>>
    PROVE  /\ open' \in [Children -> SUBSET Streams] /\ listeners' \in [Children -> SUBSET Streams]
           /\ \A d \in Children \ {c} : open'[d] = open[d] /\ listeners'[d] = listeners[d]
           /\ listeners[c] = open[c] => listeners'[c] = open'[c]
           /\ open'[c] \subseteq open[c] /\ \A t \in open[c] \ open'[c] : t = s
<1>1. open[c] \ {s} \in SUBSET Streams /\ listeners[c] \ {s} \in SUBSET Streams
  BY DEF TypeOK
<1>2. CASE Close(c, s)
  <2>1. open' = [open EXCEPT ![c] = open[c] \ {s}] /\ listeners' = [listeners EXCEPT ![c] = listeners[c] \ {s}]
    BY <1>2 DEF Close
  <2>2. open'[c] = open[c] \ {s} /\ listeners'[c] = listeners[c] \ {s}
    BY <2>1 DEF TypeOK
  <2> QED
    BY <1>1, <2>1, <2>2 DEF TypeOK
<1>3. CASE UNCHANGED <<open, listeners>>
  BY <1>3 DEF TypeOK
<1> QED
  BY <1>2, <1>3

\* An object whose descriptors are open exists, and its child is not reaped.
LEMMA OpenExists ==
    ASSUME Inv, NEW c \in Children, open[c] # {}
    PROVE  object[c] = "exists" /\ proc[c] # "reaped"
BY DEF Inv, TypeOK, ObjectOK

\* Closing a descriptor of a child that is not reaped keeps what is known of its
\* object.
LEMMA CloseObjects ==
    ASSUME Inv, NEW c \in Children, open[c] # {}, NEW s,
           Close(c, s) \/ UNCHANGED <<open, listeners>>,
           UNCHANGED <<object, pid, told, proc>>
    PROVE  \A d \in Children : ObjectOK(d)'
<1> SUFFICES ASSUME NEW d \in Children PROVE ObjectOK(d)'
  OBVIOUS
<1>1. ObjectOK(d) /\ TypeOK
  BY DEF Inv
<1>2. CASE d = c
  BY <1>1, <1>2, OpenExists, CloseFacts DEF ObjectOK
<1>3. CASE d # c
  BY <1>1, <1>3, CloseFacts DEF ObjectOK
<1> QED
  BY <1>2, <1>3

\* Reading an output pipe until it is empty: the units reach the output stream.
LEMMA HandleEventInKeeps == ASSUME Inv, NEW c \in Children, NEW s \in Outs, HandleEventIn(c, s) PROVE Inv'
<1>0. /\ s \in open[c]
      /\ sink' = [sink EXCEPT ![c][s] = @ + pipe[c][s]] /\ pipe' = [pipe EXCEPT ![c][s] = 0]
      /\ UNCHANGED <<object, pid, source, good, told, crashed, proc, status, reading, writing,
                     stdin, produced, sigchld, handlers>>
  BY DEF HandleEventIn, signals
<1>1. \/ s \in writing[c] /\ UNCHANGED <<open, listeners>>
      \/ s \notin writing[c] /\ Close(c, s)
  BY DEF HandleEventIn
<1>c. /\ open' \in [Children -> SUBSET Streams] /\ listeners' \in [Children -> SUBSET Streams]
      /\ \A d \in Children \ {c} : open'[d] = open[d]
      /\ open'[c] \subseteq open[c] /\ \A t \in open[c] \ open'[c] : t = s
  BY <1>1, CloseFacts DEF Inv
<1>2. TypeOK'
  <2>1. DataOK(c, s) /\ sink[c][s] \in 0 .. MaxOut /\ pipe[c][s] \in 0 .. PipeCap /\ produced[c][s] \in 0 .. MaxOut
    BY DEF Inv, TypeOK
  <2>2. sink[c][s] + pipe[c][s] \in 0 .. MaxOut /\ 0 \in 0 .. PipeCap
    BY <2>1, SizesAssumption DEF DataOK
  <2>3. sink' \in [Children -> [Outs -> 0 .. MaxOut]] /\ pipe' \in [Children -> [Outs -> 0 .. PipeCap]]
    BY <1>0, <2>2 DEF Inv, TypeOK
  <2> QED
    BY <1>0, <1>c, <2>3 DEF Inv, TypeOK
<1>3. \A d \in Children : ObjectOK(d)'
  BY <1>0, <1>1, CloseObjects
<1>4. ASSUME NEW d \in Children, NEW t \in Outs PROVE DataOK(d, t)'
  <2>1. DataOK(d, t) /\ sink[d][t] \in Nat /\ pipe[d][t] \in Nat /\ produced[d][t] \in Nat
    BY DEF Inv, TypeOK
  <2>2. CASE d = c /\ t = s
    <3>1. sink'[d][t] = sink[d][t] + pipe[d][t] /\ pipe'[d][t] = 0
      BY <1>0, <2>2 DEF Inv, TypeOK
    <3>2. t \notin open'[d] => t \notin writing[d]
      BY <1>0, <1>1, <2>2
    <3> QED
      BY <1>0, <2>1, <3>1, <3>2 DEF DataOK
  <2>3. CASE ~(d = c /\ t = s)
    <3>1. sink'[d][t] = sink[d][t] /\ pipe'[d][t] = pipe[d][t] /\ (t \in open'[d] <=> t \in open[d])
      BY <1>0, <1>c, <2>3 DEF Inv, TypeOK
    <3> QED
      BY <1>0, <2>1, <3>1 DEF DataOK
  <2> QED
    BY <2>2, <2>3
<1> QED
  BY <1>2, <1>3, <1>4 DEF Inv

\* Writing to the input pipe, or closing it
LEMMA HandleEventOutKeeps == ASSUME Inv, NEW c \in Children, HandleEventOut(c) PROVE Inv'
<1> DEFINE n == IF source[c] > 0 THEN 1 ELSE 0
<1>0. /\ "in" \in open[c] /\ stdin[c] < PipeCap
      /\ UNCHANGED <<object, pid, sink, told, crashed, proc, status, reading, writing,
                     pipe, produced, sigchld, handlers>>
  BY DEF HandleEventOut, signals
<1>1. source[c] \in 0 .. MaxIn /\ n \in {0, 1} /\ source[c] - n \in 0 .. MaxIn
  BY SizesAssumption DEF Inv, TypeOK
<1>2. Close(c, "in") \/ UNCHANGED <<open, listeners>>
  BY DEF HandleEventOut
<1>c. /\ open' \in [Children -> SUBSET Streams] /\ listeners' \in [Children -> SUBSET Streams]
      /\ \A d \in Children \ {c} : open'[d] = open[d]
      /\ open'[c] \subseteq open[c] /\ \A t \in open[c] \ open'[c] : t = "in"
  BY <1>2, CloseFacts DEF Inv
<1>3. source' = source \/ source' = [source EXCEPT ![c] = source[c] - n]
  BY DEF HandleEventOut
<1>4. stdin' = stdin \/ stdin' = [stdin EXCEPT ![c] = stdin[c] + n]
  BY DEF HandleEventOut
<1>5. \E g \in BOOLEAN : good' = good \/ good' = [good EXCEPT ![c] = g]
  BY DEF HandleEventOut
<1>6. TypeOK'
  <2>1. good' \in [Children -> BOOLEAN]
    BY <1>5 DEF Inv, TypeOK
  <2>2. source' \in [Children -> 0 .. MaxIn]
    <3>1. source \in [Children -> 0 .. MaxIn]
      BY DEF Inv, TypeOK
    <3> HIDE DEF n
    <3> QED
      BY <1>1, <1>3, <3>1
  <2>3. stdin' \in [Children -> 0 .. PipeCap]
    <3>1. stdin \in [Children -> 0 .. PipeCap]
      BY DEF Inv, TypeOK
    <3>2. stdin[c] + n \in 0 .. PipeCap
      BY <1>0, <1>1, <3>1, SizesAssumption
    <3> QED
      BY <1>4, <3>1, <3>2
  <2> QED
    BY <1>0, <1>c, <2>1, <2>2, <2>3 DEF Inv, TypeOK
<1>7. \A d \in Children : ObjectOK(d)'
  BY <1>0, <1>2, CloseObjects
<1>8. ASSUME NEW d \in Children, NEW t \in Outs PROVE DataOK(d, t)'
  <2>1. DataOK(d, t) /\ (t \in open'[d] <=> t \in open[d])
    BY <1>c, StreamsFacts DEF Inv
  <2> QED
    BY <1>0, <2>1 DEF DataOK
<1> QED
  BY <1>6, <1>7, <1>8 DEF Inv

\* The signal handler reaps the children that have died, whichever they are.
LEMMA SigChildReceivedKeeps == ASSUME Inv, SigChildReceived PROVE Inv'
<1> DEFINE dead == {c \in Children : object[c] = "exists" /\ pid[c] /\ proc[c] = "zombie"}
<1>0. /\ handlers > 0 /\ handlers' = handlers - 1 /\ Reaps(dead)
      /\ UNCHANGED <<object, source, good, sink, crashed, sigchld>>
  BY DEF SigChildReceived, streams
<1>1. /\ dead \in SUBSET Children
      /\ \A d \in dead : object[d] = "exists" /\ pid[d] /\ proc[d] = "zombie"
  OBVIOUS
<1> HIDE DEF dead
<1>2. /\ proc' \in [Children -> {"none", "running", "zombie", "reaped"}]
      /\ status' \in [Children -> Statuses \cup {"nothing"}]
      /\ reading' \in [Children -> BOOLEAN] /\ writing' \in [Children -> SUBSET Outs]
      /\ stdin' \in [Children -> 0 .. PipeCap]
      /\ pipe' \in [Children -> [Outs -> 0 .. PipeCap]]
      /\ produced' = produced
      /\ \A d \in Children : proc'[d] = IF d \in dead THEN "reaped" ELSE proc[d]
      /\ \A d \in Children : writing'[d] = IF d \in dead THEN {} ELSE writing[d]
      /\ \A d \in Children, t \in Outs : pipe'[d][t] = IF d \in dead THEN 0 ELSE pipe[d][t]
  BY <1>0, <1>1, ReapedFacts DEF Reaps, Inv
<1>3. /\ pid' = [c \in Children |-> pid[c] /\ c \notin dead]
      /\ told' = [c \in Children |-> IF c \in dead THEN status[c] ELSE told[c]]
      /\ open' = [c \in Children |-> IF c \in dead THEN {} ELSE open[c]]
      /\ listeners' = [c \in Children |-> listeners[c] \ (open[c] \ open'[c])]
  BY <1>0 DEF Reaps
<1>4. TypeOK'
  <2>1. pid' \in [Children -> BOOLEAN]
    BY <1>3, Zenon
  <2>2. told' \in [Children -> Statuses \cup {"nothing"}]
    BY <1>3 DEF Inv, TypeOK
  <2>3. open' \in [Children -> SUBSET Streams] /\ listeners' \in [Children -> SUBSET Streams]
    BY <1>3 DEF Inv, TypeOK
  <2>4. handlers' \in Nat
    BY <1>0 DEF Inv, TypeOK
  <2> QED
    BY <1>0, <1>2, <2>1, <2>2, <2>3, <2>4 DEF Inv, TypeOK
<1>5. ASSUME NEW d \in Children PROVE ObjectOK(d)'
  <2>1. ObjectOK(d) /\ object' = object
    BY <1>0 DEF Inv
  <2>2. CASE d \in dead
    <3>1. /\ proc'[d] = "reaped" /\ ~pid'[d] /\ open'[d] = {} /\ listeners'[d] = listeners[d] \ open[d]
          /\ object[d] = "exists"
      BY <1>1, <1>2, <1>3, <2>2
    <3> QED
      BY <2>1, <3>1 DEF ObjectOK
  <2>3. CASE d \notin dead
    <3>1. /\ proc'[d] = proc[d] /\ (pid'[d] <=> pid[d]) /\ open'[d] = open[d] /\ listeners'[d] = listeners[d]
          /\ told'[d] = told[d]
      BY <1>2, <1>3, <2>3
    <3> QED
      BY <2>1, <3>1 DEF ObjectOK
  <2> QED
    BY <2>2, <2>3
<1>6. ASSUME NEW d \in Children, NEW t \in Outs PROVE DataOK(d, t)'
  <2>1. DataOK(d, t) /\ sink' = sink /\ sink[d][t] \in Nat /\ pipe[d][t] \in Nat /\ produced[d][t] \in Nat
    BY <1>0 DEF Inv, TypeOK
  <2>2. CASE d \in dead
    BY <1>2, <2>1, <2>2 DEF DataOK
  <2>3. CASE d \notin dead
    <3>1. open'[d] = open[d]
      BY <1>3, <2>3
    <3> QED
      BY <1>2, <2>1, <2>3, <3>1 DEF DataOK
  <2> QED
    BY <2>2, <2>3
<1> QED
  BY <1>4, <1>5, <1>6 DEF Inv

\* Every step keeps the invariant.
LEMMA InvStep == Inv /\ [Next]_vars => Inv'
<1> SUFFICES ASSUME Inv, [Next]_vars PROVE Inv'
  OBVIOUS
<1>1. CASE ReadSignal
  <2>1. /\ UNCHANGED <<object, pid, open, listeners, told, source, good, sink, crashed, proc, status,
                       reading, writing, stdin, pipe, produced>>
        /\ sigchld' = FALSE /\ handlers' = handlers + 1
    BY <1>1 DEF ReadSignal, member, streams, process
  <2>2. handlers' \in Nat
    BY <2>1 DEF Inv, TypeOK
  <2>3. TypeOK'
    BY <2>1, <2>2, Zenon DEF Inv, TypeOK
  <2> QED
    BY <2>1, <2>3 DEF Inv, ObjectOK, DataOK
<1>2. CASE UNCHANGED vars
  <2>1. UNCHANGED <<object, pid, open, listeners, told, source, good, sink, crashed, proc, status,
                    reading, writing, stdin, pipe, produced, sigchld, handlers>>
    BY <1>2 DEF vars, member, streams, process, signals
  <2>2. TypeOK'
    BY <2>1 DEF Inv, TypeOK
  <2> QED
    BY <2>1, <2>2 DEF Inv, ObjectOK, DataOK
<1>3. CASE UserStep
  BY <1>3, CreateKeeps, CreateFailsKeeps, KillKeeps, DestroyKeeps DEF UserStep
<1>4. CASE LoopStep
  BY <1>1, <1>4, SigChildReceivedKeeps, HandleEventOutKeeps, HandleEventInKeeps DEF LoopStep
<1> QED
  BY <1>2, <1>3, <1>4, ChildStepKeeps DEF Next, ParentStep

\* The invariant holds in every behaviour.
LEMMA Invariance == Spec => []Inv
BY InvInit, InvStep, PTL DEF Spec

\* Whatever the order of deaths, signals, events, kill() and destruction: after
\* its callback, or when its object is gone, a child has left no zombie, no
\* descriptor and no listener, and its number is forgotten.
THEOREM CleanedUpAlways == Spec => []CleanedUp
<1>1. Inv => CleanedUp
  BY DEF Inv, TypeOK, ObjectOK, CleanedUp
<1> QED
  BY <1>1, Invariance, PTL

\* A pipe that handleEventsCb closes has been read to the last unit.
THEOREM DrainedBeforeCloseAlways == Spec => []DrainedBeforeClose
<1>1. ASSUME Inv PROVE DrainedBeforeClose
  <2> SUFFICES ASSUME NEW c \in Children, NEW s \in Outs,
                      proc[c] \in {"running", "zombie"}, s \notin open[c]
               PROVE  sink[c][s] = produced[c][s]
    BY DEF DrainedBeforeClose
  <2>1. DataOK(c, s) /\ sink[c][s] \in Nat
    BY <1>1 DEF Inv, TypeOK
  <2> QED
    BY <2>1 DEF DataOK
<1> QED
  BY <1>1, Invariance, PTL
=============================================================================
