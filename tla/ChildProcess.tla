---------------------------- MODULE ChildProcess ----------------------------
(***************************************************************************)
(* ChildProcess: child processes with their three pipes, and the way of    *)
(* SIGCHLD from the kernel through EpollRunner's SignalFD and callback     *)
(* queue to sigChildReceived.                                              *)
(*                                                                         *)
(* Data are counted in units of PIPE_BUF.  The application blocks SIGCHLD  *)
(* before it creates children, and its handler calls sigChildReceived of   *)
(* every child it has and catches what one of them throws.  It may call    *)
(* kill() and destroy a child whenever it has control.  Every action below *)
(* of the parent process is one handler or one call of its single thread;  *)
(* the children run in between.                                            *)
(***************************************************************************)
EXTENDS Integers

CONSTANTS Children,  \* ChildProcess objects
          Outs,      \* streams from the child: "out" and "err"
          Statuses,  \* how a child may die: "success", "error", "signal"
          MaxIn,     \* bound: units in the input stream
          MaxOut,    \* bound: units a child writes to each stream
          PipeCap    \* units a pipe holds

ASSUME OutsAssumption == Outs \subseteq {"out", "err"}
ASSUME StatusesAssumption == Statuses \subseteq {"success", "error", "signal"}
ASSUME SizesAssumption == MaxIn \in Nat /\ MaxOut \in Nat /\ PipeCap \in Nat \ {0}

Streams == {"in"} \cup Outs

VARIABLES
    object,     \* "none", "exists", "failed" (constructor threw) or "gone"
    pid,        \* TRUE when the member pid is not zero
    open,       \* the descriptors that are open: a subset of Streams
    listeners,  \* the descriptors the runner has a listener for
    source,     \* units left in the input stream "in"
    good,       \* the state of that stream: FALSE once a read met its end
    sink,       \* sink[c][s]: units written to the output stream s
    told,       \* the callback called: a status, or "nothing"
    crashed,    \* an exception left the destructor: std::terminate
    proc,       \* the process: "none", "running", "zombie" or "reaped"
    status,     \* how it died
    reading,    \* the child has its standard input open
    writing,    \* the output streams it has open
    stdin,      \* units in the pipe to the child
    pipe,       \* pipe[c][s]: units in the pipe from the child
    produced,   \* produced[c][s]: units the child has written
    sigchld,    \* SIGCHLD is pending
    handlers    \* calls of the signal handler in the callback queue

member == <<object, pid, open, listeners, told>>
streams == <<source, good, sink>>
process == <<proc, status, reading, writing, stdin, pipe, produced>>
signals == <<sigchld, handlers>>
vars == <<member, streams, crashed, process, signals>>

Init ==
    /\ object = [c \in Children |-> "none"]
    /\ pid = [c \in Children |-> FALSE]
    /\ open = [c \in Children |-> {}] /\ listeners = [c \in Children |-> {}]
    /\ source = [c \in Children |-> MaxIn] /\ good = [c \in Children |-> TRUE]
    /\ sink = [c \in Children |-> [s \in Outs |-> 0]]
    /\ told = [c \in Children |-> "nothing"]
    /\ crashed = FALSE
    /\ proc = [c \in Children |-> "none"] /\ status = [c \in Children |-> "nothing"]
    /\ reading = [c \in Children |-> FALSE] /\ writing = [c \in Children |-> {}]
    /\ stdin = [c \in Children |-> 0]
    /\ pipe = [c \in Children |-> [s \in Outs |-> 0]]
    /\ produced = [c \in Children |-> [s \in Outs |-> 0]]
    /\ sigchld = FALSE /\ handlers = 0

-----------------------------------------------------------------------------
(* The child *)

ReadStdin(c) ==
    /\ proc[c] = "running" /\ reading[c] /\ stdin[c] > 0
    /\ stdin' = [stdin EXCEPT ![c] = @ - 1]
    /\ UNCHANGED <<member, streams, crashed, proc, status, reading, writing, pipe, produced, signals>>

CloseStdin(c) ==
    /\ proc[c] = "running" /\ reading[c]
    /\ reading' = [reading EXCEPT ![c] = FALSE]
    /\ UNCHANGED <<member, streams, crashed, proc, status, writing, stdin, pipe, produced, signals>>

Output(c, s) ==
    /\ proc[c] = "running" /\ s \in writing[c]
    /\ produced[c][s] < MaxOut /\ pipe[c][s] < PipeCap
    /\ produced' = [produced EXCEPT ![c][s] = @ + 1]
    /\ pipe' = [pipe EXCEPT ![c][s] = @ + 1]
    /\ UNCHANGED <<member, streams, crashed, proc, status, reading, writing, stdin, signals>>

CloseOutput(c, s) ==
    /\ proc[c] = "running" /\ s \in writing[c]
    /\ writing' = [writing EXCEPT ![c] = @ \ {s}]
    /\ UNCHANGED <<member, streams, crashed, proc, status, reading, stdin, pipe, produced, signals>>

\* The child exits or is killed: the kernel closes its descriptors and raises
\* SIGCHLD, which stays one pending signal however many children die.
Exit(c) ==
    /\ proc[c] = "running"
    /\ proc' = [proc EXCEPT ![c] = "zombie"]
    /\ \E how \in Statuses : status' = [status EXCEPT ![c] = how]
    /\ reading' = [reading EXCEPT ![c] = FALSE]
    /\ writing' = [writing EXCEPT ![c] = {}]
    /\ sigchld' = TRUE
    /\ UNCHANGED <<member, streams, crashed, stdin, pipe, produced, handlers>>

-----------------------------------------------------------------------------
(* The parent: construction and destruction *)

\* The constructor makes the pipes, registers the parent's ends and forks.
Create(c) ==
    /\ object[c] = "none"
    /\ object' = [object EXCEPT ![c] = "exists"]
    /\ pid' = [pid EXCEPT ![c] = TRUE]
    /\ open' = [open EXCEPT ![c] = Streams]
    /\ listeners' = [listeners EXCEPT ![c] = Streams]
    /\ proc' = [proc EXCEPT ![c] = "running"]
    /\ reading' = [reading EXCEPT ![c] = TRUE]
    /\ writing' = [writing EXCEPT ![c] = Outs]
    /\ UNCHANGED <<streams, told, crashed, status, stdin, pipe, produced, signals>>

\* pipe() or fork() throws half-way: the members close the descriptors, but the
\* destructor does not run and the listeners added so far stay in the runner.
CreateFails(c) ==
    /\ object[c] = "none"
    /\ object' = [object EXCEPT ![c] = "failed"]
    /\ \E added \in {{}, {"in"}, {"in"} \cup (Outs \ {"err"}), Streams} :
         listeners' = [listeners EXCEPT ![c] = added]
    /\ UNCHANGED <<pid, open, streams, told, crashed, process, signals>>

\* closeAll: each descriptor that is open is unregistered and closed.
CloseAll(c) ==
    /\ listeners' = [listeners EXCEPT ![c] = @ \ open[c]]
    /\ open' = [open EXCEPT ![c] = {}]

\* The kernel forgets about children that waitpid() has returned, and about
\* their pipes, both ends of which are closed now.
Reaped(cs) ==
    /\ proc' = [c \in Children |-> IF c \in cs THEN "reaped" ELSE proc[c]]
    /\ status' = [c \in Children |-> IF c \in cs THEN "nothing" ELSE status[c]]
    /\ reading' = [c \in Children |-> reading[c] /\ c \notin cs]
    /\ writing' = [c \in Children |-> IF c \in cs THEN {} ELSE writing[c]]
    /\ stdin' = [c \in Children |-> IF c \in cs THEN 0 ELSE stdin[c]]
    /\ pipe' = [c \in Children |-> IF c \in cs THEN [s \in Outs |-> 0] ELSE pipe[c]]
    /\ UNCHANGED produced

\* kill(SIGKILL) and waitpid(): the child is dead and reaped afterwards, and
\* its death has raised SIGCHLD.
KillAndWait(c) ==
    /\ Reaped({c})
    /\ sigchld' = (sigchld \/ proc[c] = "running")
    /\ UNCHANGED handlers

\* kill(), which leaves pid as it is; a second call finds nothing to wait for,
\* and waitpid() throws before anything else changes.
Kill(c) ==
    /\ object[c] = "exists"
    /\ pid[c] => proc[c] # "reaped"
    /\ IF pid[c] THEN KillAndWait(c) ELSE UNCHANGED <<process, signals>>
    /\ CloseAll(c)
    /\ UNCHANGED <<object, pid, streams, told, crashed>>

\* Mutant of Destroy: only a child that has to be killed gets its pipes closed.
DestroyKeepsPipes(c) ==
    /\ object[c] = "exists"
    /\ object' = [object EXCEPT ![c] = "gone"]
    /\ IF pid[c] /\ proc[c] # "reaped"
       THEN KillAndWait(c) /\ UNCHANGED <<open, listeners, crashed>>
       ELSE /\ crashed' = (crashed \/ pid[c])
            /\ CloseAll(c) /\ UNCHANGED <<process, signals>>
    /\ UNCHANGED <<pid, streams, told>>

\* ~ChildProcess calls kill(); after an explicit kill() its waitpid() throws,
\* which ends the process (the pipes are closed already then).
Destroy(c) ==
    /\ object[c] = "exists"
    /\ object' = [object EXCEPT ![c] = "gone"]
    /\ IF pid[c] /\ proc[c] # "reaped"
       THEN KillAndWait(c) /\ UNCHANGED crashed
       ELSE crashed' = pid[c] /\ UNCHANGED <<process, signals>>
    /\ CloseAll(c)
    /\ UNCHANGED <<pid, streams, told>>

-----------------------------------------------------------------------------
(* The parent: events *)

\* close(fd)
Close(c, s) ==
    /\ listeners' = [listeners EXCEPT ![c] = @ \ {s}]
    /\ open' = [open EXCEPT ![c] = @ \ {s}]

\* Mutant of HandleEventIn: HUP is looked at before IN.
HandleHupFirst(c, s) ==
    /\ s \in open[c]
    /\ pipe[c][s] > 0 \/ s \notin writing[c]
    /\ IF s \in writing[c]
       THEN /\ sink' = [sink EXCEPT ![c][s] = @ + pipe[c][s]]
            /\ pipe' = [pipe EXCEPT ![c][s] = 0]
            /\ UNCHANGED <<open, listeners>>
       ELSE Close(c, s) /\ UNCHANGED <<sink, pipe>>
    /\ UNCHANGED <<object, pid, source, good, told, crashed, proc, status, reading, writing,
                   stdin, produced, signals>>

\* handleEventsCb for IN or HUP of an output pipe: it is read until it is
\* empty, then closed if the child has closed it.
HandleEventIn(c, s) ==
    /\ s \in open[c]
    /\ pipe[c][s] > 0 \/ s \notin writing[c]
    /\ sink' = [sink EXCEPT ![c][s] = @ + pipe[c][s]]
    /\ pipe' = [pipe EXCEPT ![c][s] = 0]
    /\ IF s \in writing[c] THEN UNCHANGED <<open, listeners>> ELSE Close(c, s)
    /\ UNCHANGED <<object, pid, source, good, told, crashed, proc, status, reading, writing,
                   stdin, produced, signals>>

\* handleEventOut: while the stream is good a unit is read from it and written
\* to the pipe, which fails (EPIPE) and closes it when the child has closed its
\* end.  The read that meets the end of the stream (the last unit may be a short
\* one, or nothing is left) ends good, and the next event closes.
HandleEventOut(c) ==
    /\ "in" \in open[c] /\ stdin[c] < PipeCap
    /\ IF good[c]
       THEN LET n == IF source[c] > 0 THEN 1 ELSE 0
            IN  /\ source' = [source EXCEPT ![c] = @ - n]
                /\ \E end \in BOOLEAN :
                     /\ end => source[c] = n
                     /\ n = 0 => end
                     /\ good' = [good EXCEPT ![c] = ~end]
                /\ IF reading[c] \/ n = 0
                   THEN stdin' = [stdin EXCEPT ![c] = @ + n] /\ UNCHANGED <<open, listeners>>
                   ELSE Close(c, "in") /\ UNCHANGED stdin
       ELSE Close(c, "in") /\ UNCHANGED <<source, good, stdin>>
    /\ UNCHANGED <<object, pid, sink, told, crashed, proc, status, reading, writing,
                   pipe, produced, signals>>

\* SignalFD::handleEventsCb reads the pending signal and adds a callback.
ReadSignal ==
    /\ sigchld
    /\ sigchld' = FALSE /\ handlers' = handlers + 1
    /\ UNCHANGED <<member, streams, crashed, process>>

\* Mutant of Reaps: one call of the handler looks after one child.
ReapsOne(dead) ==
    LET one == IF dead = {} THEN {} ELSE {CHOOSE c \in dead : TRUE}
    IN  /\ Reaped(one)
        /\ pid' = [c \in Children |-> pid[c] /\ c \notin one]
        /\ told' = [c \in Children |-> IF c \in one THEN status[c] ELSE told[c]]
        /\ open' = [c \in Children |-> IF c \in one THEN {} ELSE open[c]]
        /\ listeners' = [c \in Children |-> listeners[c] \ (open[c] \ open'[c])]

\* sigChildReceived of the children waitpid(WNOHANG) finds dead: they are
\* reaped, pid is reset, the pipes are closed, and one callback is called.
Reaps(dead) ==
    /\ Reaped(dead)
    /\ pid' = [c \in Children |-> pid[c] /\ c \notin dead]
    /\ told' = [c \in Children |-> IF c \in dead THEN status[c] ELSE told[c]]
    /\ open' = [c \in Children |-> IF c \in dead THEN {} ELSE open[c]]
    /\ listeners' = [c \in Children |-> listeners[c] \ (open[c] \ open'[c])]

\* The signal handler.  sigChildReceived of a child that runs, or whose pid is
\* zero, does nothing; after kill() it throws.
SigChildReceived ==
    /\ handlers > 0
    /\ handlers' = handlers - 1
    /\ Reaps({c \in Children : object[c] = "exists" /\ pid[c] /\ proc[c] = "zombie"})
    /\ UNCHANGED <<object, streams, crashed, sigchld>>

-----------------------------------------------------------------------------
ChildStep ==
    \E c \in Children :
        \/ ReadStdin(c) \/ CloseStdin(c) \/ Exit(c)
        \/ \E s \in Outs : Output(c, s) \/ CloseOutput(c, s)

UserStep == \E c \in Children : Create(c) \/ CreateFails(c) \/ Kill(c) \/ Destroy(c)

LoopStep ==
    \/ ReadSignal \/ SigChildReceived
    \/ \E c \in Children : HandleEventOut(c) \/ \E s \in Outs : HandleEventIn(c, s)

ParentStep == ~crashed /\ (UserStep \/ LoopStep)

Next == ChildStep \/ ParentStep

Spec == Init /\ [][Next]_vars

\* The loop dispatches every event that stays ready, and children read.
FairSpec ==
    /\ Spec
    /\ WF_vars(~crashed /\ ReadSignal) /\ WF_vars(~crashed /\ SigChildReceived)
    /\ \A c \in Children :
         /\ WF_vars(~crashed /\ HandleEventOut(c))
         /\ \A s \in Outs : WF_vars(~crashed /\ HandleEventIn(c, s))
         /\ WF_vars(ReadStdin(c))

-----------------------------------------------------------------------------
(* Properties *)

\* Type correctness.
TypeOK ==
    /\ object \in [Children -> {"none", "exists", "failed", "gone"}]
    /\ pid \in [Children -> BOOLEAN]
    /\ open \in [Children -> SUBSET Streams] /\ listeners \in [Children -> SUBSET Streams]
    /\ source \in [Children -> 0 .. MaxIn] /\ good \in [Children -> BOOLEAN]
    /\ sink \in [Children -> [Outs -> 0 .. MaxOut]]
    /\ told \in [Children -> Statuses \cup {"nothing"}]
    /\ crashed \in BOOLEAN
    /\ proc \in [Children -> {"none", "running", "zombie", "reaped"}]
    /\ status \in [Children -> Statuses \cup {"nothing"}]
    /\ reading \in [Children -> BOOLEAN] /\ writing \in [Children -> SUBSET Outs]
    /\ stdin \in [Children -> 0 .. PipeCap]
    /\ pipe \in [Children -> [Outs -> 0 .. PipeCap]]
    /\ produced \in [Children -> [Outs -> 0 .. MaxOut]]
    /\ sigchld \in BOOLEAN /\ handlers \in Nat

\* What is left of a child when its callback has been called or its object is
\* gone: no zombie, no descriptor and no listener; while the object exists,
\* the runner listens to exactly the descriptors that are open.  After its
\* callback pid is zero, so that the destructor kills and waits for nobody: the
\* kernel may have given the number to another process.  All have their types.
CleanedUp ==
    /\ TypeOK
    /\ \A c \in Children :
         /\ told[c] # "nothing" => ~pid[c]
         /\ told[c] # "nothing" \/ object[c] = "gone" =>
              proc[c] = "reaped" /\ open[c] = {} /\ listeners[c] = {}
         /\ object[c] = "exists" => listeners[c] = open[c]

\* A pipe that the handler of its events closes, because the child has closed
\* its end, has been read to the last unit.
DrainedBeforeClose ==
    \A c \in Children, s \in Outs :
        proc[c] \in {"running", "zombie"} /\ s \notin open[c] =>
            sink[c][s] = produced[c][s]

\* SIGCHLD is merged by the kernel, and handlers wait in the callback queue;
\* still, each child that dies by itself is reaped and its callback called.
DeathNoticed ==
    \A c \in Children : proc[c] = "zombie" ~> proc[c] = "reaped" \/ crashed

\* A child that reads its standard input gets all of the input stream and then
\* sees its end, because the parent closes the pipe.
InputEnds ==
    \A c \in Children :
        object[c] = "exists" ~>
            \/ "in" \notin open[c] /\ (source[c] = 0 /\ stdin[c] = 0)
            \/ ~reading[c] \/ object[c] = "gone" \/ crashed

\* What a child does is followed up, in any order of its death, the signals and
\* the events of its pipes.
ChildServed == DeathNoticed /\ InputEnds
=============================================================================
