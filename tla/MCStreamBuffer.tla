--------------------------- MODULE MCStreamBuffer ---------------------------
(***************************************************************************)
(* StreamBuffer for TLC: every sequence of calls on a small instance, the  *)
(* bounds of which the cfgs give, or one of the tests of the repository on *)
(* an instance with the sizes of the code.  The tests of the two classes   *)
(* that have only operators come along with it.                            *)
(***************************************************************************)
EXTENDS StreamBuffer, TLC

\* The instance that runs the tests
VARIABLES tsb, tmem, tstored, tresult, tcalls, test, pc
tvars == <<tsb, tmem, tstored, tresult, tcalls, test, pc>>

T == INSTANCE StreamBufferTests
     WITH Objects <- {"a", "b"}, a <- "a", b <- "b", IovMax <- 4,
          Blocks <- 1 .. 7, BlockMax <- 256, Align <- 8, Sizes <- {1}, Careful <- FALSE,
          MaxCalls <- 100, MaxBytes <- 1000,
          sb <- tsb, mem <- tmem, stored <- tstored, result <- tresult, calls <- tcalls

\* The tests of classes whose operations are operators
A == INSTANCE SocketAddressTests WITH PathSize <- 5, UnixPaths <- {}, Sizes <- {}, Modulus <- 64, sa <- 0
C == INSTANCE ControlMessageTests
     WITH ValueSizes <- {}, Capacities <- {}, MaxMessages <- 0, SizeT <- 64,
          cm <- 0, it <- 0, seen <- 0, written <- 0, made <- 0

NoTest ==
    /\ tsb = 0 /\ tmem = 0 /\ tstored = 0 /\ tresult = 0 /\ tcalls = 0
    /\ test = 0 /\ pc = 0

MCInit == Init /\ (NoTest \/ T!TestInit)

MCNext ==
    \/ test = 0 /\ Next /\ UNCHANGED tvars
    \/ test # 0 /\ T!TestNext /\ UNCHANGED vars

MCSpec == MCInit /\ [][MCNext]_<<vars, tvars>>

\* The models pass the tests of the repository: tst/StreamBufferTest.cpp, step by
\* step, tst/SocketAddressTest.cpp and tst/ControlMessageTest.cpp.
TestsPass ==
    IF test # 0 THEN T!Passed ELSE calls = 0 => A!AddressTestsPass /\ C!MessageTestsPass

Symmetry == Permutations(Objects)
=============================================================================
