---------------------------- MODULE TestHarness ----------------------------
(***************************************************************************)
(* The test framework of the workbook: the macros of tools/common.h and    *)
(* tools/common.hpp inside a test binary, and tools/check.py around it.    *)
(*                                                                         *)
(* The counters are plain ints.  The tests of 05-concurrency evaluate      *)
(* assertions on several threads at once (test_seqlock.cpp:61), so         *)
(* _tests_failed++ is modelled as the load and the store it is compiled    *)
(* to: increments of concurrent failures may be lost.  A test joins its    *)
(* threads before it returns.  An assertion that holds changes nothing and *)
(* is no step; one that fails ends the function it stands in, which is the *)
(* thread's own or one it has called.                                      *)
(***************************************************************************)
EXTENDS Integers, FiniteSets

CONSTANTS
  NumTests,    \* RUN_TEST lines of the binary
  Threads,     \* threads a test may use
  Main,        \* the one that runs main()
  MaxFailures, \* bound on _tests_failed
  UseValgrind, \* check.py --valgrind
  None         \* no exit status yet

ASSUME TestsAssumption == NumTests \in Nat /\ MaxFailures \in Nat
ASSUME ThreadsAssumption == Main \in Threads
ASSUME ValgrindAssumption == UseValgrind \in BOOLEAN
ASSUME NoneAssumption == None \notin Int

VARIABLES
  run, passed, failed, \* _tests_run, _tests_passed, _tests_failed
  prev,    \* _prev_failed of the RUN_TEST in progress
  main,    \* where main() is
  at,      \* where each thread of the current test is
  reg,     \* what it has loaded of _tests_failed
  status,  \* exit status of the process
  verdict, \* exit status of check.py
  broken   \* history: the tests in which an assertion has failed

counters == <<run, passed, failed, prev>>

vars == <<counters, main, at, reg, status, verdict, broken>>

\* Return codes check.py sees: minus the signal of abort(), and valgrind's
\* --error-exitcode.
Aborted == -6
MemoryErrors == 99

(* TEST_BEGIN                                                              *)
Init ==
  /\ run = 0 /\ passed = 0 /\ failed = 0 /\ prev = 0
  /\ main = "between"
  /\ at = [t \in Threads |-> "joined"]
  /\ reg = [t \in Threads |-> 0]
  /\ status = None
  /\ verdict = None
  /\ broken = {}

(* RUN_TEST up to fn(), which starts some threads besides the main one.    *)
RunTest ==
  /\ main = "between"
  /\ run < NumTests
  /\ run' = run + 1
  /\ prev' = failed
  /\ main' = "in_test"
  /\ \E ts \in SUBSET Threads :
       at' = [t \in Threads |-> IF t \in ts \cup {Main} THEN "running" ELSE "joined"]
  /\ UNCHANGED <<passed, failed, reg, status, verdict, broken>>

(* An assertion fails on t: the load of _tests_failed++.                   *)
AssertFails(t) ==
  /\ main = "in_test"
  /\ at[t] = "running"
  /\ failed < MaxFailures
  /\ reg' = [reg EXCEPT ![t] = failed]
  /\ at' = [at EXCEPT ![t] = "counting"]
  /\ broken' = broken \cup {run}
  /\ UNCHANGED <<counters, main, status, verdict>>

(* The store, and the return of the function the assertion stands in.      *)
AssertReturns(t) ==
  /\ main = "in_test"
  /\ at[t] = "counting"
  /\ failed' = reg[t] + 1
  /\ \E p \in {"running", "joined"} : at' = [at EXCEPT ![t] = p]
  /\ UNCHANGED <<run, passed, prev, main, reg, status, verdict, broken>>

ThreadReturns(t) ==
  /\ main = "in_test"
  /\ at[t] = "running"
  /\ at' = [at EXCEPT ![t] = "joined"]
  /\ UNCHANGED <<counters, main, reg, status, verdict, broken>>

\* Mutant of Credit: a test passes only if none has failed so far.
CreditIfNone == IF failed = 0 THEN 1 ELSE 0

Credit == IF failed = prev THEN 1 ELSE 0

(* RUN_TEST after fn().                                                    *)
TestReturns ==
  /\ main = "in_test"
  /\ \A t \in Threads : at[t] = "joined"
  /\ passed' = passed + Credit
  /\ main' = "between"
  /\ UNCHANGED <<run, failed, prev, at, reg, status, verdict, broken>>

\* Mutant of ExitStatus: only the last test decides.
ExitStatusLast == IF failed = prev THEN 0 ELSE 1

ExitStatus == IF failed = 0 THEN 0 ELSE 1

(* TEST_END; under valgrind the status may be replaced.                    *)
TestEnd ==
  /\ main = "between"
  /\ run = NumTests
  /\ main' = "exited"
  /\ \/ status' = ExitStatus
     \/ UseValgrind /\ status' = MemoryErrors
  /\ UNCHANGED <<counters, at, reg, verdict, broken>>

(* A test crashes, or throws out of main().                                *)
TestAborts ==
  /\ main = "in_test"
  /\ main' = "exited"
  /\ status' = Aborted
  /\ UNCHANGED <<counters, at, reg, verdict, broken>>

(* check.py: the process has ended, its status is passed on.               *)
CheckReports ==
  /\ main = "exited"
  /\ verdict = None
  /\ verdict' = status
  /\ UNCHANGED <<counters, main, at, reg, status, broken>>

\* Mutant of CheckTimesOut: subprocess.run without its timeout.
CheckWaits == FALSE /\ UNCHANGED vars

(* check.py: after 30 seconds the process is killed.                       *)
CheckTimesOut ==
  /\ main \in {"between", "in_test"}
  /\ main' = "killed"
  /\ verdict' = 1
  /\ UNCHANGED <<counters, at, reg, status, broken>>

Next ==
  \/ RunTest \/ TestReturns \/ TestEnd \/ TestAborts
  \/ \E t \in Threads : AssertFails(t) \/ AssertReturns(t) \/ ThreadReturns(t)
  \/ CheckReports \/ CheckTimesOut

(* Time passes and check.py is waiting: the timeout comes or the status of
   an ended process is read.  The test itself may hang: no fairness.       *)
Spec == Init /\ [][Next]_vars /\ WF_vars(CheckReports \/ CheckTimesOut)

-----------------------------------------------------------------------------
(***************************************************************************)
(* "ALL TESTS PASSED" (check.py:56) is true: exit status 0 means that all  *)
(* tests were run and that no assertion failed in any of them, on any      *)
(* thread, however many increments of the failure counter were lost.       *)
(***************************************************************************)
VerdictHonest == verdict = 0 => run = NumTests /\ broken = {}

(***************************************************************************)
(* The line "passed/run tests passed" is exact even though _tests_failed   *)
(* may be wrong in both directions: it counts lost updates once and the    *)
(* failures of one test several times.                                     *)
(***************************************************************************)
Accounting == main \in {"between", "exited"} /\ status # Aborted =>
                passed + Cardinality(broken) = run

(***************************************************************************)
(* check.py comes to a verdict whatever a test does, hanging included.     *)
(***************************************************************************)
VerdictComes == main = "in_test" ~> verdict # None
=============================================================================
