---------------------------- MODULE ThreadsProof ----------------------------
(***************************************************************************)
(* Theorems about the multi-threaded test code, for any number of tests,   *)
(* threads, items and for any queue capacity: the framework (TestHarness), *)
(* the MPMC drivers (MpmcTest) and the echo server's life (EchoServer).    *)
(***************************************************************************)
EXTENDS TestHarness, MpmcTest, EchoServer, FiniteSetTheorems, TLAPS

-----------------------------------------------------------------------------
(***************************************************************************)
(* TestHarness.                                                            *)
(*                                                                         *)
(* _tests_failed may lose increments, and with a load from before another  *)
(* thread's stores it may even decrease.  What cannot happen is that it    *)
(* falls back to the value it had when the test began: every load made     *)
(* during the test is at least that value and every store is one more than *)
(* such a load.  That is Counted, the strengthening VerdictHonest needs;   *)
(* Accounting needs Balanced besides, the account of the finished tests.   *)
(***************************************************************************)
TypeOK ==
  /\ run \in Nat /\ failed \in Nat /\ prev \in Nat
  /\ main \in {"between", "in_test", "exited", "killed"}
  /\ at \in [Threads -> {"running", "counting", "joined"}]
  /\ reg \in [Threads -> Nat]
  /\ broken \subseteq 1..run
  /\ main = "in_test" => run > 0

(* During a test: no load is older than the test; a failed assertion of
   this test is being counted or has been; earlier ones were counted.      *)
Counted ==
  /\ main = "in_test" =>
       /\ prev <= failed
       /\ \A t \in Threads : at[t] = "counting" => prev <= reg[t]
       /\ run \in broken => failed > prev \/ \E t \in Threads : at[t] = "counting"
       /\ broken \ {run} # {} => prev > 0
  /\ main = "between" => (broken # {} => failed > 0)

Sound ==
  /\ main = "exited" => (status = 0 => run = NumTests /\ broken = {})
  /\ main # "exited" => status = None
  /\ main \in {"between", "in_test"} => verdict = None

IInv == TypeOK /\ Counted /\ Sound /\ VerdictHonest

(* Every step of the test program and of check.py keeps the types.         *)
LEMMA TypeStep == TypeOK /\ [Next]_vars => TypeOK'
<1> SUFFICES ASSUME TypeOK, [Next]_vars PROVE TypeOK'
  OBVIOUS
<1> USE DEF TypeOK
<1>1. CASE RunTest
  BY <1>1 DEF RunTest
<1>2. CASE TestReturns
  BY <1>2 DEF TestReturns
<1>3. CASE TestEnd
  BY <1>3 DEF TestEnd, counters
<1>4. CASE TestAborts
  BY <1>4 DEF TestAborts, counters
<1>5. ASSUME NEW t \in Threads, AssertFails(t) PROVE TypeOK'
  BY <1>5 DEF AssertFails, counters
<1>6. ASSUME NEW t \in Threads, AssertReturns(t) PROVE TypeOK'
  BY <1>6 DEF AssertReturns
<1>7. ASSUME NEW t \in Threads, ThreadReturns(t) PROVE TypeOK'
  BY <1>7 DEF ThreadReturns, counters
<1>8. CASE CheckReports
  BY <1>8 DEF CheckReports, counters
<1>9. CASE CheckTimesOut
  BY <1>9 DEF CheckTimesOut, counters
<1>10. CASE UNCHANGED vars
  BY <1>10 DEF vars, counters
<1> QED
  BY <1>1, <1>2, <1>3, <1>4, <1>5, <1>6, <1>7, <1>8, <1>9, <1>10 DEF Next

(* Every step keeps the bounds on what the threads have loaded and will    *)
(* store.                                                                  *)
LEMMA CountedStep == TypeOK /\ Counted /\ [Next]_vars => Counted'
<1> SUFFICES ASSUME TypeOK, Counted, [Next]_vars PROVE Counted'
  OBVIOUS
<1> USE DEF TypeOK, Counted
<1>1. CASE RunTest
  <2>1. PICK ts \in SUBSET Threads :
          at' = [t \in Threads |-> IF t \in ts \cup {Main} THEN "running" ELSE "joined"]
    BY <1>1 DEF RunTest
  <2>2. \A t \in Threads : at'[t] # "counting"
    BY <2>1
  <2>3. prev' = failed /\ failed' = failed /\ broken' = broken /\ run' = run + 1
        /\ main' = "in_test" /\ main = "between"
    BY <1>1 DEF RunTest
  <2>4. broken' # {} => prev' > 0
    BY <2>3
  <2>5. run' \in broken' => failed' > prev' \/ \E t \in Threads : at'[t] = "counting"
    BY <1>1 DEF RunTest
  <2> QED
    BY <2>2, <2>3, <2>4, <2>5
<1>2. CASE TestReturns
  <2>1. \A t \in Threads : at[t] # "counting"
    BY <1>2 DEF TestReturns
  <2>2. broken # {} => failed > 0
    BY <1>2, <2>1 DEF TestReturns
  <2> QED
    BY <1>2, <2>2 DEF TestReturns
<1>3. CASE TestEnd
  BY <1>3 DEF TestEnd, counters
<1>4. CASE TestAborts
  BY <1>4 DEF TestAborts, counters
<1>5. ASSUME NEW t \in Threads, AssertFails(t) PROVE Counted'
  <2>1. at'[t] = "counting" /\ reg'[t] = failed
    BY <1>5 DEF AssertFails
  <2>2. \A u \in Threads \ {t} : at'[u] = at[u] /\ reg'[u] = reg[u]
    BY <1>5 DEF AssertFails
  <2> QED
    BY <1>5, <2>1, <2>2 DEF AssertFails, counters
<1>6. ASSUME NEW t \in Threads, AssertReturns(t) PROVE Counted'
  <2>1. failed' = reg[t] + 1 /\ prev <= reg[t] /\ failed' > prev
    BY <1>6 DEF AssertReturns
  <2>2. \A u \in Threads : at'[u] = "counting" => at[u] = "counting"
    BY <1>6 DEF AssertReturns
  <2> QED
    BY <1>6, <2>1, <2>2 DEF AssertReturns
<1>7. ASSUME NEW t \in Threads, ThreadReturns(t) PROVE Counted'
  <2>1. \A u \in Threads : at'[u] = "counting" <=> at[u] = "counting"
    BY <1>7 DEF ThreadReturns
  <2> QED
    BY <1>7, <2>1 DEF ThreadReturns, counters
<1>8. CASE CheckReports
  BY <1>8 DEF CheckReports, counters
<1>9. CASE CheckTimesOut
  BY <1>9 DEF CheckTimesOut, counters
<1>10. CASE UNCHANGED vars
  BY <1>10 DEF vars, counters
<1> QED
  BY <1>1, <1>2, <1>3, <1>4, <1>5, <1>6, <1>7, <1>8, <1>9, <1>10 DEF Next

(* Every step keeps what connects the counters, the exit status and the    *)
(* verdict.                                                                *)
LEMMA SoundStep == IInv /\ [Next]_vars => Sound' /\ VerdictHonest'
<1> SUFFICES ASSUME IInv, [Next]_vars PROVE Sound' /\ VerdictHonest'
  OBVIOUS
<1> USE NoneAssumption DEF IInv, TypeOK, Counted, Sound, VerdictHonest
<1>1. CASE RunTest
  BY <1>1 DEF RunTest
<1>2. CASE TestReturns
  BY <1>2 DEF TestReturns
<1>3. CASE TestEnd
  BY <1>3 DEF TestEnd, counters, ExitStatus, MemoryErrors
<1>4. CASE TestAborts
  BY <1>4 DEF TestAborts, counters, Aborted
<1>5. ASSUME NEW t \in Threads, AssertFails(t) PROVE Sound' /\ VerdictHonest'
  BY <1>5 DEF AssertFails, counters
<1>6. ASSUME NEW t \in Threads, AssertReturns(t) PROVE Sound' /\ VerdictHonest'
  BY <1>6 DEF AssertReturns
<1>7. ASSUME NEW t \in Threads, ThreadReturns(t) PROVE Sound' /\ VerdictHonest'
  BY <1>7 DEF ThreadReturns, counters
<1>8. CASE CheckReports
  BY <1>8 DEF CheckReports, counters
<1>9. CASE CheckTimesOut
  BY <1>9 DEF CheckTimesOut, counters
<1>10. CASE UNCHANGED vars
  BY <1>10 DEF vars, counters
<1> QED
  BY <1>1, <1>2, <1>3, <1>4, <1>5, <1>6, <1>7, <1>8, <1>9, <1>10 DEF Next

(* The inductive invariant holds in every reachable state.                 *)
LEMMA Invariance == Spec => []IInv
<1>1. Init => IInv
  BY NoneAssumption DEF Init, IInv, TypeOK, Counted, Sound, VerdictHonest
<1>2. IInv /\ [Next]_vars => IInv'
  BY TypeStep, CountedStep, SoundStep DEF IInv
<1> QED
  BY <1>1, <1>2, PTL DEF Spec

(***************************************************************************)
(* Exit status 0 of check.py, printed as "ALL TESTS PASSED" (check.py:56), *)
(* means that every test was run and none of its assertions failed, for    *)
(* every number of tests and threads and every loss of increments in the   *)
(* macros of common.h and common.hpp.                                      *)
(***************************************************************************)
THEOREM HonestVerdict == Spec => []VerdictHonest
<1>1. IInv => VerdictHonest
  BY DEF IInv
<1> QED
  BY <1>1, Invariance, PTL

(* What is on the account before the test in progress, and that this test
   leaves the counter alone as long as no assertion of it has failed.      *)
Balanced ==
  /\ passed \in Nat
  /\ main = "in_test" =>
       /\ passed + Cardinality(broken \ {run}) = run - 1
       /\ run \notin broken => failed = prev /\ \A t \in Threads : at[t] # "counting"
  /\ Accounting

(***************************************************************************)
(* A test is either added to the broken ones or credited when it returns.  *)
(***************************************************************************)
LEMMA BalancedStep == IInv /\ Balanced /\ [Next]_vars => Balanced'
<1> SUFFICES ASSUME IInv, Balanced, [Next]_vars PROVE Balanced'
  OBVIOUS
<1>a. /\ run \in Nat /\ failed \in Nat /\ prev \in Nat /\ passed \in Nat
      /\ broken \subseteq 1..run
      /\ Counted
      /\ main # "exited" => status = None
      /\ None # Aborted
  BY NoneAssumption DEF IInv, TypeOK, Sound, Balanced, Aborted
<1>b. IsFiniteSet(broken) /\ IsFiniteSet(broken \ {run})
  <2>1. IsFiniteSet(1..run)
    BY <1>a, FS_Interval
  <2>2. QED
    BY <1>a, <2>1, FS_Subset
<1>c. Cardinality(broken) \in Nat /\ Cardinality(broken \ {run}) \in Nat
  BY <1>b, FS_CardinalityType
<1>d. Cardinality(broken \ {run}) =
        IF run \in broken THEN Cardinality(broken) - 1 ELSE Cardinality(broken)
  BY <1>b, FS_RemoveElement
<1>1. CASE RunTest
  <2>1. /\ main = "between" /\ main' = "in_test" /\ run' = run + 1 /\ prev' = failed
        /\ passed' = passed /\ failed' = failed /\ broken' = broken /\ status' = status
    BY <1>1 DEF RunTest
  <2>2. PICK ts \in SUBSET Threads :
          at' = [t \in Threads |-> IF t \in ts \cup {Main} THEN "running" ELSE "joined"]
    BY <1>1 DEF RunTest
  <2>3. \A t \in Threads : at'[t] # "counting"
    BY <2>2
  <2>4. broken' \ {run'} = broken
    BY <1>a, <2>1
  <2>5. passed + Cardinality(broken) = run
    BY <1>a, <2>1 DEF Balanced, Accounting
  <2>6. passed' + Cardinality(broken' \ {run'}) = run' - 1
    BY <1>a, <1>c, <2>1, <2>4, <2>5
  <2>7. QED
    BY <1>a, <2>1, <2>3, <2>6 DEF Balanced, Accounting
<1>2. CASE TestReturns
  <2>1. /\ main = "in_test" /\ main' = "between" /\ (\A t \in Threads : at[t] = "joined")
        /\ passed' = passed + Credit /\ run' = run /\ failed' = failed /\ prev' = prev
        /\ broken' = broken /\ status' = status
    BY <1>2 DEF TestReturns
  <2>2. passed + Cardinality(broken \ {run}) = run - 1
    BY <2>1 DEF Balanced
  <2>3. CASE run \in broken
    <3>1. failed > prev
      BY <1>a, <2>1, <2>3 DEF Counted
    <3>2. Credit = 0
      BY <1>a, <3>1 DEF Credit
    <3>3. passed' = passed /\ passed' + Cardinality(broken) = run
      BY <1>a, <1>c, <1>d, <2>1, <2>2, <2>3, <3>2
    <3>4. QED
      BY <1>a, <2>1, <3>3 DEF Balanced, Accounting
  <2>4. CASE run \notin broken
    <3>1. Credit = 1
      BY <2>1, <2>4 DEF Balanced, Credit
    <3>2. passed' \in Nat /\ passed' + Cardinality(broken) = run
      BY <1>a, <1>c, <1>d, <2>1, <2>2, <2>4, <3>1
    <3>3. QED
      BY <1>a, <2>1, <3>2 DEF Balanced, Accounting
  <2>5. QED
    BY <2>3, <2>4
<1>3. CASE TestEnd
  BY <1>3, <1>a DEF TestEnd, counters, Balanced, Accounting
<1>4. CASE TestAborts
  BY <1>4, <1>a DEF TestAborts, counters, Balanced, Accounting
<1>5. ASSUME NEW t \in Threads, AssertFails(t) PROVE Balanced'
  <2>1. /\ main = "in_test" /\ main' = main /\ broken' = broken \cup {run}
        /\ run' = run /\ passed' = passed
    BY <1>5 DEF AssertFails, counters
  <2>2. broken' \ {run'} = broken \ {run} /\ run' \in broken'
    BY <2>1
  <2>3. QED
    BY <2>1, <2>2 DEF Balanced, Accounting
<1>6. ASSUME NEW t \in Threads, AssertReturns(t) PROVE Balanced'
  <2>1. run \in broken
    BY <1>6 DEF AssertReturns, Balanced
  <2>2. QED
    BY <1>6, <2>1 DEF AssertReturns, Balanced, Accounting
<1>7. ASSUME NEW t \in Threads, ThreadReturns(t) PROVE Balanced'
  <2>1. \A u \in Threads : at'[u] = "counting" => at[u] = "counting"
    BY <1>7 DEF ThreadReturns, IInv, TypeOK
  <2>2. QED
    BY <1>7, <2>1 DEF ThreadReturns, counters, Balanced, Accounting
<1>8. CASE CheckReports
  BY <1>8 DEF CheckReports, counters, Balanced, Accounting
<1>9. CASE CheckTimesOut
  BY <1>9 DEF CheckTimesOut, counters, Balanced, Accounting
<1>10. CASE UNCHANGED vars
  BY <1>10 DEF vars, counters, Balanced, Accounting
<1>11. QED
  BY <1>1, <1>2, <1>3, <1>4, <1>5, <1>6, <1>7, <1>8, <1>9, <1>10 DEF Next

(***************************************************************************)
(* The line "passed/run tests passed" that TEST_END prints is exact for    *)
(* any number of tests and threads: each test that was run is counted as   *)
(* passed or is one in which an assertion failed, never both, although     *)
(* the counter of failures itself may be wrong.                            *)
(***************************************************************************)
THEOREM ExactAccount == Spec => []Accounting
<1>1. Init => Balanced
  BY FS_EmptySet DEF Init, Balanced, Accounting
<1>2. Balanced => Accounting
  BY DEF Balanced
<1>3. QED
  BY <1>1, <1>2, BalancedStep, Invariance, PTL DEF Spec

-----------------------------------------------------------------------------
(***************************************************************************)
(* EchoServer: what main() and the server's thread know of each other.     *)
(***************************************************************************)
ServerIInv ==
  /\ thread \in {"starting", "testing", "serving"} => server = "alive"
  /\ mainAt = "begin" => thread = "none"
  /\ mainAt \in {"stats", "end"} => thread = "ended"
  /\ NoUseAfterDestroy

(***************************************************************************)
(* run() never touches the EchoServer after its destructor: main() of      *)
(* test_server.cpp joins the thread first, in every interleaving.          *)
(***************************************************************************)
THEOREM ServerOutlivesThread == ServerSpec => []NoUseAfterDestroy
<1>1. ServerInit => ServerIInv
  BY DEF ServerInit, ServerIInv, NoUseAfterDestroy
<1>2. ServerIInv /\ [ServerNext]_serverVars => ServerIInv'
  <2> SUFFICES ASSUME ServerIInv, [ServerNext]_serverVars PROVE ServerIInv'
    OBVIOUS
  <2> USE DEF ServerIInv, NoUseAfterDestroy
  <2>1. CASE ServerThread
    BY <2>1 DEF ServerThread, EnterRun, TestFlag, run_once, Touch
  <2>2. CASE ServerMain
    BY <2>2 DEF ServerMain, StartServer, stop, JoinServer, Joined, DestroyServer
  <2>3. CASE UNCHANGED serverVars
    BY <2>3 DEF serverVars
  <2>4. QED
    BY <2>1, <2>2, <2>3 DEF ServerNext
<1>3. ServerIInv => NoUseAfterDestroy
  BY DEF ServerIInv
<1>4. QED
  BY <1>1, <1>2, <1>3, PTL DEF ServerSpec

-----------------------------------------------------------------------------
(***************************************************************************)
(* MpmcTest.                                                               *)
(*                                                                         *)
(* A sum over the consumers is not needed: while nobody leaves, consumed   *)
(* is 0, and one consumer's local is at most the number of values seen.    *)
(* So the first consumer to leave the correctness test has popped all of   *)
(* them itself, and from then on nothing is left to push or to pop.  The   *)
(* consumers of the throughput test account for every value one by one.    *)
(* Both rest on values being pushed once: Fresh values are those that no   *)
(* producer has pushed yet.                                                *)
(***************************************************************************)
V == 0..(TOTAL - 1)

InQueue(v) == \E i \in 1..Len(queue) : queue[i] = v

Fresh(v) == seen[v] = 0 /\ ~InQueue(v)

SeenSet == {v \in V : seen[v] = 1}

Leaving == \E c \in Q : cpc[c] \in {"add", "add again", "left"}

Adding == {c \in Q : cpc[c] = "add"}

MpmcTypeOK ==
  /\ driver \in {"none", "correctness", "throughput"}
  /\ queue \in Seq(V)
  /\ produced \in Nat /\ consumed \in Nat
  /\ item \in [P -> Nat]
  /\ local \in [Q -> Nat]
  /\ ppc \in [P -> {"claim", "push", "left"}]
  /\ cpc \in [Q -> {"pop", "check", "add", "add again", "test", "try", "left"}]
  /\ seen \in [V -> Nat]
  /\ joining \in {"producers", "consumers", "drain", "done"}

(* No value is in the queue twice, or both in the queue and seen.          *)
Unique ==
  /\ \A i, j \in 1..Len(queue) : queue[i] = queue[j] => i = j
  /\ \A i \in 1..Len(queue) : seen[queue[i]] = 0
  /\ \A v \in V : seen[v] <= 1

NotStarted ==
  driver = "none" =>
    /\ \A v \in V : Fresh(v)
    /\ produced = 0 /\ consumed = 0
    /\ \A p \in P : item[p] = 0 /\ ppc[p] = "left"
    /\ \A c \in Q : local[c] = 0 /\ cpc[c] = "left"
    /\ joining = "done"

(* The producers of the correctness test have pushed the values below
   their item and no other; no consumer has popped more than was seen.     *)
CorrectnessInv ==
  driver = "correctness" =>
    /\ \A p \in P : ppc[p] # "claim" /\ (ppc[p] = "push" => item[p] < ITEMS_EACH)
    /\ \A c \in Q : cpc[c] \notin {"test", "try"}
    /\ \A p \in P, i \in Nat : item[p] <= i /\ i < ITEMS_EACH => Fresh(p * ITEMS_EACH + i)
    /\ \A c \in Q : local[c] <= Cardinality(SeenSet)
    /\ ~Leaving => consumed = 0
    /\ Leaving \/ joining \in {"drain", "done"} => SeenSet = V

(* The positions the throughput producers have claimed are different, and
   consumed counts no value that was not seen.                             *)
ThroughputInv ==
  driver = "throughput" =>
    /\ \A c \in Q : cpc[c] \notin {"pop", "check", "add again"}
    /\ \A v \in V : produced <= v => Fresh(v)
    /\ \A p \in P : ppc[p] = "push" => item[p] \in V /\ item[p] < produced /\ Fresh(item[p])
    /\ \A p, q \in P : ppc[p] = "push" /\ ppc[q] = "push" /\ item[p] = item[q] => p = q
    /\ consumed + Cardinality(Adding) <= Cardinality(SeenSet)
    /\ (\E c \in Q : cpc[c] = "left") => consumed >= TOTAL
    /\ joining \in {"drain", "done"} => SeenSet = V

MpmcIInv == MpmcTypeOK /\ Unique /\ NotStarted /\ CorrectnessInv /\ ThroughputInv

(* The numbers of threads and items are positive, and there are TOTAL      *)
(* values.                                                                 *)
LEMMA MpmcNumbers ==
  /\ Producers \in Nat /\ Consumers \in Nat /\ ITEMS_EACH \in Nat
  /\ Producers > 0 /\ Consumers > 0 /\ ITEMS_EACH > 0
  /\ TOTAL \in Nat
  /\ IsFiniteSet(V) /\ Cardinality(V) = TOTAL
  /\ IsFiniteSet(Q) /\ 0 \in Q
<1>1. /\ Producers \in Nat /\ Consumers \in Nat /\ ITEMS_EACH \in Nat
      /\ Producers > 0 /\ Consumers > 0 /\ ITEMS_EACH > 0
  BY MpmcAssumption
<1>2. TOTAL \in Nat
  BY <1>1 DEF TOTAL
<1>3. IsFiniteSet(V) /\ Cardinality(V) = TOTAL
  <2>1. 0 \in Int /\ TOTAL - 1 \in Int /\ (0 > TOTAL - 1 => TOTAL = 0) /\ (TOTAL - 1) - 0 + 1 = TOTAL
    BY <1>2
  <2>2. QED
    BY <2>1, FS_Interval DEF V
<1>4. IsFiniteSet(Q)
  <2>1. 0 \in Int /\ Consumers - 1 \in Int
    BY <1>1
  <2>2. QED
    BY <2>1, FS_Interval DEF Q
<1>5. 0 \in Q
  BY <1>1 DEF Q
<1>6. QED
  BY <1>1, <1>2, <1>3, <1>4, <1>5

(* A set of TOTAL values is the set of all of them.                        *)
LEMMA SubsetOfV ==
  ASSUME NEW S \in SUBSET V
  PROVE  /\ IsFiniteSet(S) /\ Cardinality(S) \in Nat
         /\ Cardinality(S) >= TOTAL => S = V
<1>1. IsFiniteSet(S) /\ Cardinality(S) <= TOTAL /\ (Cardinality(S) = TOTAL => S = V)
  BY MpmcNumbers, FS_Subset
<1>2. Cardinality(S) \in Nat
  BY <1>1, FS_CardinalityType
<1>3. QED
  BY <1>1, <1>2, MpmcNumbers

(***************************************************************************)
(* The ranges of values of the producers are disjoint and lie in V (the    *)
(* expression p * ITEMS_EACH + i of the correctness test).                 *)
(***************************************************************************)
LEMMA Blocks ==
  ASSUME NEW n \in Nat, NEW p \in Nat, NEW q \in Nat, NEW i \in Nat, i < n, p < q
  PROVE  p * n + i < q * n
<1>1. PICK k \in Nat : q = p + 1 + k
  <2>1. q - p - 1 \in Nat /\ q = p + 1 + (q - p - 1)
    OBVIOUS
  <2>2. QED
    BY <2>1
<1>2. q * n = p * n + n + k * n
  BY <1>1
<1>3. p * n \in Nat /\ k * n \in Nat
  OBVIOUS
<1>4. QED
  BY <1>2, <1>3

(* Two producers never push the same value: p * ITEMS_EACH + i is          *)
(* different for different p or i.                                         *)
LEMMA ValuesDisjoint ==
  ASSUME NEW p \in P, NEW i \in Nat, i < ITEMS_EACH
  PROVE  /\ p * ITEMS_EACH + i \in V
         /\ \A q \in P, j \in Nat : j < ITEMS_EACH /\ p * ITEMS_EACH + i = q * ITEMS_EACH + j
                                      => p = q /\ i = j
<1>1. p \in Nat /\ p < Producers /\ Producers \in Nat /\ ITEMS_EACH \in Nat
  BY MpmcNumbers DEF P
<1>2. p * ITEMS_EACH \in Nat
  BY <1>1
<1>3. p * ITEMS_EACH + i < TOTAL
  BY <1>1, Blocks DEF TOTAL
<1>4. p * ITEMS_EACH + i \in V
  BY <1>2, <1>3, MpmcNumbers DEF V
<1>5. ASSUME NEW q \in P, NEW j \in Nat, j < ITEMS_EACH, p * ITEMS_EACH + i = q * ITEMS_EACH + j
      PROVE  p = q /\ i = j
  <2>1. q \in Nat /\ q * ITEMS_EACH \in Nat
    BY <1>1 DEF P
  <2>2. ~(p < q)
    <3>1. p < q => p * ITEMS_EACH + i < q * ITEMS_EACH
      BY <1>1, <2>1, Blocks
    <3>2. QED
      BY <1>2, <1>5, <2>1, <3>1
  <2>3. ~(q < p)
    <3>1. q < p => q * ITEMS_EACH + j < p * ITEMS_EACH
      BY <1>1, <1>5, <2>1, Blocks
    <3>2. QED
      BY <1>2, <1>5, <2>1, <3>1
  <2>4. p = q
    BY <1>1, <2>1, <2>2, <2>3
  <2>5. QED
    BY <1>2, <1>5, <2>4
<1>6. QED
  BY <1>4, <1>5

(***************************************************************************)
(* Pushing a fresh value and popping keep the values unique, and leave the *)
(* other fresh values fresh.                                               *)
(***************************************************************************)
LEMMA PushOne ==
  ASSUME MpmcTypeOK, Unique, NEW v \in V, Fresh(v), push(v), seen' = seen
  PROVE  /\ queue' \in Seq(V)
         /\ Unique'
         /\ \A x \in V : x # v /\ Fresh(x) => Fresh(x)'
<1>a. queue \in Seq(V) /\ Len(queue) \in Nat
  <2>1. queue \in Seq(V)
    BY DEF MpmcTypeOK
  <2>2. QED
    BY <2>1
<1>1. CASE queue' = queue
  BY <1>1 DEF MpmcTypeOK, Unique, Fresh, InQueue
<1>2. CASE queue' = Append(queue, v)
  <2>1. /\ queue' \in Seq(V) /\ Len(queue') = Len(queue) + 1
        /\ \A i \in 1..Len(queue) : queue'[i] = queue[i]
        /\ queue'[Len(queue) + 1] = v
    BY <1>a, <1>2
  <2>2. \A i : i \in 1..Len(queue') <=> i \in 1..Len(queue) \/ i = Len(queue) + 1
    BY <1>a, <2>1
  <2>3. \A i \in 1..Len(queue) : queue[i] # v
    BY DEF Fresh, InQueue
  <2>4. \A i, j \in 1..Len(queue') : queue'[i] = queue'[j] => i = j
    BY <2>1, <2>2, <2>3 DEF Unique
  <2>5. \A i \in 1..Len(queue') : seen'[queue'[i]] = 0
    BY <2>1, <2>2 DEF Unique, Fresh
  <2>6. Unique'
    BY <2>4, <2>5 DEF Unique
  <2>7. ASSUME NEW x \in V, x # v, Fresh(x) PROVE Fresh(x)'
    BY <2>1, <2>2, <2>7 DEF Fresh, InQueue
  <2>8. QED
    BY <2>1, <2>6, <2>7
<1>3. QED
  BY <1>1, <1>2 DEF push

(* The queue without its first element.                                    *)
LEMMA TailFacts ==
  ASSUME NEW S, NEW s \in Seq(S), s # <<>>
  PROVE  /\ Head(s) = s[1] /\ Head(s) \in S /\ 1 \in 1..Len(s)
         /\ Tail(s) \in Seq(S)
         /\ \A i \in 1..Len(Tail(s)) : i + 1 \in 1..Len(s) /\ Tail(s)[i] = s[i + 1] /\ i + 1 # 1
<1>1. Len(s) \in Nat /\ Len(s) > 0
  OBVIOUS
<1>2. QED
  BY <1>1

(* A successful try_pop moves exactly one value from the queue to those    *)
(* seen.                                                                   *)
LEMMA PopOne ==
  ASSUME MpmcTypeOK, Unique, try_pop
  PROVE  /\ queue' \in Seq(V)
         /\ seen' \in [V -> Nat]
         /\ Unique'
         /\ \A x \in V : Fresh(x) => Fresh(x)'
         /\ ~Pops => SeenSet' = SeenSet
         /\ Pops => Cardinality(SeenSet') = Cardinality(SeenSet) + 1
         /\ SeenSet = V => SeenSet' = V
<1>a. queue \in Seq(V) /\ seen \in [V -> Nat]
  BY DEF MpmcTypeOK
<1>1. CASE ~Pops
  <2>1. queue' = queue /\ seen' = seen
    BY <1>1 DEF try_pop
  <2>2. QED
    BY <1>a, <1>1, <2>1 DEF Unique, Fresh, InQueue, SeenSet
<1>2. CASE Pops
  <2> DEFINE h == Head(queue)
  <2>1. queue' = Tail(queue) /\ seen' = [seen EXCEPT ![h] = @ + 1] /\ queue # <<>>
    BY <1>2 DEF try_pop, Pops
  <2>2. /\ h = queue[1] /\ h \in V /\ 1 \in 1..Len(queue)
        /\ queue' \in Seq(V)
        /\ \A i \in 1..Len(queue') :
             i + 1 \in 1..Len(queue) /\ queue'[i] = queue[i + 1] /\ i + 1 # 1
    BY <1>a, <2>1, TailFacts
  <2> HIDE DEF h
  <2>3. seen[h] = 0
    BY <2>2 DEF Unique
  <2>4. seen' = [seen EXCEPT ![h] = 1]
    BY <2>1, <2>3, <1>a
  <2>5. \A i \in 1..Len(queue') : queue'[i] # h
    BY <2>2 DEF Unique
  <2>6. \A i, j \in 1..Len(queue') : queue'[i] = queue'[j] => i = j
    <3>1. \A i, j \in 1..Len(queue') : queue'[i] = queue'[j] => i + 1 = j + 1
      BY <2>2 DEF Unique
    <3>2. \A i, j \in 1..Len(queue') : i + 1 = j + 1 => i = j
      BY <2>2
    <3>3. QED
      BY <3>1, <3>2
  <2>7. \A i \in 1..Len(queue') : queue'[i] \in V /\ seen'[queue'[i]] = 0
    BY <1>a, <2>2, <2>4, <2>5 DEF Unique
  <2>8. Unique'
    BY <1>a, <2>2, <2>4, <2>6, <2>7 DEF Unique
  <2>9. ASSUME NEW x \in V, Fresh(x) PROVE Fresh(x)'
    BY <1>a, <2>2, <2>4, <2>9 DEF Fresh, InQueue
  <2>10. SeenSet' = SeenSet \cup {h} /\ h \notin SeenSet
    BY <1>a, <2>2, <2>3, <2>4 DEF SeenSet
  <2>11. IsFiniteSet(SeenSet)
    BY SubsetOfV DEF SeenSet
  <2>12. Cardinality(SeenSet') = Cardinality(SeenSet) + 1
    BY <2>10, <2>11, FS_AddElement
  <2>13. SeenSet # V
    BY <2>2, <2>10
  <2>14. seen' \in [V -> Nat]
    BY <1>a, <2>2, <2>4
  <2>15. QED
    BY <1>2, <2>2, <2>8, <2>9, <2>12, <2>13, <2>14
<1>3. QED
  BY <1>1, <1>2

(* main() starts the threads of a test.                                    *)
LEMMA StartStep ==
  ASSUME MpmcIInv, NEW d \in {"correctness", "throughput"}, StartThreads(d)
  PROVE  MpmcIInv'
<1>a. MpmcTypeOK /\ Unique /\ NotStarted
  BY DEF MpmcIInv
<1>1. /\ driver = "none" /\ driver' = d /\ joining' = "producers"
      /\ ppc' = [p \in P |-> IF d = "correctness" THEN "push" ELSE "claim"]
      /\ cpc' = [c \in Q |-> IF d = "correctness" THEN "pop" ELSE "test"]
      /\ UNCHANGED <<queue, produced, consumed, item, local, seen>>
  BY DEF StartThreads
<1>2. /\ \A v \in V : Fresh(v)
      /\ produced = 0 /\ consumed = 0
      /\ \A p \in P : item[p] = 0
      /\ \A c \in Q : local[c] = 0
  BY <1>a, <1>1 DEF NotStarted
<1>3. MpmcTypeOK'
  BY <1>a, <1>1 DEF MpmcTypeOK
<1>4. Unique' /\ NotStarted'
  BY <1>a, <1>1 DEF Unique, NotStarted
<1>5. \A v \in V : Fresh(v)'
  BY <1>1, <1>2 DEF Fresh, InQueue
<1>6. Cardinality(SeenSet') \in Nat
  BY SubsetOfV DEF SeenSet
<1>7. CASE d = "correctness"
  <2>1. \A p \in P : ppc'[p] = "push" /\ item'[p] < ITEMS_EACH
    BY <1>1, <1>2, <1>7, MpmcNumbers
  <2>2. \A c \in Q : cpc'[c] = "pop" /\ local'[c] = 0
    BY <1>1, <1>2, <1>7
  <2>3. \A p \in P, i \in Nat : i < ITEMS_EACH => Fresh(p * ITEMS_EACH + i)'
    <3>1. \A p \in P, i \in Nat : i < ITEMS_EACH => p * ITEMS_EACH + i \in V
      BY ValuesDisjoint
    <3>2. QED
      BY <1>5, <3>1
  <2>4. ~Leaving'
    BY <2>2 DEF Leaving
  <2>5. \A c \in Q : local'[c] <= Cardinality(SeenSet')
    BY <1>6, <2>2
  <2>6. CorrectnessInv'
    BY <1>1, <1>2, <2>1, <2>2, <2>3, <2>4, <2>5 DEF CorrectnessInv
  <2>7. ThroughputInv'
    BY <1>1, <1>7 DEF ThroughputInv
  <2>8. QED
    BY <1>3, <1>4, <2>6, <2>7 DEF MpmcIInv
<1>8. CASE d = "throughput"
  <2>1. \A p \in P : ppc'[p] = "claim"
    BY <1>1, <1>8
  <2>2. \A c \in Q : cpc'[c] = "test"
    BY <1>1, <1>8
  <2>3. Adding' = {}
    BY <2>2 DEF Adding
  <2>4. consumed' + Cardinality(Adding') <= Cardinality(SeenSet')
    BY <1>1, <1>2, <1>6, <2>3, FS_EmptySet
  <2>5. ThroughputInv'
    BY <1>1, <1>5, <2>1, <2>2, <2>4 DEF ThroughputInv
  <2>6. CorrectnessInv'
    BY <1>1, <1>8 DEF CorrectnessInv
  <2>7. QED
    BY <1>3, <1>4, <2>5, <2>6 DEF MpmcIInv
<1>9. QED
  BY <1>7, <1>8

(* A producer of the correctness test pushes its next value.               *)
LEMMA ProduceStep ==
  ASSUME MpmcIInv, NEW p \in P, Produce(p)
  PROVE  MpmcIInv'
<1>a. MpmcTypeOK /\ Unique /\ CorrectnessInv
  BY DEF MpmcIInv
<1>1. /\ ppc[p] = "push" /\ driver = "correctness" /\ push(Val(p))
      /\ item' = [item EXCEPT ![p] = @ + 1]
      /\ ppc' = [ppc EXCEPT ![p] = IF item[p] + 1 < ITEMS_EACH THEN "push" ELSE "left"]
      /\ UNCHANGED <<driver, produced, consumed, local, cpc, seen, joining>>
  BY DEF Produce
<1>2. item \in [P -> Nat] /\ item[p] \in Nat /\ item[p] < ITEMS_EACH /\ ITEMS_EACH \in Nat
  BY <1>a, <1>1, MpmcNumbers DEF MpmcTypeOK, CorrectnessInv
<1>3. /\ Val(p) \in V
      /\ Val(p) = p * ITEMS_EACH + item[p]
      /\ \A q \in P, j \in Nat : j < ITEMS_EACH /\ Val(p) = q * ITEMS_EACH + j
                                   => p = q /\ item[p] = j
  BY <1>2, ValuesDisjoint DEF Val
<1>4. Fresh(Val(p))
  BY <1>a, <1>1, <1>2, <1>3 DEF CorrectnessInv
<1>5. /\ queue' \in Seq(V)
      /\ Unique'
      /\ \A x \in V : x # Val(p) /\ Fresh(x) => Fresh(x)'
  BY <1>a, <1>1, <1>3, <1>4, PushOne
<1>6. item' \in [P -> Nat] /\ item'[p] = item[p] + 1 /\ \A q \in P \ {p} : item'[q] = item[q]
  BY <1>1, <1>2
<1>7. /\ ppc' \in [P -> {"claim", "push", "left"}]
      /\ \A q \in P : ppc'[q] # "claim" /\ (ppc'[q] = "push" => item'[q] < ITEMS_EACH)
  BY <1>a, <1>1, <1>2, <1>6 DEF MpmcTypeOK, CorrectnessInv
<1>8. MpmcTypeOK'
  BY <1>a, <1>1, <1>5, <1>6, <1>7 DEF MpmcTypeOK
<1>9. ASSUME NEW q \in P, NEW i \in Nat, item'[q] <= i, i < ITEMS_EACH
      PROVE  Fresh(q * ITEMS_EACH + i)'
  <2>1. item[q] <= i /\ (q = p => i # item[p])
    BY <1>2, <1>6, <1>9
  <2>2. q * ITEMS_EACH + i # Val(p)
    BY <1>3, <1>9, <2>1
  <2>3. Fresh(q * ITEMS_EACH + i) /\ q * ITEMS_EACH + i \in V
    BY <1>a, <1>1, <1>9, <2>1, ValuesDisjoint DEF CorrectnessInv
  <2>4. QED
    BY <1>5, <2>2, <2>3
<1>10. SeenSet' = SeenSet /\ (Leaving' <=> Leaving)
  BY <1>1 DEF SeenSet, Leaving
<1>11. CorrectnessInv'
  BY <1>a, <1>1, <1>7, <1>9, <1>10 DEF CorrectnessInv
<1>12. QED
  BY <1>1, <1>5, <1>8, <1>11 DEF MpmcIInv, NotStarted, ThroughputInv

(***************************************************************************)
(* What a successful or failed try_pop leaves true in both drivers.        *)
(***************************************************************************)
LEMMA ConsumeStep ==
  ASSUME MpmcIInv, NEW c \in Q, Consume(c)
  PROVE  MpmcIInv'
<1>a. MpmcTypeOK /\ Unique /\ CorrectnessInv
  BY DEF MpmcIInv
<1>1. /\ cpc[c] = "pop" /\ try_pop
      /\ local' = [local EXCEPT ![c] = IF Pops THEN @ + 1 ELSE @]
      /\ cpc' = [cpc EXCEPT ![c] = "check"]
      /\ UNCHANGED <<driver, produced, consumed, item, ppc, joining>>
  BY DEF Consume
<1>2. driver = "correctness"
  BY <1>1 DEF MpmcIInv, MpmcTypeOK, NotStarted, ThroughputInv
<1>3. /\ queue' \in Seq(V) /\ seen' \in [V -> Nat] /\ Unique'
      /\ \A x \in V : Fresh(x) => Fresh(x)'
      /\ ~Pops => SeenSet' = SeenSet
      /\ Pops => Cardinality(SeenSet') = Cardinality(SeenSet) + 1
      /\ SeenSet = V => SeenSet' = V
  BY <1>a, <1>1, PopOne
<1>4. Cardinality(SeenSet) \in Nat /\ local \in [Q -> Nat]
  BY <1>a, SubsetOfV DEF SeenSet, MpmcTypeOK
<1>5. local' \in [Q -> Nat]
  BY <1>1, <1>4
<1>6. MpmcTypeOK'
  BY <1>a, <1>1, <1>3, <1>5 DEF MpmcTypeOK
<1>7. ASSUME NEW x \in Q PROVE local'[x] <= Cardinality(SeenSet')
  <2>1. local[x] <= Cardinality(SeenSet)
    BY <1>a, <1>2 DEF CorrectnessInv
  <2>2. QED
    BY <1>1, <1>3, <1>4, <2>1
<1>8. Leaving' <=> Leaving
  BY <1>a, <1>1 DEF Leaving, MpmcTypeOK
<1>9. \A p \in P, i \in Nat : item'[p] <= i /\ i < ITEMS_EACH => Fresh(p * ITEMS_EACH + i)'
  BY <1>a, <1>1, <1>2, <1>3, ValuesDisjoint DEF CorrectnessInv
<1>10. \A x \in Q : cpc'[x] \notin {"test", "try"}
  BY <1>a, <1>1, <1>2 DEF CorrectnessInv, MpmcTypeOK
<1>11. CorrectnessInv'
  BY <1>a, <1>1, <1>2, <1>3, <1>7, <1>8, <1>9, <1>10 DEF CorrectnessInv
<1>12. QED
  BY <1>1, <1>2, <1>3, <1>6, <1>11 DEF MpmcIInv, NotStarted, ThroughputInv

(* A consumer of the correctness test reads the counter of consumed items. *)
LEMMA CheckConsumedStep ==
  ASSUME MpmcIInv, NEW c \in Q, CheckConsumed(c)
  PROVE  MpmcIInv'
<1>a. MpmcTypeOK /\ Unique /\ CorrectnessInv
  BY DEF MpmcIInv
<1>1. /\ cpc[c] = "check"
      /\ cpc' = [cpc EXCEPT ![c] = IF MayLeave(c) THEN "add" ELSE "pop"]
      /\ UNCHANGED <<driver, queue, produced, consumed, item, local, ppc, seen, joining>>
  BY DEF CheckConsumed, queueVars
<1>2. driver = "correctness"
  BY <1>1 DEF MpmcIInv, MpmcTypeOK, NotStarted, ThroughputInv
<1>3. MpmcTypeOK' /\ Unique'
  BY <1>a, <1>1 DEF MpmcTypeOK, Unique
<1>4. SeenSet' = SeenSet
  BY <1>1 DEF SeenSet
<1>5. Leaving' => Leaving \/ MayLeave(c)
  BY <1>a, <1>1 DEF Leaving, MpmcTypeOK
<1>6. Leaving => Leaving'
  <2>1. \A x \in Q : x # c => cpc'[x] = cpc[x]
    BY <1>a, <1>1 DEF MpmcTypeOK
  <2>2. QED
    BY <1>1, <2>1 DEF Leaving
<1>7. ~Leaving /\ MayLeave(c) => SeenSet = V
  <2>1. SUFFICES ASSUME ~Leaving, MayLeave(c) PROVE SeenSet = V
    OBVIOUS
  <2>2. consumed = 0 /\ local[c] <= Cardinality(SeenSet) /\ local[c] \in Nat
    BY <1>a, <1>2, <2>1 DEF CorrectnessInv, MpmcTypeOK
  <2>3. local[c] >= TOTAL
    BY <2>1, <2>2 DEF MayLeave
  <2>4. Cardinality(SeenSet) \in Nat /\ (Cardinality(SeenSet) >= TOTAL => SeenSet = V)
    BY SubsetOfV DEF SeenSet
  <2>5. QED
    BY <2>2, <2>3, <2>4, MpmcNumbers
<1>8. \A x \in Q : cpc'[x] \notin {"test", "try"}
  BY <1>a, <1>1, <1>2 DEF CorrectnessInv, MpmcTypeOK
<1>9. \A x \in V : Fresh(x)' <=> Fresh(x)
  BY <1>1 DEF Fresh, InQueue
<1>10. \A p \in P, i \in Nat : item'[p] <= i /\ i < ITEMS_EACH => Fresh(p * ITEMS_EACH + i)'
  BY <1>a, <1>1, <1>2, <1>9, ValuesDisjoint DEF CorrectnessInv
<1>11. CorrectnessInv'
  BY <1>a, <1>1, <1>2, <1>4, <1>5, <1>6, <1>7, <1>8, <1>10 DEF CorrectnessInv
<1>12. QED
  BY <1>1, <1>2, <1>3, <1>11 DEF MpmcIInv, NotStarted, ThroughputInv

(* A consumer of the correctness test adds its local count.                *)
LEMMA AddLocalStep ==
  ASSUME MpmcIInv, NEW c \in Q, AddLocal(c)
  PROVE  MpmcIInv'
<1>a. MpmcTypeOK /\ Unique /\ CorrectnessInv
  BY DEF MpmcIInv
<1>1. /\ driver = "correctness" /\ cpc[c] \in {"add", "add again"}
      /\ consumed' = consumed + local[c]
      /\ cpc' = [cpc EXCEPT ![c] = IF @ = "add" THEN "add again" ELSE "left"]
      /\ UNCHANGED <<driver, queue, produced, item, local, ppc, seen, joining>>
  BY DEF AddLocal, queueVars
<1>2. MpmcTypeOK' /\ Unique'
  <2>1. consumed' \in Nat
    <3>1. consumed \in Nat /\ local[c] \in Nat
      BY <1>a DEF MpmcTypeOK
    <3>2. consumed' = consumed + local[c]
      BY <1>1
    <3>3. QED
      BY ONLY <3>1, <3>2
  <2>2. cpc' \in [Q -> {"pop", "check", "add", "add again", "test", "try", "left"}]
    BY <1>a, <1>1 DEF MpmcTypeOK
  <2>3. QED
    BY <1>a, <1>1, <2>1, <2>2 DEF MpmcTypeOK, Unique
<1>3. Leaving /\ Leaving'
  BY <1>a, <1>1 DEF Leaving, MpmcTypeOK
<1>4. SeenSet' = SeenSet
  BY <1>1 DEF SeenSet
<1>5. \A x \in V : Fresh(x)' <=> Fresh(x)
  BY <1>1 DEF Fresh, InQueue
<1>6. \A p \in P, i \in Nat : item'[p] <= i /\ i < ITEMS_EACH => Fresh(p * ITEMS_EACH + i)'
  BY <1>a, <1>1, <1>5, ValuesDisjoint DEF CorrectnessInv
<1>7. \A x \in Q : cpc'[x] \notin {"test", "try"}
  BY <1>a, <1>1 DEF CorrectnessInv, MpmcTypeOK
<1>8. CorrectnessInv'
  BY <1>a, <1>1, <1>3, <1>4, <1>6, <1>7 DEF CorrectnessInv
<1>9. QED
  BY <1>1, <1>2, <1>8 DEF MpmcIInv, NotStarted, ThroughputInv

(* A producer of the benchmark claims a number.                            *)
LEMMA ClaimStep ==
  ASSUME MpmcIInv, NEW p \in P, Claim(p)
  PROVE  MpmcIInv'
<1>a. MpmcTypeOK /\ Unique /\ ThroughputInv
  BY DEF MpmcIInv
<1>1. /\ ppc[p] = "claim"
      /\ produced' = produced + 1
      /\ item' = [item EXCEPT ![p] = produced]
      /\ ppc' = [ppc EXCEPT ![p] = IF Claimed(produced) THEN "push" ELSE "left"]
      /\ UNCHANGED <<driver, queue, consumed, local, cpc, seen, joining>>
  BY DEF Claim, queueVars
<1>2. driver = "throughput"
  BY <1>1 DEF MpmcIInv, MpmcTypeOK, NotStarted, CorrectnessInv
<1>3. produced \in Nat /\ produced' \in Nat /\ item \in [P -> Nat] /\ item' \in [P -> Nat]
  <2>1. produced \in Nat /\ item \in [P -> Nat]
    BY <1>a DEF MpmcTypeOK
  <2>2. QED
    BY <1>1, <2>1
<1>4. MpmcTypeOK' /\ Unique'
  BY <1>a, <1>1, <1>3 DEF MpmcTypeOK, Unique
<1>5. \A x \in V : Fresh(x)' <=> Fresh(x)
  BY <1>1 DEF Fresh, InQueue
<1>6. \A v \in V : v \in Nat /\ (produced' <= v => produced <= v)
  BY <1>1, <1>3 DEF V
<1>7. Claimed(produced) => produced \in V /\ Fresh(produced)
  <2>1. Claimed(produced) => produced \in V
    BY <1>3, MpmcNumbers DEF Claimed, V
  <2>2. produced <= produced
    BY <1>3
  <2>3. QED
    BY <1>a, <1>2, <2>1, <2>2 DEF ThroughputInv
<1>8. ASSUME NEW q \in P, ppc'[q] = "push"
      PROVE  /\ item'[q] \in V /\ item'[q] < produced' /\ Fresh(item'[q])
             /\ q = p => item'[q] = produced
             /\ q # p => ppc[q] = "push" /\ item'[q] = item[q] /\ item[q] < produced
  <2>1. CASE q = p
    <3>1. Claimed(produced) /\ item'[q] = produced
      BY <1>a, <1>1, <1>3, <1>8, <2>1 DEF MpmcTypeOK
    <3>2. QED
      BY <1>1, <1>3, <1>7, <2>1, <3>1
  <2>2. CASE q # p
    <3>1. ppc[q] = "push" /\ item'[q] = item[q]
      BY <1>a, <1>1, <1>3, <1>8, <2>2 DEF MpmcTypeOK
    <3>2. item[q] \in V /\ item[q] < produced /\ Fresh(item[q]) /\ item[q] \in Nat
      BY <1>a, <1>2, <1>3, <3>1 DEF ThroughputInv
    <3>3. QED
      BY <1>1, <1>3, <2>2, <3>1, <3>2
  <2>3. QED
    BY <2>1, <2>2
<1>9. \A q, r \in P : ppc'[q] = "push" /\ ppc'[r] = "push" /\ item'[q] = item'[r] => q = r
  <2>1. \A q \in P : ppc'[q] = "push" /\ q # p => item'[q] # produced
    BY <1>3, <1>8
  <2>2. \A q, r \in P : /\ ppc[q] = "push" /\ ppc[r] = "push" /\ item[q] = item[r] => q = r
    BY <1>a, <1>2 DEF ThroughputInv
  <2>3. QED
    BY <1>8, <2>1, <2>2
<1>10. SeenSet' = SeenSet /\ Adding' = Adding
  BY <1>1 DEF SeenSet, Adding
<1>11. ThroughputInv'
  BY <1>a, <1>1, <1>2, <1>5, <1>6, <1>8, <1>9, <1>10 DEF ThroughputInv
<1>12. QED
  BY <1>1, <1>2, <1>4, <1>11 DEF MpmcIInv, NotStarted, CorrectnessInv

(* A producer of the benchmark pushes the number it has claimed.           *)
LEMMA PushClaimedStep ==
  ASSUME MpmcIInv, NEW p \in P, PushClaimed(p)
  PROVE  MpmcIInv'
<1>a. MpmcTypeOK /\ Unique /\ ThroughputInv
  BY DEF MpmcIInv
<1>1. /\ ppc[p] = "push" /\ driver = "throughput"
      /\ push(item[p])
      /\ ppc' = [ppc EXCEPT ![p] = "claim"]
      /\ UNCHANGED <<driver, produced, consumed, item, local, cpc, seen, joining>>
  BY DEF PushClaimed
<1>2. item[p] \in V /\ item[p] < produced /\ Fresh(item[p])
  BY <1>a, <1>1 DEF ThroughputInv
<1>3. /\ queue' \in Seq(V)
      /\ Unique'
      /\ \A x \in V : x # item[p] /\ Fresh(x) => Fresh(x)'
  BY <1>a, <1>1, <1>2, PushOne
<1>4. MpmcTypeOK'
  BY <1>a, <1>1, <1>3 DEF MpmcTypeOK
<1>5. \A q \in P : ppc'[q] = "push" => q # p /\ ppc[q] = "push"
  BY <1>a, <1>1 DEF MpmcTypeOK
<1>6. \A q \in P : ppc'[q] = "push" => item[q] # item[p]
  BY <1>a, <1>1, <1>5 DEF ThroughputInv
<1>7. \A q \in P : ppc'[q] = "push" => item[q] \in V /\ item[q] < produced /\ Fresh(item[q])'
  BY <1>a, <1>1, <1>3, <1>5, <1>6 DEF ThroughputInv
<1>8. \A v \in V : produced <= v => Fresh(v)'
  <2>1. \A v \in V : produced <= v => v # item[p]
    <3>1. produced \in Nat /\ item[p] \in Nat
      BY <1>a DEF MpmcTypeOK
    <3>2. \A v \in V : v \in Int
      BY DEF V
    <3>3. QED
      BY <1>2, <3>1, <3>2
  <2>2. QED
    BY <1>a, <1>1, <1>3, <2>1 DEF ThroughputInv
<1>9. SeenSet' = SeenSet /\ Adding' = Adding
  BY <1>1 DEF SeenSet, Adding
<1>10. ThroughputInv'
  BY <1>a, <1>1, <1>5, <1>7, <1>8, <1>9 DEF ThroughputInv
<1>11. QED
  BY <1>1, <1>3, <1>4, <1>10 DEF MpmcIInv, NotStarted, CorrectnessInv

(* A consumer of the benchmark reads the counter.                          *)
LEMMA TestConsumedStep ==
  ASSUME MpmcIInv, NEW c \in Q, TestConsumed(c)
  PROVE  MpmcIInv'
<1>a. MpmcTypeOK /\ Unique /\ ThroughputInv
  BY DEF MpmcIInv
<1>1. /\ cpc[c] = "test"
      /\ cpc' = [cpc EXCEPT ![c] = IF consumed < TOTAL THEN "try" ELSE "left"]
      /\ UNCHANGED <<driver, queue, produced, consumed, item, local, ppc, seen, joining>>
  BY DEF TestConsumed, queueVars
<1>2. driver = "throughput"
  BY <1>1 DEF MpmcIInv, MpmcTypeOK, NotStarted, CorrectnessInv
<1>3. MpmcTypeOK' /\ Unique'
  BY <1>a, <1>1 DEF MpmcTypeOK, Unique
<1>4. \A x \in V : Fresh(x)' <=> Fresh(x)
  BY <1>1 DEF Fresh, InQueue
<1>5. SeenSet' = SeenSet /\ Adding' = Adding
  BY <1>a, <1>1 DEF SeenSet, Adding, MpmcTypeOK
<1>6. \A x \in Q : cpc'[x] \notin {"pop", "check", "add again"}
  BY <1>a, <1>1, <1>2 DEF ThroughputInv, MpmcTypeOK
<1>7. (\E x \in Q : cpc'[x] = "left") => consumed >= TOTAL
  <2>1. consumed \in Nat /\ TOTAL \in Nat
    BY <1>a, MpmcNumbers DEF MpmcTypeOK
  <2>2. \A x \in Q : cpc'[x] = "left" => cpc[x] = "left" \/ ~(consumed < TOTAL)
    BY <1>a, <1>1 DEF MpmcTypeOK
  <2>3. (\E x \in Q : cpc[x] = "left") => consumed >= TOTAL
    BY <1>a, <1>2 DEF ThroughputInv
  <2>4. QED
    BY <2>1, <2>2, <2>3
<1>8. \A p \in P : ppc[p] = "push" => item[p] \in V /\ item[p] < produced /\ Fresh(item[p])'
  BY <1>a, <1>1, <1>2, <1>4 DEF ThroughputInv
<1>9. ThroughputInv'
  BY <1>a, <1>1, <1>2, <1>4, <1>5, <1>6, <1>7, <1>8 DEF ThroughputInv
<1>10. QED
  BY <1>1, <1>2, <1>3, <1>9 DEF MpmcIInv, NotStarted, CorrectnessInv

(* A consumer of the benchmark pops.                                       *)
LEMMA TryPopStep ==
  ASSUME MpmcIInv, NEW c \in Q, TryPop(c)
  PROVE  MpmcIInv'
<1>a. MpmcTypeOK /\ Unique /\ ThroughputInv
  BY DEF MpmcIInv
<1>1. /\ cpc[c] = "try" /\ try_pop
      /\ cpc' = [cpc EXCEPT ![c] = IF Pops THEN "add" ELSE "test"]
      /\ UNCHANGED <<driver, produced, consumed, item, local, ppc, joining>>
  BY DEF TryPop
<1>2. driver = "throughput"
  BY <1>1 DEF MpmcIInv, MpmcTypeOK, NotStarted, CorrectnessInv
<1>3. /\ queue' \in Seq(V) /\ seen' \in [V -> Nat] /\ Unique'
      /\ \A x \in V : Fresh(x) => Fresh(x)'
      /\ ~Pops => SeenSet' = SeenSet
      /\ Pops => Cardinality(SeenSet') = Cardinality(SeenSet) + 1
      /\ SeenSet = V => SeenSet' = V
  BY <1>a, <1>1, PopOne
<1>4. MpmcTypeOK'
  BY <1>a, <1>1, <1>3 DEF MpmcTypeOK
<1>5. IsFiniteSet(Adding) /\ Cardinality(Adding) \in Nat
  <2>1. IsFiniteSet(Adding)
    BY MpmcNumbers, FS_Subset DEF Adding
  <2>2. QED
    BY <2>1, FS_CardinalityType
<1>6. Cardinality(SeenSet) \in Nat /\ consumed \in Nat
  BY <1>a, SubsetOfV DEF SeenSet, MpmcTypeOK
<1>7. consumed' + Cardinality(Adding') <= Cardinality(SeenSet')
  <2>1. consumed + Cardinality(Adding) <= Cardinality(SeenSet)
    BY <1>a, <1>2 DEF ThroughputInv
  <2>2. CASE Pops
    <3>1. Adding' = Adding \cup {c} /\ c \notin Adding
      BY <1>a, <1>1, <2>2 DEF Adding, MpmcTypeOK
    <3>2. Cardinality(Adding') = Cardinality(Adding) + 1
      BY <1>5, <3>1, FS_AddElement
    <3>3. QED
      BY <1>1, <1>3, <1>5, <1>6, <2>1, <2>2, <3>2
  <2>3. CASE ~Pops
    <3>1. Adding' = Adding
      BY <1>a, <1>1, <2>3 DEF Adding, MpmcTypeOK
    <3>2. QED
      BY <1>1, <1>3, <2>1, <2>3, <3>1
  <2>4. QED
    BY <2>2, <2>3
<1>8. \A x \in Q : cpc'[x] \notin {"pop", "check", "add again"}
  BY <1>a, <1>1, <1>2 DEF ThroughputInv, MpmcTypeOK
<1>9. \A x \in Q : cpc'[x] = "left" => cpc[x] = "left"
  BY <1>a, <1>1 DEF MpmcTypeOK
<1>10. \A p \in P : ppc[p] = "push" => item[p] \in V /\ item[p] < produced /\ Fresh(item[p])'
  BY <1>a, <1>1, <1>2, <1>3 DEF ThroughputInv
<1>11. ThroughputInv'
  BY <1>a, <1>1, <1>2, <1>3, <1>7, <1>8, <1>9, <1>10 DEF ThroughputInv
<1>12. QED
  BY <1>1, <1>2, <1>3, <1>4, <1>11 DEF MpmcIInv, NotStarted, CorrectnessInv

(* A consumer of the benchmark adds to the counter.                        *)
LEMMA AddOneStep ==
  ASSUME MpmcIInv, NEW c \in Q, AddOne(c)
  PROVE  MpmcIInv'
<1>a. MpmcTypeOK /\ Unique /\ ThroughputInv
  BY DEF MpmcIInv
<1>1. /\ driver = "throughput" /\ cpc[c] = "add"
      /\ consumed' = consumed + 1
      /\ cpc' = [cpc EXCEPT ![c] = "test"]
      /\ UNCHANGED <<driver, queue, produced, item, local, ppc, seen, joining>>
  BY DEF AddOne, queueVars
<1>2. MpmcTypeOK' /\ Unique'
  <2>1. consumed' \in Nat
    <3>1. consumed \in Nat
      BY <1>a DEF MpmcTypeOK
    <3>2. QED
      BY <1>1, <3>1
  <2>2. cpc' \in [Q -> {"pop", "check", "add", "add again", "test", "try", "left"}]
    BY <1>a, <1>1 DEF MpmcTypeOK
  <2>3. QED
    BY <1>a, <1>1, <2>1, <2>2 DEF MpmcTypeOK, Unique
<1>3. \A x \in V : Fresh(x)' <=> Fresh(x)
  BY <1>1 DEF Fresh, InQueue
<1>4. SeenSet' = SeenSet /\ Adding' = Adding \ {c} /\ c \in Adding
  BY <1>a, <1>1 DEF SeenSet, Adding, MpmcTypeOK
<1>5. IsFiniteSet(Adding) /\ Cardinality(Adding) \in Nat
  <2>1. IsFiniteSet(Adding)
    BY MpmcNumbers, FS_Subset DEF Adding
  <2>2. QED
    BY <2>1, FS_CardinalityType
<1>6. Cardinality(Adding') = Cardinality(Adding) - 1
  BY <1>4, <1>5, FS_RemoveElement
<1>7. consumed \in Nat /\ consumed' \in Nat /\ TOTAL \in Nat
  <2>1. consumed \in Nat
    BY <1>a DEF MpmcTypeOK
  <2>2. QED
    BY <1>1, <2>1, MpmcNumbers
<1>8. consumed' + Cardinality(Adding') <= Cardinality(SeenSet')
  <2>1. consumed + Cardinality(Adding) <= Cardinality(SeenSet)
    BY <1>a, <1>1 DEF ThroughputInv
  <2>2. QED
    BY <1>1, <1>4, <1>5, <1>6, <1>7, <2>1
<1>9. \A x \in Q : cpc'[x] \notin {"pop", "check", "add again"} /\ (cpc'[x] = "left" => cpc[x] = "left")
  BY <1>a, <1>1 DEF ThroughputInv, MpmcTypeOK
<1>10. (\E x \in Q : cpc'[x] = "left") => consumed' >= TOTAL
  <2>1. (\E x \in Q : cpc[x] = "left") => consumed >= TOTAL
    BY <1>a, <1>1 DEF ThroughputInv
  <2>2. (\E x \in Q : cpc'[x] = "left") => consumed >= TOTAL
    BY <1>9, <2>1
  <2>3. consumed' = consumed + 1
    BY <1>1
  <2>4. consumed >= TOTAL => consumed' >= TOTAL
    BY ONLY <1>7, <2>3
  <2>5. QED
    BY <2>2, <2>4
<1>11. \A p \in P : ppc[p] = "push" => item[p] \in V /\ item[p] < produced /\ Fresh(item[p])'
  BY <1>a, <1>1, <1>3 DEF ThroughputInv
<1>12. ThroughputInv'
  BY <1>a, <1>1, <1>3, <1>4, <1>8, <1>9, <1>10, <1>11 DEF ThroughputInv
<1>13. QED
  BY <1>1, <1>2, <1>12 DEF MpmcIInv, NotStarted, CorrectnessInv

(* main() joins the threads, drains the queue and ends the test.           *)
LEMMA MainStepKeeps ==
  ASSUME MpmcIInv, MainStep
  PROVE  MpmcIInv'
<1>a. MpmcTypeOK /\ Unique /\ NotStarted /\ CorrectnessInv /\ ThroughputInv
  BY DEF MpmcIInv
<1>1. CASE joining = "consumers" /\ (\A c \in Q : cpc[c] = "left") /\ joining' = "drain"
           /\ UNCHANGED <<driver, queue, produced, consumed, item, local, ppc, cpc, seen>>
  <2>1. driver # "none"
    BY <1>a, <1>1 DEF NotStarted
  <2>2. MpmcTypeOK' /\ Unique' /\ NotStarted'
    BY <1>a, <1>1, <2>1 DEF MpmcTypeOK, Unique, NotStarted
  <2>3. driver = "correctness" => SeenSet = V
    <3>1. Leaving
      BY <1>1, MpmcNumbers DEF Leaving
    <3>2. QED
      BY <1>a, <3>1 DEF CorrectnessInv
  <2>4. driver = "throughput" => SeenSet = V
    <3>1. SUFFICES ASSUME driver = "throughput" PROVE SeenSet = V
      OBVIOUS
    <3>2. consumed >= TOTAL
      BY <1>a, <1>1, <3>1, MpmcNumbers DEF ThroughputInv
    <3>3. Cardinality(Adding) \in Nat
      <4>1. IsFiniteSet(Adding)
        BY MpmcNumbers, FS_Subset DEF Adding
      <4>2. QED
        BY <4>1, FS_CardinalityType
    <3>4. Cardinality(SeenSet) \in Nat /\ (Cardinality(SeenSet) >= TOTAL => SeenSet = V)
      BY SubsetOfV DEF SeenSet
    <3>5. consumed + Cardinality(Adding) <= Cardinality(SeenSet) /\ consumed \in Nat
      BY <1>a, <3>1 DEF ThroughputInv, MpmcTypeOK
    <3>6. QED
      BY <3>2, <3>3, <3>4, <3>5, MpmcNumbers
  <2>5. SeenSet' = SeenSet /\ Adding' = Adding /\ (Leaving' <=> Leaving)
    BY <1>1 DEF SeenSet, Adding, Leaving
  <2>6. \A x : Fresh(x)' <=> Fresh(x)
    BY <1>1 DEF Fresh, InQueue
  <2>7. CorrectnessInv'
    BY <1>a, <1>1, <2>3, <2>5, <2>6 DEF CorrectnessInv
  <2>8. ThroughputInv'
    BY <1>a, <1>1, <2>4, <2>5, <2>6 DEF ThroughputInv
  <2>9. QED
    BY <2>2, <2>7, <2>8 DEF MpmcIInv
<1>2. CASE /\ joining' \in {"consumers", "done"}
           /\ (joining = "producers" /\ joining' = "consumers") \/ joining = "drain"
           /\ UNCHANGED <<driver, queue, produced, consumed, item, local, ppc, cpc, seen>>
  <2>1. MpmcTypeOK' /\ Unique' /\ NotStarted'
    BY <1>a, <1>2 DEF MpmcTypeOK, Unique, NotStarted
  <2>2. SeenSet' = SeenSet /\ Adding' = Adding /\ (Leaving' <=> Leaving)
    BY <1>2 DEF SeenSet, Adding, Leaving
  <2>3. \A x : Fresh(x)' <=> Fresh(x)
    BY <1>2 DEF Fresh, InQueue
  <2>4. CorrectnessInv'
    BY <1>a, <1>2, <2>2, <2>3 DEF CorrectnessInv
  <2>5. ThroughputInv'
    BY <1>a, <1>2, <2>2, <2>3 DEF ThroughputInv
  <2>6. QED
    BY <2>1, <2>4, <2>5 DEF MpmcIInv
<1>3. CASE Drain
  <2>1. /\ joining = "drain" /\ driver = "correctness" /\ try_pop
        /\ joining' \in {"drain", "done"}
        /\ UNCHANGED <<driver, produced, consumed, item, local, ppc, cpc>>
    BY <1>3 DEF Drain
  <2>2. /\ queue' \in Seq(V) /\ seen' \in [V -> Nat] /\ Unique'
        /\ \A x \in V : Fresh(x) => Fresh(x)'
        /\ SeenSet = V => SeenSet' = V
    BY <1>a, <2>1, PopOne
  <2>3. MpmcTypeOK'
    BY <1>a, <2>1, <2>2 DEF MpmcTypeOK
  <2>4. SeenSet = V /\ SeenSet' = V
    BY <1>a, <2>1, <2>2 DEF CorrectnessInv
  <2>5. Leaving' <=> Leaving
    BY <2>1 DEF Leaving
  <2>6. \A p \in P, i \in Nat : item'[p] <= i /\ i < ITEMS_EACH => Fresh(p * ITEMS_EACH + i)'
    BY <1>a, <2>1, <2>2, ValuesDisjoint DEF CorrectnessInv
  <2>7. CorrectnessInv'
    BY <1>a, <2>1, <2>4, <2>5, <2>6 DEF CorrectnessInv
  <2>8. QED
    BY <2>1, <2>2, <2>3, <2>7 DEF MpmcIInv, NotStarted, ThroughputInv
<1>4. QED
  BY <1>1, <1>2, <1>3 DEF MainStep, Join, ThroughputEnds, queueVars

(* The inductive invariant holds in every reachable state.                 *)
LEMMA MpmcInvariance == MpmcSpec => []MpmcIInv
<1>1. MpmcInit => MpmcIInv
  <2>1. SUFFICES ASSUME MpmcInit PROVE MpmcIInv
    OBVIOUS
  <2>2. /\ driver = "none" /\ queue = <<>> /\ joining = "done"
        /\ produced = 0 /\ consumed = 0
        /\ item = [p \in P |-> 0] /\ local = [c \in Q |-> 0]
        /\ ppc = [p \in P |-> "left"] /\ cpc = [c \in Q |-> "left"]
        /\ seen = [v \in V |-> 0]
    BY <2>1 DEF MpmcInit, V
  <2>3. queue \in Seq(V) /\ Len(queue) = 0
    BY <2>2
  <2>4. \A v \in V : Fresh(v)
    BY <2>2, <2>3 DEF Fresh, InQueue
  <2>5. MpmcTypeOK
    BY <2>2, <2>3 DEF MpmcTypeOK
  <2>6. Unique
    BY <2>2, <2>3 DEF Unique
  <2>7. NotStarted
    BY <2>2, <2>4 DEF NotStarted
  <2>8. QED
    BY <2>2, <2>5, <2>6, <2>7 DEF MpmcIInv, CorrectnessInv, ThroughputInv
<1>2. MpmcIInv /\ [MpmcNext]_mpmcVars => MpmcIInv'
  <2>1. SUFFICES ASSUME MpmcIInv, [MpmcNext]_mpmcVars PROVE MpmcIInv'
    OBVIOUS
  <2>2. CASE UNCHANGED mpmcVars
    <3>1. \A x : Fresh(x)' <=> Fresh(x)
      BY <2>2 DEF mpmcVars, queueVars, Fresh, InQueue
    <3>2. SeenSet' = SeenSet /\ Adding' = Adding /\ (Leaving' <=> Leaving)
      BY <2>2 DEF mpmcVars, queueVars, SeenSet, Adding, Leaving
    <3>3. QED
      BY <2>1, <2>2, <3>1, <3>2 DEF mpmcVars, queueVars, MpmcIInv, MpmcTypeOK, Unique, NotStarted,
                                    CorrectnessInv, ThroughputInv
  <2>3. ASSUME NEW p \in P, ProducerStep(p) PROVE MpmcIInv'
    BY <2>1, <2>3, ProduceStep, ClaimStep, PushClaimedStep DEF ProducerStep
  <2>4. ASSUME NEW c \in Q, ConsumerStep(c) PROVE MpmcIInv'
    BY <2>1, <2>4, ConsumeStep, CheckConsumedStep, AddLocalStep, TestConsumedStep, TryPopStep,
       AddOneStep DEF ConsumerStep
  <2>5. QED
    BY <2>1, <2>2, <2>3, <2>4, StartStep, MainStepKeeps DEF MpmcNext
<1>3. QED
  BY <1>1, <1>2, PTL DEF MpmcSpec

(***************************************************************************)
(* No consumer of test_mpmc_4p4c_correctness stops popping while a value   *)
(* is outstanding, for any number of producers, consumers and items and    *)
(* any capacity of the queue.                                              *)
(***************************************************************************)
THEOREM LeavesLast == MpmcSpec => []NoEarlyLeave
<1>1. MpmcIInv => NoEarlyLeave
  <2>1. SUFFICES ASSUME MpmcIInv, driver = "correctness", Leaving
                 PROVE  queue = <<>> /\ \A v \in DOMAIN seen : seen[v] = 1
    BY DEF NoEarlyLeave, Leaving
  <2>2. SeenSet = V /\ seen \in [V -> Nat] /\ queue \in Seq(V)
    BY <2>1 DEF MpmcIInv, CorrectnessInv, MpmcTypeOK
  <2>3. \A v \in V : seen[v] = 1
    BY <2>2 DEF SeenSet
  <2>4. ASSUME queue # <<>> PROVE FALSE
    <3>1. 1 \in 1..Len(queue) /\ queue[1] \in V
      BY <2>2, <2>4
    <3>2. seen[queue[1]] = 0
      BY <2>1, <3>1 DEF MpmcIInv, Unique
    <3>3. QED
      BY <2>3, <3>1, <3>2
  <2>5. QED
    BY <2>2, <2>3, <2>4
<1>2. QED
  BY <1>1, MpmcInvariance, PTL

(***************************************************************************)
(* "Every value seen exactly once" (test_mpmc_queue.cpp:100) is what both  *)
(* drivers of the queue establish when they end, for any configuration:    *)
(* no value is ever counted twice, and each is counted when main() is      *)
(* done.                                                                   *)
(***************************************************************************)
THEOREM EachSeenOnce == MpmcSpec => []SeenOnce
<1>1. MpmcIInv => SeenOnce
  <2>1. SUFFICES ASSUME MpmcIInv PROVE SeenOnce
    OBVIOUS
  <2>2. DOMAIN seen = V
    BY <2>1 DEF MpmcIInv, MpmcTypeOK
  <2>3. driver # "none" /\ joining = "done" => SeenSet = V
    BY <2>1 DEF MpmcIInv, MpmcTypeOK, CorrectnessInv, ThroughputInv
  <2>4. SeenSet = V => \A v \in V : seen[v] = 1
    BY DEF SeenSet
  <2>5. \A v \in V : seen[v] <= 1
    BY <2>1 DEF MpmcIInv, Unique
  <2>6. QED
    BY <2>2, <2>3, <2>4, <2>5 DEF SeenOnce
<1>2. QED
  BY <1>1, MpmcInvariance, PTL
=============================================================================
