------------------------------ MODULE MpmcTest ------------------------------
(***************************************************************************)
(* The multi-threaded drivers of                                           *)
(* 05-concurrency/exercises/ex3-mpmc-false-sharing/test_mpmc_queue.cpp:    *)
(* test_mpmc_4p4c_correctness and the 4P/4C half of bench_mpmc_throughput. *)
(* Every access to a shared atomic is a step of its own.                   *)
(*                                                                         *)
(* The queue is the placeholder of mpmc_queue.hpp, whose push does nothing *)
(* and whose try_pop finds nothing, or a finished one that does what the   *)
(* comments there say: a bounded FIFO queue, push waits while it is full.  *)
(***************************************************************************)
EXTENDS Integers, Sequences, FiniteSets

CONSTANTS
  Producers, Consumers, \* numbers of threads
  ITEMS_EACH,           \* items of a producer
  QSZ,                  \* capacity of the queue
  Queues                \* kinds of queue: "placeholder", "finished"

ASSUME MpmcAssumption ==
  /\ {Producers, Consumers, ITEMS_EACH, QSZ} \subseteq Nat \ {0}
  /\ Queues \subseteq {"placeholder", "finished"}

TOTAL == Producers * ITEMS_EACH

VARIABLES
  driver,   \* "none", "correctness" or "throughput"
  kind,     \* the kind of queue
  queue,    \* values in the queue
  produced, \* throughput: positions claimed
  consumed, \* the shared counter of the consumers
  item,     \* correctness: i of each producer; throughput: pos
  local,    \* correctness: local of each consumer
  ppc, cpc, \* where the producers and the consumers are
  seen,     \* how often each value was popped
  joining   \* main: "producers", "consumers", "drain", "done"

queueVars == <<kind, queue>>

mpmcVars == <<driver, queueVars, produced, consumed, item, local, ppc, cpc, seen, joining>>

P == 0..(Producers - 1)
Q == 0..(Consumers - 1)

MpmcInit ==
  /\ driver = "none" /\ kind = "placeholder" /\ queue = <<>>
  /\ produced = 0 /\ consumed = 0
  /\ item = [p \in P |-> 0] /\ local = [c \in Q |-> 0]
  /\ ppc = [p \in P |-> "left"] /\ cpc = [c \in Q |-> "left"]
  /\ seen = [v \in 0..(TOTAL - 1) |-> 0]
  /\ joining = "done"

(* A driver starts its threads.                                            *)
StartThreads(d) ==
  /\ driver = "none"
  /\ driver' = d
  /\ kind' \in Queues
  /\ ppc' = [p \in P |-> IF d = "correctness" THEN "push" ELSE "claim"]
  /\ cpc' = [c \in Q |-> IF d = "correctness" THEN "pop" ELSE "test"]
  /\ joining' = "producers"
  /\ UNCHANGED <<queue, produced, consumed, item, local, seen>>

(* push, which waits while the queue is full.                              *)
push(val) ==
  /\ kind = "finished" => Len(queue) < QSZ
  /\ queue' = IF kind = "finished" THEN Append(queue, val) ELSE queue
  /\ UNCHANGED kind

(* try_pop returns true with the oldest value.                             *)
Pops == kind = "finished" /\ queue # <<>>

(* try_pop: on success the value is counted, on failure nothing changes.   *)
try_pop ==
  /\ queue' = IF Pops THEN Tail(queue) ELSE queue
  /\ seen' = IF Pops THEN [seen EXCEPT ![Head(queue)] = @ + 1] ELSE seen
  /\ UNCHANGED kind

\* Mutant of Val: the producers' ranges of values overlap.
ValOverlapping(p) == p + item[p]

Val(p) == p * ITEMS_EACH + item[p]

(* An iteration of the correctness producer.                               *)
Produce(p) ==
  /\ ppc[p] = "push" /\ driver = "correctness"
  /\ push(Val(p))
  /\ item' = [item EXCEPT ![p] = @ + 1]
  /\ ppc' = [ppc EXCEPT ![p] = IF item[p] + 1 < ITEMS_EACH THEN "push" ELSE "left"]
  /\ UNCHANGED <<driver, produced, consumed, local, cpc, seen, joining>>

(* try_pop, seen[v].fetch_add and ++local of the correctness consumer.     *)
Consume(c) ==
  /\ cpc[c] = "pop"
  /\ try_pop
  /\ local' = [local EXCEPT ![c] = IF Pops THEN @ + 1 ELSE @]
  /\ cpc' = [cpc EXCEPT ![c] = "check"]
  /\ UNCHANGED <<driver, produced, consumed, item, ppc, joining>>

\* Mutant of MayLeave: the last item is not waited for.
MayLeaveEarly(c) == consumed + local[c] >= TOTAL - 1

MayLeave(c) == consumed + local[c] >= TOTAL

(* consumed.load and the test.                                             *)
CheckConsumed(c) ==
  /\ cpc[c] = "check"
  /\ cpc' = [cpc EXCEPT ![c] = IF MayLeave(c) THEN "add" ELSE "pop"]
  /\ UNCHANGED <<driver, queueVars, produced, consumed, item, local, ppc, seen, joining>>

(* The fetch_add before the break, and the one behind the loop.            *)
AddLocal(c) ==
  /\ driver = "correctness"
  /\ cpc[c] \in {"add", "add again"}
  /\ consumed' = consumed + local[c]
  /\ cpc' = [cpc EXCEPT ![c] = IF @ = "add" THEN "add again" ELSE "left"]
  /\ UNCHANGED <<driver, queueVars, produced, item, local, ppc, seen, joining>>

\* Mutant of Claimed: one position too few.
ClaimedShort(pos) == pos < TOTAL - 1

(* The claimed position is one of the TOTAL.                               *)
Claimed(pos) == pos < TOTAL

(* produced.fetch_add and the test.                                        *)
Claim(p) ==
  /\ ppc[p] = "claim"
  /\ produced' = produced + 1
  /\ item' = [item EXCEPT ![p] = produced]
  /\ ppc' = [ppc EXCEPT ![p] = IF Claimed(produced) THEN "push" ELSE "left"]
  /\ UNCHANGED <<driver, queueVars, consumed, local, cpc, seen, joining>>

PushClaimed(p) ==
  /\ ppc[p] = "push" /\ driver = "throughput"
  /\ push(item[p])
  /\ ppc' = [ppc EXCEPT ![p] = "claim"]
  /\ UNCHANGED <<driver, produced, consumed, item, local, cpc, seen, joining>>

(* The condition of the throughput consumer's loop, then try_pop.          *)
TestConsumed(c) ==
  /\ cpc[c] = "test"
  /\ cpc' = [cpc EXCEPT ![c] = IF consumed < TOTAL THEN "try" ELSE "left"]
  /\ UNCHANGED <<driver, queueVars, produced, consumed, item, local, ppc, seen, joining>>

TryPop(c) ==
  /\ cpc[c] = "try"
  /\ try_pop
  /\ cpc' = [cpc EXCEPT ![c] = IF Pops THEN "add" ELSE "test"]
  /\ UNCHANGED <<driver, produced, consumed, item, local, ppc, joining>>

AddOne(c) ==
  /\ driver = "throughput"
  /\ cpc[c] = "add"
  /\ consumed' = consumed + 1
  /\ cpc' = [cpc EXCEPT ![c] = "test"]
  /\ UNCHANGED <<driver, queueVars, produced, item, local, ppc, seen, joining>>

(* main joins the producers, then the consumers.                           *)
Join ==
  /\ \/ joining = "producers" /\ (\A p \in P : ppc[p] = "left") /\ joining' = "consumers"
     \/ joining = "consumers" /\ (\A c \in Q : cpc[c] = "left") /\ joining' = "drain"
  /\ UNCHANGED <<driver, queueVars, produced, consumed, item, local, ppc, cpc, seen>>

(* The leftover loop of the correctness driver; the other has none.        *)
Drain ==
  /\ joining = "drain"
  /\ driver = "correctness"
  /\ try_pop
  /\ joining' = IF Pops THEN "drain" ELSE "done"
  /\ UNCHANGED <<driver, produced, consumed, item, local, ppc, cpc>>

ThroughputEnds ==
  /\ joining = "drain"
  /\ driver = "throughput"
  /\ joining' = "done"
  /\ UNCHANGED <<driver, queueVars, produced, consumed, item, local, ppc, cpc, seen>>

ProducerStep(p) == Produce(p) \/ Claim(p) \/ PushClaimed(p)

ConsumerStep(c) ==
  Consume(c) \/ CheckConsumed(c) \/ AddLocal(c) \/ TestConsumed(c) \/ TryPop(c) \/ AddOne(c)

MainStep == Join \/ Drain \/ ThroughputEnds

MpmcNext ==
  \/ \E d \in {"correctness", "throughput"} : StartThreads(d)
  \/ \E p \in P : ProducerStep(p)
  \/ \E c \in Q : ConsumerStep(c)
  \/ MainStep

(* Every thread that can take a step is scheduled again and again.         *)
MpmcSpec ==
  /\ MpmcInit /\ [][MpmcNext]_mpmcVars
  /\ \A p \in P : WF_mpmcVars(ProducerStep(p))
  /\ \A c \in Q : WF_mpmcVars(ConsumerStep(c))
  /\ WF_mpmcVars(MainStep)

-----------------------------------------------------------------------------
(***************************************************************************)
(* No consumer of the correctness test leaves while items are outstanding, *)
(* although consumed counts what a leaving consumer popped twice and is    *)
(* read relaxed: whoever has left knew that all TOTAL values were popped.  *)
(***************************************************************************)
NoEarlyLeave ==
  driver = "correctness" /\ (\E c \in Q : cpc[c] \in {"add", "add again", "left"}) =>
    queue = <<>> /\ \A v \in DOMAIN seen : seen[v] = 1

(***************************************************************************)
(* "Every value seen exactly once" (test_mpmc_queue.cpp:100): no value is  *)
(* counted twice at any time, in either driver, and when a driver over a   *)
(* finished queue is done each was counted.                                *)
(***************************************************************************)
SeenOnce ==
  /\ \A v \in DOMAIN seen : seen[v] <= 1
  /\ driver # "none" /\ joining = "done" => \A v \in DOMAIN seen : seen[v] = 1

(***************************************************************************)
(* The throughput driver ends over a finished queue, also when the queue   *)
(* is full and several producers wait.                                     *)
(***************************************************************************)
ThroughputDone == (driver = "throughput" /\ kind = "finished") ~> joining = "done"

(***************************************************************************)
(* The correctness test ends: it comes to its verdict on "Multi-threaded   *)
(* correctness: 4P + 4C" (test_mpmc_queue.cpp:43).                         *)
(***************************************************************************)
CorrectnessDone == driver = "correctness" ~> joining = "done"
=============================================================================
