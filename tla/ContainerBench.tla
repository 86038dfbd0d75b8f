--------------------------- MODULE ContainerBench ---------------------------
(***************************************************************************)
(* The container benchmark, 03-stl-internals/exercises/                    *)
(* ex1-container-benchmark/bench_containers.cpp: main() fills, queries and *)
(* iterates nine containers with the same keys and prints one row for      *)
(* each.  (The row of flat_map+unique_ptr is measured and not printed.)    *)
(*                                                                         *)
(* A sequence container is the sequence of its elements, an associative    *)
(* one the function from its keys to its values.  One step of the model is *)
(* one iteration of a loop.  Time is abstracted to the operations that are *)
(* performed between the two readings of the clock: iterations of the loop *)
(* and, in bench_insert_vector, the std::sort that follows it.             *)
(***************************************************************************)
EXTENDS Sorting, SequencesExt

CONSTANTS
  N,               \* number of keys
  LINEAR_SCAN_CAP, \* queries at most made of list and deque
  IntMax,          \* largest int
  LongMax          \* largest long long

ASSUME BenchAssumption == N \in Nat \ {0} /\ LINEAR_SCAN_CAP \in Nat \ {0}
ASSUME WidthsAssumption == /\ IntMax \in Nat /\ LongMax \in Nat /\ IntMax <= LongMax
                           /\ (N * (N - 1)) \div 2 <= LongMax

VARIABLES
  keys, queries, \* the vectors of these names
  stage,         \* the container main() is at, by its place in Order
  phase,         \* the function it is in
  pos,           \* iterations made of its loop
  held,          \* contents of the container
  ops,           \* operations inside the timed section
  sum,           \* the running sum
  rows,          \* what was returned for the containers so far
  sums           \* history: the sums they came to

benchVars == <<keys, queries, stage, phase, pos, held, ops, sum, rows, sums>>

(* Signed overflow is undefined: what is added afterwards does not matter. *)
Undefined == -1

(* A container: does it have keys, does inserting replace a value, is it
   sorted once it is filled, is it scanned linearly, and the largest value
   of the variable its elements are summed in.                             *)
Container(keyed, replaces, sorted, scanned, max) ==
  [keyed |-> keyed, replaces |-> replaces, sorted |-> sorted, scanned |-> scanned, max |-> max]

vector_    == Container(FALSE, FALSE, TRUE,  FALSE, IntMax)
map_       == Container(TRUE,  TRUE,  FALSE, FALSE, IntMax)
umap_      == Container(TRUE,  TRUE,  FALSE, FALSE, IntMax)
list_      == Container(FALSE, FALSE, FALSE, TRUE,  IntMax)
deque_     == Container(FALSE, FALSE, FALSE, TRUE,  IntMax)
uflat_     == Container(TRUE,  FALSE, FALSE, FALSE, LongMax)
flatmap_   == Container(TRUE,  FALSE, FALSE, FALSE, LongMax)
uflat_ptr_ == Container(TRUE,  FALSE, FALSE, FALSE, LongMax)
node_map_  == Container(TRUE,  FALSE, FALSE, FALSE, LongMax)

Order == <<vector_, map_, umap_, list_, deque_, uflat_, flatmap_, uflat_ptr_, node_map_>>

Here == Order[stage]

(* push_back, operator[] = and emplace.                                    *)
Put(c, h, k) ==
  IF c.keyed
  THEN [x \in DOMAIN h \cup {k} |-> IF x \in DOMAIN h /\ (x # k \/ ~c.replaces) THEN h[x] ELSE k]
  ELSE Append(h, k)

\* Mutant of Filled: the vector is left unsorted.
FilledUnsorted(c, h) == h

(* The container when its loop has ended: std::sort for the vector.        *)
Filled(c, h) == IF c.sorted THEN std_sort(h) ELSE h

(* lower_bound, find and std::find: the value found, as a set.             *)
Found(c, h, q) ==
  CASE c.sorted  -> LET js == {j \in DOMAIN h : h[j] >= q}
                    IN  IF js = {} THEN {} ELSE {h[Min(js)]}
    [] c.keyed   -> IF q \in DOMAIN h THEN {h[q]} ELSE {}
    [] OTHER     -> ToSet(h) \cap {q}

(* The values in the order of iteration.  Which order the keys have does
   not matter for a sum of numbers that are not negative.                  *)
Elements(c, h) == IF c.keyed THEN [j \in 1..Cardinality(DOMAIN h) |-> h[SetToSeq(DOMAIN h)[j]]]
                  ELSE h

Added(total, v, max) == IF total = Undefined \/ total + v > max THEN Undefined ELSE total + v

(* Calls of std::sort before bench_insert_* reads the clock again.         *)
SortsTimed(c) == IF c.sorted THEN 1 ELSE 0

Limit(c) == IF c.scanned THEN Min({Len(queries), LINEAR_SCAN_CAP}) ELSE Len(queries)

\* Mutant of Scaled: the time of the capped scan is returned as it is.
ScaledNot(c, n) == n

Scaled(c, n) == IF c.scanned THEN n * (Len(queries) \div Limit(c)) ELSE n

BenchInit ==
  /\ keys = <<>> /\ queries = <<>>
  /\ stage = 0
  /\ phase = "generate"
  /\ pos = 0
  /\ held = <<>>
  /\ ops = 0
  /\ sum = 0
  /\ rows = <<>>
  /\ sums = <<>>

(* The next loop starts, with the counters of its function.                *)
Enter(s, p) == stage' = s /\ phase' = p /\ pos' = 0 /\ ops' = 0 /\ sum' = 0

(* generate_keys and generate_shuffled.  Both seed a generator of their own
   with 42: the second shuffle applies the permutation of the first again. *)
Generate ==
  /\ phase = "generate"
  /\ \E shuffle \in {s \in [1..N -> 1..N] : IsInjective(s)} :
       /\ keys' = [j \in 1..N |-> shuffle[j] - 1]
       /\ queries' = [j \in 1..N |-> shuffle[shuffle[j]] - 1]
  /\ Enter(1, "insert")
  /\ UNCHANGED <<held, rows, sums>>

(* An iteration of the loop of bench_insert_*, or of the one that fills the
   container of main().                                                    *)
FillStep ==
  /\ phase \in {"insert", "build"}
  /\ pos < Len(keys)
  /\ held' = Put(Here, held, keys[pos + 1])
  /\ pos' = pos + 1
  /\ ops' = ops + 1
  /\ UNCHANGED <<keys, queries, stage, phase, sum, rows, sums>>

(* bench_insert_* returns, the vector after it has been sorted; the
   container is destroyed.                                                 *)
InsertReturns ==
  /\ phase = "insert"
  /\ pos = Len(keys)
  /\ rows' = Append(rows, [insert |-> ops, sorts |-> SortsTimed(Here), lookup |-> 0, iter |-> 0])
  /\ held' = <<>>
  /\ Enter(stage, "build")
  /\ UNCHANGED <<keys, queries, sums>>

BuildEnds ==
  /\ phase = "build"
  /\ pos = Len(keys)
  /\ held' = Filled(Here, held)
  /\ Enter(stage, "lookup")
  /\ UNCHANGED <<keys, queries, rows, sums>>

(* An iteration of bench_lookup_*.                                         *)
LookupStep ==
  /\ phase = "lookup"
  /\ pos < Limit(Here)
  /\ LET found == Found(Here, held, queries[pos + 1])
     IN  sum' = IF found = {} THEN sum ELSE Added(sum, CHOOSE v \in found : TRUE, Here.max)
  /\ pos' = pos + 1
  /\ ops' = ops + 1
  /\ UNCHANGED <<keys, queries, stage, phase, held, rows, sums>>

LookupReturns ==
  /\ phase = "lookup"
  /\ pos = Limit(Here)
  /\ rows' = [rows EXCEPT ![stage].lookup = Scaled(Here, ops)]
  /\ sums' = Append(sums, [lookup |-> sum, iter |-> Undefined])
  /\ Enter(stage, "iter")
  /\ UNCHANGED <<keys, queries, held>>

(* An iteration of bench_iter_*.                                           *)
IterStep ==
  /\ phase = "iter"
  /\ pos < Len(Elements(Here, held))
  /\ sum' = Added(sum, Elements(Here, held)[pos + 1], Here.max)
  /\ pos' = pos + 1
  /\ ops' = ops + 1
  /\ UNCHANGED <<keys, queries, stage, phase, held, rows, sums>>

(* bench_iter_* returns, and main() goes on to the next container.         *)
IterReturns ==
  /\ phase = "iter"
  /\ pos = Len(Elements(Here, held))
  /\ rows' = [rows EXCEPT ![stage].iter = ops]
  /\ sums' = [sums EXCEPT ![stage].iter = sum]
  /\ held' = <<>>
  /\ Enter(stage + 1, IF stage < Len(Order) THEN "insert" ELSE "table")
  /\ UNCHANGED <<keys, queries>>

(* The table is printed and main() has returned.                           *)
BenchDone == phase = "table" /\ UNCHANGED benchVars

BenchNext ==
  \/ Generate \/ FillStep \/ InsertReturns \/ BuildEnds \/ LookupStep \/ LookupReturns
  \/ IterStep \/ IterReturns \/ BenchDone

BenchSpec == BenchInit /\ [][BenchNext]_benchVars

-----------------------------------------------------------------------------
(***************************************************************************)
(* The check that main() leaves as a TODO (bench_containers.cpp:498-501,   *)
(* "sorted vector and unordered_map must agree"), for every container and  *)
(* every query: the value found is the one that was queried, although      *)
(* lower_bound is used without a test for equality.                        *)
(***************************************************************************)
LookupsAgree ==
  phase = "lookup" => \A j \in DOMAIN queries : Found(Here, held, queries[j]) = {queries[j]}

(***************************************************************************)
(* The containers have seen the same data: what a full pass of lookups and *)
(* the iteration sum up to is the sum of the keys, and it is exact in the  *)
(* containers summed in a long long; an int sum overflows exactly when the *)
(* keys add up to more than an int, as they do for the N of main().        *)
(***************************************************************************)
SumsExact ==
  LET total == (N * (N - 1)) \div 2
      exact(c) == IF total > c.max THEN Undefined ELSE total
  IN  \A s \in DOMAIN sums : s < stage =>
        /\ sums[s].iter = exact(Order[s])
        /\ ~Order[s].scanned => sums[s].lookup = exact(Order[s])

(***************************************************************************)
(* All nine containers answer from the same data.                          *)
(***************************************************************************)
SameData == LookupsAgree /\ SumsExact

(***************************************************************************)
(* The rows are comparable: the times that main() divides by N are those   *)
(* of N insertions, N lookups and N elements.  The insertion ends with a   *)
(* container that is ready for its lookups: the one sort of the vector is  *)
(* in its time ("push_back all keys, then std::sort").  The capped scans   *)
(* are scaled by an integer quotient ("Scale back up so the ns/op          *)
(* calculation in main() stays consistent"): they stand for N lookups if   *)
(* the cap divides N, as that of main() does, and never for more, but for  *)
(* up to LINEAR_SCAN_CAP - 1 fewer if it does not.                         *)
(***************************************************************************)
RowsComparable ==
  \A s \in DOMAIN rows : s < stage =>
    /\ rows[s].insert = N /\ rows[s].iter = N
    /\ rows[s].sorts = IF Order[s].sorted THEN 1 ELSE 0
    /\ rows[s].lookup <= N /\ N - rows[s].lookup < LINEAR_SCAN_CAP
    /\ ~Order[s].scanned \/ N % LINEAR_SCAN_CAP = 0 \/ N < LINEAR_SCAN_CAP => rows[s].lookup = N
=============================================================================
