----------------------------- MODULE BenchStats -----------------------------
(***************************************************************************)
(* The statistics of namespace bench in tools/common.hpp: median_ns        *)
(* collects samples and returns their median, print_latency_dist reports   *)
(* the percentiles of samples the caller has collected.  Percentages are   *)
(* in thousandths, because 99.9 is one of them.                            *)
(***************************************************************************)
EXTENDS Sorting, SequencesExt

CONSTANTS
  Elapsed,    \* differences two readings of the steady clock may have
  MaxSamples, \* bound on the number of samples
  Permilles   \* percentages asked for, in thousandths

ASSUME ElapsedAssumption == Elapsed \subseteq Nat /\ MaxSamples \in Nat
ASSUME PermillesAssumption == Permilles \subseteq 0..1000

VARIABLES
  samples, \* the samples collected so far
  report   \* what was returned or printed last

statVars == <<samples, report>>

\* Mutant of Sorted: the call of std::sort is missing.
SortedNot(s) == s

Sorted(s) == std_sort(s)

(* if (idx >= sorted.size()) idx = sorted.size() - 1;                      *)
Clamped(k, n) == IF k >= n THEN n - 1 ELSE k

(* p / 100.0 * size, truncated.  Where the exact product is an integer the
   product of doubles may be just below it.                                *)
Index(p, n) == {(p * n) \div 1000} \cup {k \in 0..n : 1000 * (k + 1) = p * n}

(* The values percentile(sorted, p) may return.                            *)
percentile(s, p) == {s[Clamped(k, Len(s)) + 1] : k \in Index(p, Len(s))}

Middle(n) == n \div 2

StatInit == samples = <<>> /\ report = <<>>

(* An iteration of the loop of median_ns, or of a caller that times its
   own operations.                                                         *)
Measure ==
  /\ Len(samples) < MaxSamples
  /\ \E e \in Elapsed : samples' = Append(samples, e)
  /\ UNCHANGED report

(* The end of median_ns; with iterations = 0 it would read samples[0] of an
   empty vector.                                                           *)
median_ns ==
  /\ samples # <<>>
  /\ report' = <<Sorted(samples)[Middle(Len(samples)) + 1]>>
  /\ samples' = <<>>

(* The samples are passed by value; of none nothing is printed.            *)
print_latency_dist ==
  LET s == Sorted(samples)
  IN
  /\ samples # <<>>
  /\ \E p50 \in percentile(s, 500), p99 \in percentile(s, 990), p999 \in percentile(s, 999) :
       report' = <<FoldSeq(+, 0, samples) \div Len(samples), p50, p99, p999>>
  /\ UNCHANGED samples

StatNext == Measure \/ median_ns \/ print_latency_dist

StatSpec == StatInit /\ [][StatNext]_statVars

-----------------------------------------------------------------------------
Below(v)   == Cardinality({j \in DOMAIN samples : samples[j] < v})
UpTo(v)    == Cardinality({j \in DOMAIN samples : samples[j] <= v})

(* At most p per mille of the samples are below v, at least as many up to it. *)
HasRank(v, p) == 1000 * Below(v) <= p * Len(samples) /\ p * Len(samples) <= 1000 * UpTo(v)

(***************************************************************************)
(* percentile reads inside the vector and its value has the rank asked     *)
(* for: no more than p percent of the samples are smaller and at least p   *)
(* percent are not larger, at both ends of the scale, in spite of the      *)
(* rounding of p / 100.0 * size and whatever the order the samples came    *)
(* in; the "median nanoseconds per iteration" is the one of 50 percent.    *)
(***************************************************************************)
PercentileRanks ==
  samples # <<>> =>
    LET s == Sorted(samples)
    IN  /\ \A p \in Permilles : \A v \in percentile(s, p) : HasRank(v, p)
        /\ HasRank(s[Middle(Len(s)) + 1], 500)
=============================================================================
