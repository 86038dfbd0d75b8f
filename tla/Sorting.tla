------------------------------ MODULE Sorting -------------------------------
(***************************************************************************)
(* std::sort of the C++ library on a vector of integers, as the benchmark  *)
(* and the statistics use it: the elements in ascending order.             *)
(***************************************************************************)
EXTENDS Integers, Functions

(* The sequences that have the elements of s in some order.                *)
Rearranged(s) ==
  LET D == DOMAIN s
  IN  {[j \in D |-> s[p[j]]] : p \in {q \in [D -> D] : IsInjective(q)}}

std_sort(s) == CHOOSE t \in Rearranged(s) : \A j, k \in DOMAIN s : j < k => t[j] <= t[k]
=============================================================================
