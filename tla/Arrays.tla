------------------------------- MODULE Arrays -------------------------------
(***************************************************************************)
(* The functions on ints and arrays of                                     *)
(* 00-c-for-programmers/exercises/ex1-hello-c/hello.c.  array_reverse      *)
(* works in place and is a loop of steps; the others are operators.        *)
(* fizzbuzz only formats and array_contains only looks: they are left out. *)
(* arr[0] of the code is arr[1] here, n is the length of arr.              *)
(***************************************************************************)
EXTENDS CInt, Sequences

CONSTANTS
  Items, \* ints in the arrays
  MaxN   \* largest length of an array

ASSUME ItemsAssumption == Items \subseteq Ints /\ MaxN \in Nat

VARIABLES
  arr,      \* the caller's array
  swaps,    \* i in array_reverse: pairs swapped so far
  busy,     \* array_reverse is running
  original  \* history: arr when it was called

arrayVars == <<arr, swaps, busy, original>>

max_of(a, b) == IF a > b THEN a ELSE b

min_of(a, b) == IF a > b THEN b ELSE a

clamp(val, lo, hi) == IF val < lo THEN lo ELSE IF val > hi THEN hi ELSE val

\* Mutant of array_sum: the loop starts at the second element.
array_sum_late(a) ==
  LET sum[n \in 0..Len(a)] == IF n <= 1 THEN 0 ELSE Wrap(sum[n - 1] + a[n]) IN sum[Len(a)]

array_sum(a) ==
  LET sum[n \in 0..Len(a)] == IF n = 0 THEN 0 ELSE Wrap(sum[n - 1] + a[n]) IN sum[Len(a)]

(* arr[i] > largest                                                        *)
Larger(a, b) == a > b

(* largest_idx after the loop has seen the first n elements.               *)
array_max_index(a) ==
  LET idx[n \in 1..Len(a)] ==
        IF n = 1 THEN 1 ELSE IF Larger(a[n], a[idx[n - 1]]) THEN n ELSE idx[n - 1]
  IN  IF a = <<>> THEN -1 ELSE idx[Len(a)] - 1

ArraysInit == arr = <<>> /\ swaps = 0 /\ busy = FALSE /\ original = <<>>

(* The caller fills the array.                                             *)
FillArray ==
  /\ ~busy
  /\ \E n \in 0..MaxN : arr' \in [1..n -> Items]
  /\ UNCHANGED <<swaps, busy, original>>

array_reverse ==
  /\ ~busy
  /\ busy' = TRUE
  /\ swaps' = 0
  /\ original' = arr
  /\ UNCHANGED arr

(* mirror_idx, as a place of arr.                                          *)
Mirror(i) == Len(arr) - i

\* Mutant of Half: the pair in the middle of an even length is left out.
HalfLess == (Len(arr) - 1) \div 2

(* The bound of the loop.                                                  *)
Half == Len(arr) \div 2

(* An iteration: arr[i] and arr[mirror_idx] are swapped by way of temp.    *)
reverse_swaps ==
  /\ busy
  /\ swaps < Half
  /\ arr' = [arr EXCEPT ![swaps + 1] = arr[Mirror(swaps)], ![Mirror(swaps)] = arr[swaps + 1]]
  /\ swaps' = swaps + 1
  /\ UNCHANGED <<busy, original>>

reverse_ends ==
  /\ busy
  /\ swaps >= Half
  /\ busy' = FALSE
  /\ UNCHANGED <<arr, swaps, original>>

ArraysNext == FillArray \/ array_reverse \/ reverse_swaps \/ reverse_ends

ArraysSpec == ArraysInit /\ [][ArraysNext]_arrayVars

-----------------------------------------------------------------------------
(***************************************************************************)
(* In the middle of array_reverse the outer pairs are exchanged and the    *)
(* rest is as it was; when it returns the array is the one it was given,   *)
(* read backwards, for even and odd lengths and the empty array.           *)
(***************************************************************************)
ReverseReturns ==
  [][/\ busy /\ ~busy' => arr' = [j \in DOMAIN original |-> original[Len(original) + 1 - j]]
     /\ busy' => \A j \in DOMAIN original' :
          arr'[j] = IF j <= swaps' \/ j > Len(original') - swaps'
                    THEN original'[Len(original') + 1 - j] ELSE original'[j]]_arrayVars

(***************************************************************************)
(* array_sum is the sum of the elements whenever that is an int, even if   *)
(* a partial sum is not.                                                   *)
(***************************************************************************)
SumExact ==
  LET exact[n \in 0..Len(arr)] == IF n = 0 THEN 0 ELSE exact[n - 1] + arr[n]
  IN  exact[Len(arr)] \in Ints => array_sum(arr) = exact[Len(arr)]

(***************************************************************************)
(* array_max_index is the first place of the largest element, -1 only for  *)
(* an empty array.                                                         *)
(***************************************************************************)
MaxIndexFirst ==
  LET m == array_max_index(arr) + 1
  IN  IF arr = <<>> THEN m = 0
      ELSE /\ m \in DOMAIN arr
           /\ \A j \in DOMAIN arr : arr[j] <= arr[m] /\ (j < m => arr[j] < arr[m])

(***************************************************************************)
(* clamp returns the number of [lo, hi] that is nearest to val, with the   *)
(* bounds that min_of and max_of give for two numbers in either order.     *)
(***************************************************************************)
ClampNearest ==
  \A j, k \in DOMAIN arr :
    LET lo == min_of(arr[j], arr[k])
        hi == max_of(arr[j], arr[k])
        c(v) == clamp(v, lo, hi)
        d(u, v) == (u - v) * (u - v)
    IN  \A v \in Items : c(v) \in lo..hi /\ \A w \in lo..hi : d(c(v), v) <= d(w, v)

(***************************************************************************)
(* The functions that only look at the array compute what their comments   *)
(* say, where a partial sum overflows too.                                 *)
(***************************************************************************)
ArraysExact == SumExact /\ MaxIndexFirst /\ ClampNearest
=============================================================================
