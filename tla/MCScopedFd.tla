----------------------------- MODULE MCScopedFd -----------------------------
(* The instance of ScopedFd for TLC: two threads, two or three wrappers and
   enough descriptor numbers for one to be reused while it is still shown by
   a wrapper in the middle of a move assignment.                            *)
EXTENDS ScopedFd, TLC

MCFds == 3..5

Symmetry == Permutations(Wrappers) \cup Permutations(Threads)
=============================================================================
