---------------------------- MODULE BufferValues ----------------------------
(***************************************************************************)
(* What Buffer promises its users (the comments of buffer.hpp): an object  *)
(* is a value, an array of bytes.  A copy duplicates the value, a move     *)
(* takes it and leaves the empty array behind, a write changes one byte of *)
(* one object, and the two counters count the copies and the moves.  There *)
(* are no blocks, so there is nothing to share, to leak or to free twice.  *)
(***************************************************************************)
EXTENDS Naturals, Sequences

CONSTANTS Objects, Sizes, Bytes, Dead

VARIABLES
  val,    \* the array each object is, or Dead
  copies,
  moves

Alive(o) == val[o] # Dead

Init ==
  /\ val = [o \in Objects |-> Dead]
  /\ copies = 0
  /\ moves = 0

Create(o, n) ==
  /\ ~Alive(o)
  /\ val' = [val EXCEPT ![o] = [i \in 1..n |-> 0]]
  /\ UNCHANGED <<copies, moves>>

Destroy(o) ==
  /\ Alive(o)
  /\ val' = [val EXCEPT ![o] = Dead]
  /\ UNCHANGED <<copies, moves>>

Write(o, i, b) ==
  /\ Alive(o)
  /\ i \in DOMAIN val[o]
  /\ val' = [val EXCEPT ![o][i] = b]
  /\ UNCHANGED <<copies, moves>>

(* Into a new object or over an existing one; o = p changes no value.      *)
Copy(o, p) ==
  /\ Alive(p)
  /\ val' = [val EXCEPT ![o] = val[p]]
  /\ copies' = copies + 1
  /\ UNCHANGED moves

(* A move onto itself may leave any valid value; the empty one is chosen.  *)
Move(o, p) ==
  /\ Alive(p)
  /\ val' = [val EXCEPT ![o] = val[p], ![p] = <<>>]
  /\ moves' = moves + 1
  /\ UNCHANGED copies

ResetCounters ==
  /\ copies' = 0
  /\ moves' = 0
  /\ UNCHANGED val

Next ==
  \/ ResetCounters
  \/ \E o \in Objects :
       \/ Destroy(o)
       \/ \E n \in Sizes : Create(o, n)
       \/ \E i \in Sizes, b \in Bytes : Write(o, i, b)
       \/ \E p \in Objects : Copy(o, p) \/ Move(o, p)

Spec == Init /\ [][Next]_<<val, copies, moves>>
=============================================================================
