------------------------------ MODULE Sequence ------------------------------
(***************************************************************************)
(* A sequence of integers as its user sees it: the abstract specification  *)
(* of the two containers of 00-c-for-programmers, the dynamic array        *)
(* int_vec_t and the linked list (the comments of strings.h and structs.h  *)
(* above each function).  last is the last call that returned, with its    *)
(* argument and what it gave back.                                         *)
(***************************************************************************)
EXTENDS Naturals, Sequences

CONSTANTS
  Values, \* the integers stored
  Void    \* no argument, or nothing returned

VARIABLES seq, last

Init == seq = <<>> /\ last = <<"init", Void, Void>>

Returns(op, arg, result) == last' = <<op, arg, result>>

PushFront(v) == seq' = <<v>> \o seq /\ Returns("push_front", v, Void)

PushBack(v) == seq' = Append(seq, v) /\ Returns("push_back", v, Void)

PopFront ==
  /\ seq # <<>>
  /\ seq' = Tail(seq)
  /\ Returns("pop_front", Void, Head(seq))

PopBack ==
  /\ seq # <<>>
  /\ seq' = SubSeq(seq, 1, Len(seq) - 1)
  /\ Returns("pop_back", Void, seq[Len(seq)])

(* Indices count from 0, as in the code.                                   *)
Get(i) ==
  /\ i < Len(seq)
  /\ Returns("get", i, seq[i + 1])
  /\ UNCHANGED seq

Positions(v) == {i \in DOMAIN seq : seq[i] = v}

Found(v) == IF Positions(v) = {} THEN 0 ELSE 1

Contains(v) == Returns("contains", v, Found(v)) /\ UNCHANGED seq

Remove(v) ==
  /\ Returns("remove", v, Found(v))
  /\ \/ Positions(v) = {} /\ UNCHANGED seq
     \/ \E i \in Positions(v) :
          /\ \A j \in Positions(v) : i <= j
          /\ seq' = SubSeq(seq, 1, i - 1) \o SubSeq(seq, i + 1, Len(seq))

Clear == seq' = <<>> /\ Returns("free", Void, Void)

Restart == seq' = <<>> /\ Returns("init", Void, Void)

Next ==
  \/ PopFront \/ PopBack \/ Clear \/ Restart
  \/ \E v \in Values : PushFront(v) \/ PushBack(v) \/ Contains(v) \/ Remove(v)
  \/ \E i \in DOMAIN seq : Get(i - 1)

Spec == Init /\ [][Next]_<<seq, last>>
=============================================================================
