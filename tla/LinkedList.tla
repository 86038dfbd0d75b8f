----------------------------- MODULE LinkedList -----------------------------
(***************************************************************************)
(* The singly linked list of 00-c-for-programmers/exercises/               *)
(* ex3-structs-and-pointers/structs.c, over malloc and free.               *)
(*                                                                         *)
(* Every iteration of a loop is a step of its own, with the cursors the    *)
(* code keeps (prev and cur), so that what a loop reads after it has       *)
(* written or freed something is visible, and so is a loop that does not   *)
(* end.  A node malloc returns holds whatever its memory held before; a    *)
(* freed node keeps its bytes until it is handed out again.  The code does *)
(* not act on a failed malloc: the store through NULL ends the program     *)
(* (crashed).                                                              *)
(*                                                                         *)
(* Client contract (structs.h): ll_pop_front on a non-empty list, ll_get   *)
(* below the length.  The list may be used again after ll_free.            *)
(***************************************************************************)
EXTENDS Naturals, Sequences, FiniteSets

CONSTANTS
  Nodes,  \* memory for nodes; as many as the list can have
  NULL,
  Values, \* the integers stored
  Void    \* no argument, nothing returned

ASSUME NodesAssumption == IsFiniteSet(Nodes) /\ NULL \notin Nodes

VARIABLES
  alloc,   \* nodes that are allocated
  value,   \* the members of each node
  next,
  head,    \* the members of the list
  length,
  pc,      \* the loop the current call is in, or "idle"
  arg,     \* the argument of the current call
  cur,     \* its local variables
  prev,
  n,
  steps,
  crashed, \* a store went through the NULL of a failed malloc
  last     \* history: the last call that returned

list == <<head, length>>

locals == <<pc, arg, cur, prev, n, steps>>

vars == <<alloc, value, next, list, locals, crashed, last>>

Running == pc = "idle" /\ ~crashed

(* The call op returns result to its caller and its locals disappear.      *)
Returns(op, a, result) ==
  /\ last' = <<op, a, result>>
  /\ pc' = "idle"
  /\ arg' = Void
  /\ cur' = NULL
  /\ prev' = NULL
  /\ n' = NULL
  /\ steps' = 0
  /\ UNCHANGED crashed

(* The call enters its loop.                                               *)
Enters(loop, a, c, p, node) ==
  /\ pc' = loop
  /\ arg' = a
  /\ cur' = c
  /\ prev' = p
  /\ n' = node
  /\ steps' = 0
  /\ UNCHANGED <<crashed, last>>

Init ==
  /\ alloc = {}
  /\ value \in [Nodes -> Values]
  /\ next \in [Nodes -> Nodes \cup {NULL}]
  /\ head = NULL
  /\ length = 0
  /\ pc = "idle"
  /\ arg = Void
  /\ cur = NULL
  /\ prev = NULL
  /\ n = NULL
  /\ steps = 0
  /\ crashed = FALSE
  /\ last = <<"init", Void, Void>>

----------------------------------------------------------------------------
\* Mutant of FrontLink: the new node is not linked to the old head.
FrontLinkLost(node) == [next EXCEPT ![node] = NULL]

(* n->next = list->head                                                    *)
FrontLink(node) == [next EXCEPT ![node] = head]

ll_push_front(v) ==
  /\ Running
  /\ \E node \in Nodes \ alloc :
       /\ alloc' = alloc \cup {node}
       /\ value' = [value EXCEPT ![node] = v]
       /\ next' = FrontLink(node)
       /\ head' = node
  /\ length' = length + 1
  /\ Returns("push_front", v, Void)

\* Mutant of LastLink: n->next = NULL is forgotten.
LastLinkUnset(node) == next

(* n->next = NULL                                                          *)
LastLink(node) == [next EXCEPT ![node] = NULL]

ll_push_back(v) ==
  /\ Running
  /\ \E node \in Nodes \ alloc :
       /\ alloc' = alloc \cup {node}
       /\ value' = [value EXCEPT ![node] = v]
       /\ next' = LastLink(node)
       /\ \/ /\ length = 0
             /\ head' = node
             /\ length' = length + 1
             /\ Returns("push_back", v, Void)
          \/ /\ length # 0
             /\ Enters("push_back", v, head, NULL, node)
             /\ UNCHANGED list

push_back_walks ==
  /\ pc = "push_back"
  /\ next[cur] # NULL
  /\ cur' = next[cur]
  /\ UNCHANGED <<alloc, value, next, list, pc, arg, prev, n, steps, crashed, last>>

push_back_links ==
  /\ pc = "push_back"
  /\ next[cur] = NULL
  /\ next' = [next EXCEPT ![cur] = n]
  /\ length' = length + 1
  /\ Returns("push_back", arg, Void)
  /\ UNCHANGED <<alloc, value, head>>

(* Both pushes store through the pointer malloc returned, NULL or not.     *)
push_without_memory ==
  /\ Running
  /\ crashed' = TRUE
  /\ UNCHANGED <<alloc, value, next, list, locals, last>>

----------------------------------------------------------------------------
(* list->length--                                                          *)
Shorter == length - 1

ll_pop_front ==
  /\ Running
  /\ length > 0
  /\ head' = next[head]
  /\ alloc' = alloc \ {head}
  /\ length' = Shorter
  /\ Returns("pop_front", Void, value[head])
  /\ UNCHANGED <<value, next>>

----------------------------------------------------------------------------
ll_contains(v) ==
  /\ Running
  /\ Enters("contains", v, head, NULL, NULL)
  /\ UNCHANGED <<alloc, value, next, list>>

contains_walks ==
  /\ pc = "contains"
  /\ cur # NULL
  /\ IF value[cur] = arg
       THEN Returns("contains", arg, 1)
       ELSE /\ cur' = next[cur]
            /\ UNCHANGED <<pc, arg, prev, n, steps, crashed, last>>
  /\ UNCHANGED <<alloc, value, next, list>>

contains_ends ==
  /\ pc = "contains"
  /\ cur = NULL
  /\ Returns("contains", arg, 0)
  /\ UNCHANGED <<alloc, value, next, list>>

----------------------------------------------------------------------------
ll_get(i) ==
  /\ Running
  /\ i < length
  /\ Enters("get", i, head, NULL, NULL)
  /\ UNCHANGED <<alloc, value, next, list>>

get_walks ==
  /\ pc = "get"
  /\ steps < arg
  /\ cur' = next[cur]
  /\ steps' = steps + 1
  /\ UNCHANGED <<alloc, value, next, list, pc, arg, prev, n, crashed, last>>

get_ends ==
  /\ pc = "get"
  /\ steps = arg
  /\ Returns("get", arg, value[cur])
  /\ UNCHANGED <<alloc, value, next, list>>

----------------------------------------------------------------------------
(* The empty list and a match at the head are decided before the loop.     *)
ll_remove(v) ==
  /\ Running
  /\ \/ /\ length = 0
        /\ Returns("remove", v, 0)
        /\ UNCHANGED <<alloc, list>>
     \/ /\ length # 0
        /\ value[head] = v
        /\ head' = next[head]
        /\ alloc' = alloc \ {head}
        /\ length' = Shorter
        /\ Returns("remove", v, 1)
     \/ /\ length # 0
        /\ value[head] # v
        /\ Enters("remove", v, next[head], head, NULL)
        /\ UNCHANGED <<alloc, list>>
  /\ UNCHANGED <<value, next>>

\* Mutant of Unlinked: prev is linked to cur's successor only if there is one.
UnlinkedInner == IF next[cur] = NULL THEN next ELSE [next EXCEPT ![prev] = next[cur]]

(* prev->next = cur->next                                                  *)
Unlinked == [next EXCEPT ![prev] = next[cur]]

remove_walks ==
  /\ pc = "remove"
  /\ cur # NULL
  /\ \/ /\ value[cur] = arg
        /\ next' = Unlinked
        /\ alloc' = alloc \ {cur}
        /\ length' = Shorter
        /\ Returns("remove", arg, 1)
        /\ UNCHANGED <<value, head>>
     \/ /\ value[cur] # arg
        /\ prev' = cur
        /\ cur' = next[cur]
        /\ UNCHANGED <<alloc, value, next, list, pc, arg, n, steps, crashed, last>>

remove_ends ==
  /\ pc = "remove"
  /\ cur = NULL
  /\ Returns("remove", arg, 0)
  /\ UNCHANGED <<alloc, value, next, list>>

----------------------------------------------------------------------------
ll_free ==
  /\ Running
  /\ Enters("free", Void, head, NULL, NULL)
  /\ UNCHANGED <<alloc, value, next, list>>

\* Mutant of Successor: cur->next is read after free(cur), when the allocator
\* has overwritten it.
SuccessorFreed == head

(* cur = cur->next, before the node is freed.                              *)
Successor == next[cur]

free_walks ==
  /\ pc = "free"
  /\ cur # NULL
  /\ prev' = cur
  /\ cur' = Successor
  /\ alloc' = alloc \ {cur}
  /\ UNCHANGED <<value, next, list, pc, arg, n, steps, crashed, last>>

free_ends ==
  /\ pc = "free"
  /\ cur = NULL
  /\ head' = NULL
  /\ length' = 0
  /\ Returns("free", Void, Void)
  /\ UNCHANGED <<alloc, value, next>>

----------------------------------------------------------------------------
Loop ==
  \/ push_back_walks \/ push_back_links
  \/ contains_walks \/ contains_ends
  \/ get_walks \/ get_ends
  \/ remove_walks \/ remove_ends
  \/ free_walks \/ free_ends

Next ==
  \/ Loop
  \/ \E v \in Values : ll_push_front(v) \/ ll_push_back(v) \/ ll_contains(v) \/ ll_remove(v)
  \/ \E i \in 0..length - 1 : ll_get(i)
  \/ ll_pop_front
  \/ ll_free
  \/ push_without_memory

(* The thread that called a list function keeps running: its loop is not
   suspended for ever.  Nothing is assumed about which calls are made.     *)
Spec == Init /\ [][Next]_vars /\ WF_vars(Loop)

----------------------------------------------------------------------------
TypeOK ==
  /\ alloc \subseteq Nodes
  /\ value \in [Nodes -> Values]
  /\ next \in [Nodes -> Nodes \cup {NULL}]
  /\ head \in Nodes \cup {NULL}
  /\ length \in Nat
  /\ pc \in {"idle", "push_back", "contains", "get", "remove", "free"}
  /\ {cur, prev, n} \subseteq Nodes \cup {NULL}
  /\ steps \in Nat
  /\ crashed \in BOOLEAN

(* The i-th node after p, NULL once the end has been reached.              *)
After(p) ==
  LET f[i \in 0..Cardinality(Nodes)] ==
        IF i = 0 THEN p ELSE IF f[i - 1] = NULL THEN NULL ELSE next[f[i - 1]]
  IN f

Reachable(p) == {After(p)[i] : i \in DOMAIN After(p)} \ {NULL}

(***************************************************************************)
(* The chain that starts at head ends after exactly length different       *)
(* nodes, and together with the node a push_back has in hand they are all  *)
(* that is allocated: nothing leaks, nothing reachable has been freed.     *)
(* While ll_free runs this holds of the rest of the chain, from cur on.    *)
(***************************************************************************)
Shape ==
  /\ TypeOK
  /\ IF pc = "free"
     THEN alloc = Reachable(cur)
     ELSE /\ After(head)[length] = NULL
          /\ Cardinality(Reachable(head)) = length
          /\ alloc = Reachable(head) \cup ({n} \ {NULL})
          /\ n \notin Reachable(head)

(***************************************************************************)
(* Every pointer a loop is about to dereference points to an allocated     *)
(* node, and prev is the node before cur.                                  *)
(***************************************************************************)
CursorsValid ==
  /\ pc \in {"push_back", "get"} => cur \in alloc
  /\ pc \in {"contains", "remove", "free"} => cur \in alloc \cup {NULL}
  /\ pc = "remove" => prev \in alloc /\ next[prev] = cur

(* The list as its user sees it: ll_free takes effect when it is called.   *)
Elements == IF pc = "free" THEN <<>> ELSE [i \in 1..length |-> value[After(head)[i - 1]]]

LastCall == IF pc = "free" THEN <<"free", Void, Void>> ELSE last

Abstract == INSTANCE Sequence WITH seq <- Elements, last <- LastCall

(***************************************************************************)
(* The list is a sequence: every call has the effect and the result its    *)
(* comment in structs.h states, at one point between call and return.      *)
(***************************************************************************)
ImplementsSequence == Abstract!Spec

(***************************************************************************)
(* Every call returns: no chain the functions build has a cycle.           *)
(***************************************************************************)
CallsReturn == pc # "idle" ~> pc = "idle"
=============================================================================
