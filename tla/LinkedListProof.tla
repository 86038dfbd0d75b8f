-------------------------- MODULE LinkedListProof --------------------------
(***************************************************************************)
(* Proofs about the linked list of structs.c.                              *)
(*                                                                         *)
(* Shape speaks of the nodes reached from head, by way of a recursive      *)
(* function.  The inductive invariant instead says that there is a path:   *)
(* a function s from 1..length to the nodes, in the order of the chain,    *)
(* and where the cursors of the current call stand on it.  What each       *)
(* operation does to the path is a lemma on functions; that the recursive  *)
(* function follows the path is shown once, by taking the least place at   *)
(* which it would leave it.                                                *)
(***************************************************************************)
EXTENDS LinkedList, Integers, FiniteSetTheorems, WellFoundedInduction, TLAPS

(* s is the path of different nodes from p to the end of the links nx.     *)
Chain(nx, p, L, s) ==
  /\ s \in [1..L -> Nodes]
  /\ \A i, j \in 1..L : s[i] = s[j] => i = j
  /\ L = 0 => p = NULL
  /\ L > 0 => p = s[1] /\ nx[s[L]] = NULL
  /\ \A i \in 1..L : i < L => nx[s[i]] = s[i + 1]

OnPath(L, s) == {s[i] : i \in 1..L}

(* The place k of the path; the one behind its end is NULL.                *)
At(L, s, k) == IF k <= L THEN s[k] ELSE NULL

-----------------------------------------------------------------------------
(***************************************************************************)
(* Every set of natural numbers that is not empty has a least element.     *)
(***************************************************************************)
LEMMA LeastNumber ==
  ASSUME NEW S \in SUBSET Nat, S # {}
  PROVE  \E m \in S : \A k \in S : m <= k
<1>1. IsWellFoundedOn(OpToRel(<, Nat), Nat)
  BY NatLessThanWellFounded
<1>2. PICK m \in S : \A k \in S : ~(<<k, m>> \in OpToRel(<, Nat))
  BY <1>1, WFMin
<1>3. \A k \in S : ~(k < m)
  BY <1>2 DEF OpToRel
<1>4. QED
  BY <1>3

(***************************************************************************)
(* A path has no more places than there are nodes, and exactly as many     *)
(* nodes as places.                                                        *)
(***************************************************************************)
LEMMA PathLength ==
  ASSUME NEW nx, NEW p, NEW L \in Nat, NEW s, Chain(nx, p, L, s)
  PROVE  /\ L <= Cardinality(Nodes) /\ Cardinality(Nodes) \in Nat
         /\ Cardinality(OnPath(L, s)) = L
         /\ OnPath(L, s) \subseteq Nodes
<1>1. s \in [1..L -> Nodes] /\ \A i, j \in 1..L : s[i] = s[j] => i = j
  BY DEF Chain
<1>2. s \in Injection(1..L, Nodes)
  BY <1>1 DEF Injection, IsInjective
<1>3. OnPath(L, s) \subseteq Nodes
  BY <1>1 DEF OnPath
<1>4. s \in [1..L -> OnPath(L, s)]
  BY <1>1 DEF OnPath
<1>5. s \in Bijection(1..L, OnPath(L, s))
  BY <1>1, <1>4 DEF Bijection, Injection, IsInjective, Surjection, OnPath
<1>6. Cardinality(OnPath(L, s)) = L
  BY <1>5, FS_CountingElements DEF ExistsBijection
<1>7. Cardinality(OnPath(L, s)) <= Cardinality(Nodes) /\ Cardinality(Nodes) \in Nat
  BY <1>3, NodesAssumption, FS_Subset, FS_CardinalityType
<1>8. QED
  BY <1>3, <1>6, <1>7

(***************************************************************************)
(* The recursive function After follows the path and is NULL behind it.    *)
(***************************************************************************)
LEMMA AfterFollows ==
  ASSUME NEW p, NEW L \in Nat, NEW s, Chain(next, p, L, s)
  PROVE  /\ DOMAIN After(p) = 0..Cardinality(Nodes)
         /\ \A i \in 0..Cardinality(Nodes) : After(p)[i] = At(L, s, i + 1)
<1> DEFINE N == Cardinality(Nodes)
<1> DEFINE Follows(f) == f = [i \in 0..N |->
             IF i = 0 THEN p ELSE IF f[i - 1] = NULL THEN NULL ELSE next[f[i - 1]]]
<1> DEFINE g == [i \in 0..N |-> At(L, s, i + 1)]
<1>1. N \in Nat /\ L <= N
  BY PathLength
<1>2. After(p) = CHOOSE f : Follows(f)
  BY DEF After
<1>a. /\ s \in [1..L -> Nodes]
      /\ L = 0 => p = NULL
      /\ L > 0 => p = s[1] /\ next[s[L]] = NULL
      /\ \A i \in 1..L : i < L => next[s[i]] = s[i + 1]
      /\ \A i \in 1..L : s[i] # NULL
  BY NodesAssumption DEF Chain
<1> HIDE DEF N
<1>3. ASSUME NEW i \in 0..N
      PROVE  At(L, s, i + 1) = IF i = 0 THEN p ELSE IF At(L, s, i) = NULL THEN NULL ELSE next[At(L, s, i)]
  <2>1. CASE i = 0
    BY <1>a, <2>1 DEF At
  <2>2. CASE i # 0 /\ i < L
    BY <1>a, <1>1, <2>2 DEF At
  <2>3. CASE i # 0 /\ i = L
    BY <1>a, <1>1, <2>3 DEF At
  <2>4. CASE i # 0 /\ i > L
    BY <1>a, <1>1, <2>4 DEF At
  <2>5. QED
    BY <1>1, <2>1, <2>2, <2>3, <2>4
<1>4. Follows(g)
  <2>1. \A i \in 0..N : i # 0 => i - 1 \in 0..N /\ g[i - 1] = At(L, s, i)
    BY <1>1
  <2>2. \A i \in 0..N : g[i] = IF i = 0 THEN p ELSE IF g[i - 1] = NULL THEN NULL ELSE next[g[i - 1]]
    BY <1>3, <2>1
  <2>3. QED
    BY <2>2
<1>5. Follows(After(p))
  BY <1>2, <1>4, ZenonT(30)
<1> DEFINE f == After(p)
<1> HIDE DEF f
<1>6. /\ DOMAIN f = 0..N
      /\ \A i \in 0..N : f[i] = IF i = 0 THEN p ELSE IF f[i - 1] = NULL THEN NULL ELSE next[f[i - 1]]
  BY <1>5 DEF f
<1>7. \A i \in 0..N : f[i] = At(L, s, i + 1)
  <2> DEFINE S == {i \in 0..N : f[i] # At(L, s, i + 1)}
  <2>1. SUFFICES ASSUME S # {} PROVE FALSE
    OBVIOUS
  <2>2. PICK m \in S : \A k \in S : m <= k
    <3>1. S \in SUBSET Nat
      BY <1>1
    <3>2. QED
      BY <2>1, <3>1, LeastNumber
  <2>3. m # 0
    BY <1>3, <1>6, <2>2
  <2>4. m - 1 \in 0..N /\ m - 1 \notin S /\ (m - 1) + 1 = m
    BY <1>1, <2>2, <2>3
  <2>5. f[m - 1] = At(L, s, m)
    BY <2>4
  <2>6. QED
    BY <1>3, <1>6, <2>2, <2>3, <2>5
<1>8. QED
  BY <1>6, <1>7 DEF f, N

-----------------------------------------------------------------------------
(***************************************************************************)
(* Where the cursors of the current call stand on the path, and what the   *)
(* nodes they have passed have in common: that is what makes the results   *)
(* of ll_contains and ll_remove right.                                     *)
(***************************************************************************)
CursorOn(s) ==
  /\ IF pc = "push_back" THEN n \in Nodes /\ next[n] = NULL /\ value[n] = arg ELSE n = NULL
  /\ pc \in {"push_back", "contains", "remove"} => arg \in Values
  /\ pc = "push_back" => \E k \in 1..length : cur = s[k]
  /\ pc = "get" => arg \in 0..length - 1 /\ steps <= arg /\ cur = s[steps + 1]
  /\ pc = "contains" =>
       \E k \in 1..length + 1 : /\ cur = At(length, s, k)
                                /\ \A j \in 1..k - 1 : value[s[j]] # arg
  /\ pc = "remove" =>
       \E k \in 2..length + 1 : /\ cur = At(length, s, k) /\ prev = s[k - 1]
                                /\ \A j \in 1..k - 1 : value[s[j]] # arg

(* What is allocated is what is on the path, and the node in hand.         *)
LinkedBy(s) ==
  /\ Chain(next, head, length, s)
  /\ alloc = OnPath(length, s) \cup ({n} \ {NULL})
  /\ n \notin OnPath(length, s)
  /\ CursorOn(s)

Linked == \E s \in [1..length -> Nodes] : LinkedBy(s)

(* While ll_free runs only the rest of the path is left.                   *)
Freeing ==
  /\ n = NULL
  /\ \E L \in Nat : \E s \in [1..L -> Nodes] : Chain(next, cur, L, s) /\ alloc = OnPath(L, s)

IInv ==
  /\ TypeOK
  /\ pc # "free" => Linked
  /\ pc = "free" => Freeing

-----------------------------------------------------------------------------
(* What the operations make of a path.                                     *)
PutFirst(node, L, s) == [i \in 1..L + 1 |-> IF i = 1 THEN node ELSE s[i - 1]]

PutLast(node, L, s) == [i \in 1..L + 1 |-> IF i <= L THEN s[i] ELSE node]

Without(k, L, s) == [i \in 1..L - 1 |-> IF i < k THEN s[i] ELSE s[i + 1]]

Links == [Nodes -> Nodes \cup {NULL}]

(* t is a path with the nodes of s and one more.                           *)
Extends(t, L, s, node) == OnPath(L + 1, t) = OnPath(L, s) \cup {node}

(* g is f after a store to the member of node.                             *)
Stored(g, f, node, x) == g = [f EXCEPT ![node] = x]

(* The link of a place leads to the next one.                              *)
Leads(nx, L, s, k) ==
  /\ s[k] \in Nodes /\ s[k] # NULL /\ s[k] \in OnPath(L, s)
  /\ nx[s[k]] = At(L, s, k + 1)
  /\ nx[s[k]] = NULL <=> k = L

(* The link of a node leads to the next place of the path.                 *)
LEMMA LinkLeads ==
  ASSUME NEW nx, NEW p, NEW L \in Nat, NEW s, Chain(nx, p, L, s), NEW k \in 1..L
  PROVE  Leads(nx, L, s, k)
<1>1. s[k] \in Nodes /\ s[k] # NULL /\ s[k] \in OnPath(L, s)
  BY NodesAssumption DEF Chain, OnPath
<1>2. CASE k < L
  <2>1. nx[s[k]] = s[k + 1] /\ k + 1 \in 1..L
    BY <1>2 DEF Chain
  <2>2. s[k + 1] # NULL
    BY <2>1, NodesAssumption DEF Chain
  <2>3. QED
    BY <1>1, <1>2, <2>1, <2>2 DEF At, Leads
<1>3. CASE k = L
  BY <1>1, <1>3 DEF Chain, At, Leads
<1>4. QED
  BY <1>2, <1>3

(* A link that is not on the path does not matter to it.                   *)
LEMMA ChainKept ==
  ASSUME NEW nx \in Links, NEW p, NEW L \in Nat, NEW s, Chain(nx, p, L, s),
         NEW node \in Nodes, node \notin OnPath(L, s), NEW q,
         NEW nx2, Stored(nx2, nx, node, q)
  PROVE  Chain(nx2, p, L, s)
<1>1. \A i \in 1..L : s[i] \in Nodes /\ s[i] # node
  BY DEF Chain, OnPath
<1>2. \A i \in 1..L : nx2[s[i]] = nx[s[i]]
  BY <1>1 DEF Links, Stored
<1>3. L > 0 => L \in 1..L
  OBVIOUS
<1>4. QED
  BY <1>2, <1>3 DEF Chain

(* A new node that points to the head makes a path that is longer by one   *)
(* in front.                                                               *)
LEMMA ChainFront ==
  ASSUME NEW nx \in Links, NEW p, NEW L \in Nat, NEW s, Chain(nx, p, L, s),
         NEW node \in Nodes, node \notin OnPath(L, s),
         NEW nx2, Stored(nx2, nx, node, p)
  PROVE  /\ Chain(nx2, node, L + 1, PutFirst(node, L, s))
         /\ Extends(PutFirst(node, L, s), L, s, node)
<1> DEFINE t == PutFirst(node, L, s)
<1>1. \A i \in 1..L : s[i] \in Nodes /\ s[i] # node
  BY DEF Chain, OnPath
<1>2. t \in [1..L + 1 -> Nodes] /\ t[1] = node /\ \A i \in 1..L : t[i + 1] = s[i]
  BY <1>1 DEF PutFirst
<1>3. (\A i \in 1..L : nx2[s[i]] = nx[s[i]]) /\ nx2[node] = p
  BY <1>1 DEF Links, Stored
<1> HIDE DEF t
<1>4. \A i \in 1..L + 1 : i = 1 \/ (i - 1 \in 1..L /\ (i - 1) + 1 = i)
  OBVIOUS
<1>5. ASSUME NEW i \in 1..L + 1
      PROVE  (i = 1 /\ t[i] = node) \/ (i # 1 /\ i - 1 \in 1..L /\ t[i] = s[i - 1])
  <2>1. CASE i = 1
    BY <1>2, <2>1
  <2>2. CASE i # 1
    <3>1. i - 1 \in 1..L /\ (i - 1) + 1 = i
      BY <1>4, <2>2
    <3>2. t[(i - 1) + 1] = s[i - 1]
      BY <1>2, <3>1
    <3>3. QED
      BY <2>2, <3>1, <3>2
  <2>3. QED
    BY <2>1, <2>2
<1>6. \A i, j \in 1..L + 1 : t[i] = t[j] => i = j
  <2>1. \A i, j \in 1..L : s[i] = s[j] => i = j
    BY DEF Chain
  <2>2. QED
    BY <1>1, <1>5, <2>1
<1>7. \A i \in 1..L + 1 : i < L + 1 => nx2[t[i]] = t[i + 1]
  <2>1. ASSUME NEW i \in 1..L + 1, i < L + 1 PROVE nx2[t[i]] = t[i + 1]
    <3>1. CASE i = 1
      BY <1>2, <1>3, <2>1, <3>1 DEF Chain
    <3>2. CASE i # 1
      <4>1. i - 1 \in 1..L /\ i - 1 < L /\ (i - 1) + 1 = i /\ i \in 1..L
        BY <2>1, <3>2
      <4>2. t[i] = s[i - 1] /\ t[i + 1] = s[i]
        BY <1>2, <4>1
      <4>3. nx[s[i - 1]] = s[i]
        BY <4>1 DEF Chain
      <4>4. QED
        BY <1>3, <4>1, <4>2, <4>3
    <3>3. QED
      BY <3>1, <3>2
  <2>2. QED
    BY <2>1
<1>8. nx2[t[L + 1]] = NULL
  <2>1. CASE L = 0
    BY <1>2, <1>3, <2>1 DEF Chain
  <2>2. CASE L > 0
    <3>1. L \in 1..L /\ nx[s[L]] = NULL
      BY <2>2 DEF Chain
    <3>2. QED
      BY <1>2, <1>3, <3>1
  <2>3. QED
    BY <2>1, <2>2
<1>9. Chain(nx2, node, L + 1, t)
  BY <1>2, <1>6, <1>7, <1>8 DEF Chain
<1>10. OnPath(L + 1, t) = OnPath(L, s) \cup {node}
  <2>1. \A i \in 1..L : i + 1 \in 1..L + 1
    OBVIOUS
  <2>2. 1 \in 1..L + 1
    OBVIOUS
  <2>3. QED
    BY <1>2, <1>5, <2>1, <2>2 DEF OnPath
<1>11. QED
  BY <1>9, <1>10 DEF t, Extends

(* A new node that the last one points to makes a path that is longer by   *)
(* one at the end.                                                         *)
LEMMA ChainBack ==
  ASSUME NEW nx \in Links, NEW p, NEW L \in Nat, NEW s, Chain(nx, p, L, s), L > 0,
         NEW node \in Nodes, node \notin OnPath(L, s), nx[node] = NULL,
         NEW nx2, Stored(nx2, nx, s[L], node)
  PROVE  /\ Chain(nx2, p, L + 1, PutLast(node, L, s))
         /\ Extends(PutLast(node, L, s), L, s, node)
<1> DEFINE t == PutLast(node, L, s)
<1>1. \A i \in 1..L : s[i] \in Nodes /\ s[i] # node /\ (i # L => s[i] # s[L])
  BY DEF Chain, OnPath
<1>2. t \in [1..L + 1 -> Nodes] /\ t[L + 1] = node /\ \A i \in 1..L : t[i] = s[i]
  BY <1>1 DEF PutLast
<1>3. (\A i \in 1..L : i # L => nx2[s[i]] = nx[s[i]]) /\ nx2[node] = NULL /\ nx2[s[L]] = node
  BY <1>1 DEF Links, Stored
<1> HIDE DEF t
<1>4. ASSUME NEW i \in 1..L + 1
      PROVE  (i = L + 1 /\ t[i] = node) \/ (i # L + 1 /\ i \in 1..L /\ t[i] = s[i])
  <2>1. CASE i = L + 1
    BY <1>2, <2>1
  <2>2. CASE i # L + 1
    <3>1. i \in 1..L
      BY <2>2
    <3>2. QED
      BY <1>2, <2>2, <3>1
  <2>3. QED
    BY <2>1, <2>2
<1>5. \A i, j \in 1..L + 1 : t[i] = t[j] => i = j
  <2>1. \A i, j \in 1..L : s[i] = s[j] => i = j
    BY DEF Chain
  <2>2. QED
    BY <1>1, <1>4, <2>1
<1>6. ASSUME NEW i \in 1..L + 1, i < L + 1 PROVE nx2[t[i]] = t[i + 1]
  <2>1. CASE i = L
    BY <1>2, <1>3, <1>6, <2>1
  <2>2. CASE i # L
    <3>1. i \in 1..L /\ i < L /\ i + 1 \in 1..L
      BY <1>6, <2>2
    <3>2. nx[s[i]] = s[i + 1]
      BY <3>1 DEF Chain
    <3>3. QED
      BY <1>2, <1>3, <2>2, <3>1, <3>2
  <2>3. QED
    BY <2>1, <2>2
<1>7. p = t[1]
  BY <1>2 DEF Chain
<1>8. Chain(nx2, p, L + 1, t)
  BY <1>2, <1>3, <1>5, <1>6, <1>7 DEF Chain
<1>9. OnPath(L + 1, t) = OnPath(L, s) \cup {node}
  <2>1. \A i \in 1..L : i \in 1..L + 1
    OBVIOUS
  <2>2. L + 1 \in 1..L + 1
    OBVIOUS
  <2>3. QED
    BY <1>2, <1>4, <2>1, <2>2 DEF OnPath
<1>10. QED
  BY <1>8, <1>9 DEF t, Extends

(* t is the path s from which the place k is taken.                        *)
LacksPlace(t, k, L, s) ==
  /\ t \in [1..L - 1 -> Nodes] /\ L - 1 \in Nat
  /\ \A i \in 1..L - 1 : i < k => t[i] = s[i] /\ i \in 1..L
  /\ \A i \in 1..L - 1 : i >= k => t[i] = s[i + 1] /\ i + 1 \in 1..L
  /\ \A i, j \in 1..L - 1 : t[i] = t[j] => i = j
  /\ OnPath(L - 1, t) = OnPath(L, s) \ {s[k]}

(* Leaving out a place moves the later ones down by one.                   *)
LEMMA PlacesWithout ==
  ASSUME NEW nx, NEW p, NEW L \in Nat, NEW s, Chain(nx, p, L, s), NEW k \in 1..L
  PROVE  LacksPlace(Without(k, L, s), k, L, s)
<1> DEFINE t == Without(k, L, s)
<1>1. s \in [1..L -> Nodes] /\ \A i, j \in 1..L : s[i] = s[j] => i = j
  BY DEF Chain
<1>2. /\ t \in [1..L - 1 -> Nodes] /\ L - 1 \in Nat
      /\ \A i \in 1..L - 1 : i < k => t[i] = s[i] /\ i \in 1..L
      /\ \A i \in 1..L - 1 : i >= k => t[i] = s[i + 1] /\ i + 1 \in 1..L
  BY <1>1 DEF Without
<1> HIDE DEF t
<1>3. ASSUME NEW i \in 1..L - 1, NEW j \in 1..L - 1, t[i] = t[j] PROVE i = j
  <2>1. CASE i < k /\ j < k
    BY <1>1, <1>2, <1>3, <2>1
  <2>2. CASE i < k /\ j >= k
    BY <1>1, <1>2, <1>3, <2>2
  <2>3. CASE i >= k /\ j < k
    BY <1>1, <1>2, <1>3, <2>3
  <2>4. CASE i >= k /\ j >= k
    BY <1>1, <1>2, <1>3, <2>4
  <2>5. QED
    BY <2>1, <2>2, <2>3, <2>4
<1>4. \A i \in 1..L - 1 : \E j \in 1..L : j # k /\ t[i] = s[j]
  <2>1. ASSUME NEW i \in 1..L - 1 PROVE \E j \in 1..L : j # k /\ t[i] = s[j]
    <3>1. CASE i < k
      BY <1>2, <3>1
    <3>2. CASE i >= k
      <4>1. i + 1 # k
        BY <3>2
      <4>2. QED
        BY <1>2, <3>2, <4>1
    <3>3. QED
      BY <3>1, <3>2
  <2>2. QED
    BY <2>1
<1>5. \A j \in 1..L : j # k => \E i \in 1..L - 1 : t[i] = s[j]
  <2>1. ASSUME NEW j \in 1..L, j # k PROVE \E i \in 1..L - 1 : t[i] = s[j]
    <3>1. CASE j < k
      <4>1. j \in 1..L - 1
        BY <3>1
      <4>2. QED
        BY <1>2, <3>1, <4>1
    <3>2. CASE j > k
      <4>1. j - 1 \in 1..L - 1 /\ j - 1 >= k /\ (j - 1) + 1 = j
        BY <3>2
      <4>2. t[j - 1] = s[j]
        BY <1>2, <4>1
      <4>3. QED
        BY <4>1, <4>2
    <3>3. QED
      BY <2>1, <3>1, <3>2
  <2>2. QED
    BY <2>1
<1>6. OnPath(L - 1, t) = OnPath(L, s) \ {s[k]}
  <2>1. \A j \in 1..L : j # k => s[j] # s[k]
    BY <1>1
  <2>2. ASSUME NEW x \in OnPath(L - 1, t) PROVE x \in OnPath(L, s) \ {s[k]}
    BY <1>4, <2>1, <2>2 DEF OnPath
  <2>3. ASSUME NEW x \in OnPath(L, s), x # s[k] PROVE x \in OnPath(L - 1, t)
    <3>1. PICK j \in 1..L : x = s[j]
      BY DEF OnPath
    <3>2. PICK i \in 1..L - 1 : t[i] = s[j]
      BY <1>5, <2>3, <3>1
    <3>3. QED
      BY <3>1, <3>2 DEF OnPath
  <2>4. QED
    BY <2>2, <2>3
<1>7. QED
  BY <1>2, <1>3, <1>6 DEF t, LacksPlace

(* The first node is taken from the path.                                  *)
LEMMA ChainRest ==
  ASSUME NEW nx \in Links, NEW p, NEW L \in Nat, NEW s, Chain(nx, p, L, s), L > 0
  PROVE  Chain(nx, nx[p], L - 1, Without(1, L, s))
<1> DEFINE t == Without(1, L, s)
<1>1. 1 \in 1..L /\ L \in 1..L /\ p = s[1] /\ nx[s[L]] = NULL
  BY DEF Chain
<1>2. /\ t \in [1..L - 1 -> Nodes] /\ L - 1 \in Nat
      /\ \A i \in 1..L - 1 : t[i] = s[i + 1] /\ i + 1 \in 1..L
      /\ \A i, j \in 1..L - 1 : t[i] = t[j] => i = j
  <2>1. LacksPlace(t, 1, L, s)
    BY <1>1, PlacesWithout
  <2>2. \A i \in 1..L - 1 : i >= 1
    OBVIOUS
  <2>3. QED
    BY <2>1, <2>2 DEF LacksPlace
<1> HIDE DEF t
<1>3. nx[p] = At(L, s, 2)
  <2>1. PICK k \in 1..L : k = 1
    BY <1>1
  <2>2. nx[s[k]] = At(L, s, k + 1)
    <3>1. Leads(nx, L, s, k)
      BY LinkLeads
    <3>2. QED
      BY <3>1 DEF Leads
  <2>3. k + 1 = 2
    BY <2>1
  <2>4. QED
    BY <1>1, <2>1, <2>2, <2>3
<1>4. CASE L = 1
  BY <1>2, <1>3, <1>4 DEF Chain, At, t
<1>5. CASE L > 1
  <2>1. nx[p] = t[1] /\ nx[t[L - 1]] = NULL
    BY <1>1, <1>2, <1>3, <1>5 DEF At
  <2>2. ASSUME NEW i \in 1..L - 1, i < L - 1 PROVE nx[t[i]] = t[i + 1]
    <3>1. i + 1 \in 1..L - 1 /\ i + 1 \in 1..L /\ i + 1 < L
      BY <2>2
    <3>2. t[i] = s[i + 1] /\ t[i + 1] = s[(i + 1) + 1]
      BY <1>2, <3>1
    <3>3. nx[s[i + 1]] = s[(i + 1) + 1]
      BY <3>1 DEF Chain
    <3>4. QED
      BY <3>2, <3>3
  <2>3. L - 1 # 0
    BY <1>5
  <2>4. QED
    BY <1>2, <2>1, <2>2, <2>3 DEF Chain, t
<1>6. QED
  BY <1>4, <1>5

(* A node behind the first is unlinked: its predecessor is linked to its
   successor.                                                              *)
LEMMA ChainUnlinked ==
  ASSUME NEW nx \in Links, NEW p, NEW L \in Nat, NEW s, Chain(nx, p, L, s), NEW k \in 2..L,
         NEW nx2, Stored(nx2, nx, s[k - 1], nx[s[k]])
  PROVE  Chain(nx2, p, L - 1, Without(k, L, s))
<1> DEFINE t == Without(k, L, s)
<1>1. /\ k \in 1..L /\ k - 1 \in 1..L /\ k - 1 \in 1..L - 1 /\ k - 1 < k /\ L \in 1..L /\ 1 \in 1..L - 1
      /\ 1 < k /\ L > 0 /\ L - 1 # 0
  OBVIOUS
<1>2. p = s[1] /\ nx[s[L]] = NULL
  BY <1>1 DEF Chain
<1>3. /\ t \in [1..L - 1 -> Nodes] /\ L - 1 \in Nat
      /\ \A i \in 1..L - 1 : i < k => t[i] = s[i] /\ i \in 1..L
      /\ \A i \in 1..L - 1 : i >= k => t[i] = s[i + 1] /\ i + 1 \in 1..L
      /\ \A i, j \in 1..L - 1 : t[i] = t[j] => i = j
  <2>1. LacksPlace(t, k, L, s)
    BY <1>1, PlacesWithout
  <2>2. QED
    BY <2>1 DEF LacksPlace
<1>4. /\ nx2[s[k - 1]] = nx[s[k]]
      /\ \A i \in 1..L : i # k - 1 => nx2[s[i]] = nx[s[i]]
  <2>1. s[k - 1] \in Nodes /\ \A i \in 1..L : s[i] \in Nodes /\ (i # k - 1 => s[i] # s[k - 1])
    BY <1>1 DEF Chain
  <2>2. QED
    BY <2>1 DEF Links, Stored
<1>5. nx[s[k]] = At(L, s, k + 1)
  <2>1. Leads(nx, L, s, k)
    BY <1>1, LinkLeads
  <2>2. QED
    BY <2>1 DEF Leads
<1> HIDE DEF t
<1>6. p = t[1]
  BY <1>1, <1>2, <1>3
<1>7. ASSUME NEW i \in 1..L - 1 PROVE nx2[t[i]] = At(L - 1, t, i + 1)
  <2>1. CASE i < k - 1
    <3>1. i < k /\ i + 1 < k /\ i + 1 \in 1..L - 1 /\ i # k - 1 /\ i < L /\ i + 1 <= L - 1
      BY <2>1
    <3>2. t[i] = s[i] /\ i \in 1..L /\ t[i + 1] = s[i + 1]
      BY <1>3, <3>1
    <3>3. nx[s[i]] = s[i + 1]
      BY <3>1, <3>2 DEF Chain
    <3>4. QED
      BY <1>4, <3>1, <3>2, <3>3 DEF At
  <2>2. CASE i = k - 1
    <3>1. nx2[t[i]] = At(L, s, k + 1)
      BY <1>1, <1>3, <1>4, <1>5, <2>2
    <3>2. i + 1 = k
      BY <2>2
    <3>3. CASE k = L
      <4>1. ~(k + 1 <= L) /\ ~(k <= L - 1)
        BY <3>3
      <4>2. QED
        BY <3>1, <3>2, <4>1 DEF At
    <3>4. CASE k < L
      <4>1. k + 1 <= L /\ k <= L - 1 /\ k \in 1..L - 1 /\ k >= k
        BY <3>4
      <4>2. t[k] = s[k + 1]
        BY <1>3, <4>1
      <4>3. QED
        BY <3>1, <3>2, <4>1, <4>2 DEF At
    <3>5. QED
      BY <3>3, <3>4
  <2>3. CASE i > k - 1
    <3>1. i >= k /\ i + 1 # k - 1 /\ i + 1 \in 1..L
      BY <2>3
    <3>2. t[i] = s[i + 1]
      BY <1>3, <3>1
    <3>3. nx2[t[i]] = At(L, s, (i + 1) + 1)
      <4>1. nx[s[i + 1]] = At(L, s, (i + 1) + 1)
        <5>1. Leads(nx, L, s, i + 1)
          BY <3>1, LinkLeads
        <5>2. QED
          BY <5>1 DEF Leads
      <4>2. QED
        BY <1>4, <3>1, <3>2, <4>1
    <3>4. CASE i = L - 1
      <4>1. ~((i + 1) + 1 <= L) /\ ~(i + 1 <= L - 1)
        BY <3>4
      <4>2. QED
        BY <3>3, <4>1 DEF At
    <3>5. CASE i < L - 1
      <4>1. (i + 1) + 1 <= L /\ i + 1 <= L - 1 /\ i + 1 \in 1..L - 1 /\ i + 1 >= k
        BY <3>1, <3>5
      <4>2. t[i + 1] = s[(i + 1) + 1]
        BY <1>3, <4>1
      <4>3. QED
        BY <3>3, <4>1, <4>2 DEF At
    <3>6. QED
      BY <3>4, <3>5
  <2>4. QED
    BY <2>1, <2>2, <2>3
<1>8. \A i \in 1..L - 1 : i < L - 1 => nx2[t[i]] = t[i + 1]
  <2>1. \A i \in 1..L - 1 : i < L - 1 => i + 1 <= L - 1
    OBVIOUS
  <2>2. QED
    BY <1>7, <2>1 DEF At
<1>9. nx2[t[L - 1]] = NULL
  <2>1. L - 1 \in 1..L - 1 /\ ~((L - 1) + 1 <= L - 1)
    BY <1>1
  <2>2. QED
    BY <1>7, <2>1 DEF At
<1>10. Chain(nx2, p, L - 1, t)
  BY <1>1, <1>3, <1>6, <1>8, <1>9 DEF Chain
<1>11. QED
  BY <1>10 DEF t

-----------------------------------------------------------------------------
(* The values along a path.                                                *)
Vals(L, s, val) == [i \in 1..L |-> val[s[i]]]

(* The values along a path, as a sequence.                                 *)
LEMMA ValsFacts ==
  ASSUME NEW L \in Nat, NEW s \in [1..L -> Nodes], NEW val \in [Nodes -> Values]
  PROVE  /\ Vals(L, s, val) \in Seq(Values)
         /\ Len(Vals(L, s, val)) = L /\ DOMAIN Vals(L, s, val) = 1..L
         /\ \A i \in 1..L : Vals(L, s, val)[i] = val[s[i]]
         /\ L = 0 <=> Vals(L, s, val) = <<>>
<1>1. \A i \in 1..L : val[s[i]] \in Values
  OBVIOUS
<1>2. Vals(L, s, val) \in Seq(Values) /\ Len(Vals(L, s, val)) = L
  BY <1>1 DEF Vals
<1>3. QED
  BY <1>2 DEF Vals

(* Two sequences are equal when their lengths and their elements are.      *)
LEMMA SameSequence ==
  ASSUME NEW S, NEW a \in Seq(S), NEW b \in Seq(S), Len(a) = Len(b),
         \A i \in 1..Len(a) : a[i] = b[i]
  PROVE  a = b
OBVIOUS

(* A node put in front adds its value in front.                            *)
LEMMA ValsFront ==
  ASSUME NEW L \in Nat, NEW s \in [1..L -> Nodes], NEW val \in [Nodes -> Values],
         NEW node \in Nodes, node \notin OnPath(L, s), NEW v \in Values,
         PutFirst(node, L, s) \in [1..L + 1 -> Nodes],
         NEW val2, Stored(val2, val, node, v)
  PROVE  Vals(L + 1, PutFirst(node, L, s), val2) = <<v>> \o Vals(L, s, val)
<1> DEFINE t == PutFirst(node, L, s)
<1> DEFINE a == Vals(L + 1, t, val2)
<1> DEFINE b == Vals(L, s, val)
<1>1. \A i \in 1..L : s[i] \in Nodes /\ s[i] # node /\ val2[s[i]] = val[s[i]]
  BY DEF OnPath, Stored
<1>2. val2 \in [Nodes -> Values] /\ val2[node] = v
  BY DEF Stored
<1>3. t \in [1..L + 1 -> Nodes] /\ t[1] = node /\ \A i \in 1..L + 1 : i # 1 => t[i] = s[i - 1]
  BY DEF PutFirst
<1> HIDE DEF t
<1>4. a \in Seq(Values) /\ Len(a) = L + 1 /\ \A i \in 1..L + 1 : a[i] = val2[t[i]]
  BY <1>2, <1>3, ValsFacts
<1>5. b \in Seq(Values) /\ Len(b) = L /\ \A i \in 1..L : b[i] = val[s[i]]
  BY ValsFacts
<1> HIDE DEF a, b
<1>6. /\ <<v>> \o b \in Seq(Values) /\ Len(<<v>> \o b) = L + 1
      /\ (<<v>> \o b)[1] = v /\ \A i \in 1..L + 1 : i # 1 => (<<v>> \o b)[i] = b[i - 1]
  <2>1. <<v>> \in Seq(Values) /\ Len(<<v>>) = 1 /\ <<v>>[1] = v
    OBVIOUS
  <2>2. QED
    BY <1>5, <2>1
<1>7. ASSUME NEW i \in 1..L + 1 PROVE a[i] = (<<v>> \o b)[i]
  <2>1. CASE i = 1
    BY <1>2, <1>3, <1>4, <1>6, <2>1
  <2>2. CASE i # 1
    <3>1. i - 1 \in 1..L
      BY <2>2
    <3>2. a[i] = val2[s[i - 1]]
      BY <1>3, <1>4, <2>2
    <3>3. (<<v>> \o b)[i] = b[i - 1]
      BY <1>6, <2>2
    <3>4. b[i - 1] = val[s[i - 1]] /\ val2[s[i - 1]] = val[s[i - 1]]
      BY <1>1, <1>5, <3>1
    <3>5. QED
      BY <3>2, <3>3, <3>4
  <2>3. QED
    BY <2>1, <2>2
<1>8. a = <<v>> \o b
  <2> DEFINE c == <<v>> \o b
  <2>1. c \in Seq(Values) /\ Len(c) = L + 1 /\ \A i \in 1..L + 1 : a[i] = c[i]
    BY <1>6, <1>7
  <2> HIDE DEF c
  <2>2. a = c
    BY <1>4, <2>1, SameSequence
  <2>3. QED
    BY <2>2 DEF c
<1>9. QED
  BY <1>8 DEF a, b, t

(* A store into a node that is not on the path does not change its values. *)
LEMMA ValsKept ==
  ASSUME NEW L \in Nat, NEW s \in [1..L -> Nodes], NEW val \in [Nodes -> Values],
         NEW node \in Nodes, node \notin OnPath(L, s), NEW v \in Values,
         NEW val2, Stored(val2, val, node, v)
  PROVE  Vals(L, s, val2) = Vals(L, s, val)
<1>1. \A i \in 1..L : s[i] \in Nodes /\ s[i] # node /\ val2[s[i]] = val[s[i]]
  BY DEF OnPath, Stored
<1>2. QED
  BY <1>1 DEF Vals

(* A node put at the end appends its value.                                *)
LEMMA ValsBack ==
  ASSUME NEW L \in Nat, NEW s \in [1..L -> Nodes], NEW val \in [Nodes -> Values],
         NEW node \in Nodes, PutLast(node, L, s) \in [1..L + 1 -> Nodes]
  PROVE  Vals(L + 1, PutLast(node, L, s), val) = Append(Vals(L, s, val), val[node])
<1> DEFINE t == PutLast(node, L, s)
<1> DEFINE a == Vals(L + 1, t, val)
<1> DEFINE b == Vals(L, s, val)
<1> DEFINE c == Append(b, val[node])
<1>1. t \in [1..L + 1 -> Nodes] /\ t[L + 1] = node /\ \A i \in 1..L : t[i] = s[i]
  BY DEF PutLast
<1> HIDE DEF t
<1>2. a \in Seq(Values) /\ Len(a) = L + 1 /\ \A i \in 1..L + 1 : a[i] = val[t[i]]
  BY <1>1, ValsFacts
<1>3. b \in Seq(Values) /\ Len(b) = L /\ \A i \in 1..L : b[i] = val[s[i]]
  BY ValsFacts
<1> HIDE DEF a, b
<1>4. c \in Seq(Values) /\ Len(c) = L + 1 /\ c[L + 1] = val[node] /\ \A i \in 1..L : c[i] = b[i]
  <2>1. val[node] \in Values
    OBVIOUS
  <2>2. QED
    BY <1>3, <2>1
<1> HIDE DEF c
<1>5. ASSUME NEW i \in 1..L + 1 PROVE a[i] = c[i]
  <2>1. CASE i = L + 1
    BY <1>1, <1>2, <1>4, <2>1
  <2>2. CASE i # L + 1
    <3>1. i \in 1..L
      BY <2>2
    <3>2. QED
      BY <1>1, <1>2, <1>3, <1>4, <3>1
  <2>3. QED
    BY <2>1, <2>2
<1>6. a = c
  BY <1>2, <1>4, <1>5, SameSequence
<1>7. QED
  BY <1>6 DEF a, b, c, t

(* Leaving out a place leaves out its value.                               *)
LEMMA ValsWithout ==
  ASSUME NEW L \in Nat, NEW s \in [1..L -> Nodes], NEW val \in [Nodes -> Values],
         NEW k \in 1..L, NEW t, LacksPlace(t, k, L, s)
  PROVE  /\ Vals(L - 1, t, val)
              = SubSeq(Vals(L, s, val), 1, k - 1) \o SubSeq(Vals(L, s, val), k + 1, L)
         /\ k = 1 => Vals(L - 1, t, val) = Tail(Vals(L, s, val))
<1> DEFINE a == Vals(L - 1, t, val)
<1> DEFINE b == Vals(L, s, val)
<1>1. /\ t \in [1..L - 1 -> Nodes] /\ L - 1 \in Nat
      /\ \A i \in 1..L - 1 : i < k => t[i] = s[i] /\ i \in 1..L
      /\ \A i \in 1..L - 1 : i >= k => t[i] = s[i + 1] /\ i + 1 \in 1..L
  BY DEF LacksPlace
<1>2. a \in Seq(Values) /\ Len(a) = L - 1 /\ \A i \in 1..L - 1 : a[i] = val[t[i]]
  BY <1>1, ValsFacts
<1>3. b \in Seq(Values) /\ Len(b) = L /\ \A i \in 1..L : b[i] = val[s[i]]
  BY ValsFacts
<1> HIDE DEF a, b
<1>4. ASSUME NEW i \in 1..L - 1 PROVE a[i] = IF i < k THEN b[i] ELSE b[i + 1]
  <2>1. CASE i < k
    BY <1>1, <1>2, <1>3, <2>1
  <2>2. CASE i >= k
    BY <1>1, <1>2, <1>3, <2>2
  <2>3. QED
    BY <2>1, <2>2
<1> DEFINE u == SubSeq(b, 1, k - 1)
<1> DEFINE w == SubSeq(b, k + 1, L)
<1>5. u \in Seq(Values) /\ Len(u) = k - 1 /\ \A i \in 1..k - 1 : u[i] = b[i]
  BY <1>3
<1>6. w \in Seq(Values) /\ Len(w) = L - k /\ \A i \in 1..L - k : w[i] = b[k + i]
  BY <1>3
<1> HIDE DEF u, w
<1> DEFINE c == u \o w
<1>7. c \in Seq(Values) /\ Len(c) = L - 1
  <2>1. c \in Seq(Values) /\ Len(c) = Len(u) + Len(w)
    <3>1. u \in Seq(Values) /\ w \in Seq(Values)
      BY <1>5, <1>6
    <3>2. QED
      BY ONLY <3>1
  <2>2. (k - 1) + (L - k) = L - 1
    OBVIOUS
  <2>3. QED
    BY <1>5, <1>6, <2>1, <2>2
<1>8. ASSUME NEW i \in 1..L - 1 PROVE a[i] = c[i]
  <2>1. CASE i < k
    <3>1. i \in 1..k - 1
      BY <2>1
    <3>2. c[i] = u[i]
      BY <1>5, <1>6, <3>1
    <3>3. QED
      BY <1>4, <1>5, <2>1, <3>1, <3>2
  <2>2. CASE i >= k
    <3>1. i - (k - 1) \in 1..L - k /\ k + (i - (k - 1)) = i + 1 /\ i > k - 1
      BY <2>2
    <3>2. c[i] = w[i - (k - 1)]
      BY <1>5, <1>6, <3>1
    <3>3. QED
      BY <1>4, <1>6, <2>2, <3>1, <3>2
  <2>3. i < k \/ i >= k
    OBVIOUS
  <2>4. QED
    BY <2>1, <2>2, <2>3
<1> HIDE DEF c
<1>9. a = c
  BY <1>2, <1>7, <1>8, SameSequence
<1>10. k = 1 => a = Tail(b)
  <2>1. SUFFICES ASSUME k = 1 PROVE a = Tail(b)
    OBVIOUS
  <2> DEFINE d == Tail(b)
  <2>2. d \in Seq(Values) /\ Len(d) = L - 1 /\ \A i \in 1..L - 1 : d[i] = b[i + 1]
    BY <1>3
  <2> HIDE DEF d
  <2>3. \A i \in 1..L - 1 : a[i] = d[i]
    BY <1>4, <2>1, <2>2
  <2>4. a = d
    BY <1>2, <2>2, <2>3, SameSequence
  <2>5. QED
    BY <2>4 DEF d
<1>11. QED
  BY <1>9, <1>10 DEF a, b, c, u, w

-----------------------------------------------------------------------------
(* A step is one of the abstract specification, or not visible there.      *)
Simulates == Abstract!Next \/ UNCHANGED <<Elements, LastCall>>

(* The elements of the list are the values along its path.                 *)
LEMMA ElementsAlong ==
  \A s : pc # "free" /\ length \in Nat /\ Chain(next, head, length, s)
           => Elements = Vals(length, s, value)
<1>1. SUFFICES ASSUME NEW s, pc # "free", length \in Nat, Chain(next, head, length, s)
               PROVE  Elements = Vals(length, s, value)
  OBVIOUS
<1>2. length <= Cardinality(Nodes) /\ Cardinality(Nodes) \in Nat
  BY <1>1, PathLength
<1>3. \A i \in 0..Cardinality(Nodes) : After(head)[i] = At(length, s, i + 1)
  BY <1>1, AfterFollows
<1>4. ASSUME NEW i \in 1..length PROVE After(head)[i - 1] = s[i]
  <2>1. i - 1 \in 0..Cardinality(Nodes) /\ (i - 1) + 1 = i /\ i <= length
    BY <1>1, <1>2
  <2>2. QED
    BY <1>3, <2>1 DEF At
<1>5. QED
  BY <1>1, <1>4 DEF Elements, Vals

(* Elements follows the path after a step as well.                         *)
LEMMA ElementsAlongNext ==
  \A s : pc' # "free" /\ length' \in Nat /\ Chain(next', head', length', s)
           => Elements' = Vals(length', s, value')
<1>1. (\A s : pc # "free" /\ length \in Nat /\ Chain(next, head, length, s)
                => Elements = Vals(length, s, value))'
  BY ElementsAlong, PTL
<1>2. QED
  BY <1>1

(* The path of a state in which ll_free is not running.                    *)
LEMMA PathOf ==
  ASSUME IInv, pc # "free"
  PROVE  \E s \in [1..length -> Nodes] : LinkedBy(s) /\ Elements = Vals(length, s, value)
<1>1. PICK s \in [1..length -> Nodes] : LinkedBy(s)
  BY DEF IInv, Linked
<1>2. length \in Nat
  BY DEF IInv, TypeOK
<1>3. Elements = Vals(length, s, value)
  BY <1>1, <1>2, ElementsAlong DEF LinkedBy
<1>4. QED
  BY <1>1, <1>3

(* The state a call leaves that has returned.                              *)
LEMMA Returned ==
  ASSUME TypeOK', pc' = "idle", n' = NULL, NEW t,
         Chain(next', head', length', t), alloc' = OnPath(length', t)
  PROVE  IInv' /\ Elements' = Vals(length', t, value')
<1>1. length' \in Nat
  BY DEF TypeOK
<1>2. Elements' = Vals(length', t, value')
  BY <1>1, ElementsAlongNext
<1>3. t \in [1..length' -> Nodes]
  BY DEF Chain
<1>4. NULL \notin OnPath(length', t)
  BY <1>3, NodesAssumption DEF OnPath
<1>5. LinkedBy(t)'
  BY <1>4 DEF LinkedBy, CursorOn
<1>6. QED
  BY <1>2, <1>3, <1>5 DEF IInv, Linked

(* The typed variables, in a form that is easy to cite.                    *)
LEMMA Types ==
  ASSUME TypeOK
  PROVE  /\ alloc \subseteq Nodes
         /\ value \in [Nodes -> Values]
         /\ next \in Links
         /\ head \in Nodes \cup {NULL}
         /\ length \in Nat
BY DEF TypeOK, Links

(* ll_push_front.                                                          *)
LEMMA PushFrontStep ==
  ASSUME IInv, NEW v \in Values, ll_push_front(v)
  PROVE  IInv' /\ Simulates
<1>1. /\ pc = "idle" /\ length' = length + 1
      /\ Returns("push_front", v, Void)
  BY DEF ll_push_front, Running
<1>2. PICK s \in [1..length -> Nodes] : LinkedBy(s) /\ Elements = Vals(length, s, value)
  BY <1>1, PathOf
<1>3. PICK node \in Nodes \ alloc :
        /\ alloc' = alloc \cup {node}
        /\ value' = [value EXCEPT ![node] = v]
        /\ next' = [next EXCEPT ![node] = head]
        /\ head' = node
  BY DEF ll_push_front, FrontLink
<1>4. TypeOK /\ value \in [Nodes -> Values] /\ next \in Links /\ length \in Nat
  BY Types DEF IInv
<1>5. Chain(next, head, length, s) /\ alloc = OnPath(length, s)
  BY <1>1, <1>2 DEF LinkedBy, CursorOn
<1> DEFINE t == PutFirst(node, length, s)
<1>a. /\ node \in Nodes /\ node \notin OnPath(length, s)
      /\ Stored(next', next, node, head) /\ Stored(value', value, node, v)
  BY <1>3, <1>5 DEF Stored
<1>6. Chain(next', head', length', t) /\ alloc' = OnPath(length', t)
  <2>1. Chain(next', node, length + 1, t)
    BY <1>4, <1>5, <1>a, ChainFront
  <2>2. Extends(t, length, s, node)
    BY <1>4, <1>5, <1>a, ChainFront
  <2>3. QED
    BY <1>1, <1>3, <1>5, <2>1, <2>2 DEF Extends
<1>7. TypeOK'
  BY <1>1, <1>3, <1>4 DEF TypeOK, Returns
<1>8. pc' = "idle" /\ n' = NULL /\ last' = <<"push_front", v, Void>>
  BY <1>1 DEF Returns
<1>9. IInv' /\ Elements' = Vals(length', t, value')
  BY <1>6, <1>7, <1>8, Returned
<1>10. Elements' = <<v>> \o Elements
  <2>1. t \in [1..length + 1 -> Nodes]
    BY <1>1, <1>6 DEF Chain
  <2>2. Vals(length + 1, t, value') = <<v>> \o Vals(length, s, value)
    BY <1>4, <1>a, <2>1, ValsFront, SMTT(30)
  <2>3. QED
    BY <1>1, <1>2, <1>3, <1>9, <2>2
<1>11. Abstract!PushFront(v)
  BY <1>8, <1>10 DEF Abstract!PushFront, Abstract!Returns, LastCall
<1>12. QED
  BY <1>9, <1>11 DEF Simulates, Abstract!Next

(* ll_push_back: the call, which ends at once on an empty list.            *)
LEMMA PushBackStep ==
  ASSUME IInv, NEW v \in Values, ll_push_back(v)
  PROVE  IInv' /\ Simulates
<1>1. pc = "idle"
  BY DEF ll_push_back, Running
<1>2. PICK s \in [1..length -> Nodes] : LinkedBy(s) /\ Elements = Vals(length, s, value)
  BY <1>1, PathOf
<1>3. PICK node \in Nodes \ alloc :
        /\ alloc' = alloc \cup {node}
        /\ value' = [value EXCEPT ![node] = v]
        /\ next' = [next EXCEPT ![node] = NULL]
        /\ \/ /\ length = 0
              /\ head' = node
              /\ length' = length + 1
              /\ Returns("push_back", v, Void)
           \/ /\ length # 0
              /\ Enters("push_back", v, head, NULL, node)
              /\ UNCHANGED list
  BY DEF ll_push_back, LastLink
<1>4. TypeOK /\ value \in [Nodes -> Values] /\ next \in Links /\ length \in Nat
  BY Types DEF IInv
<1>5. Chain(next, head, length, s) /\ alloc = OnPath(length, s)
  BY <1>1, <1>2 DEF LinkedBy, CursorOn
<1>6. /\ node \in Nodes /\ node \notin OnPath(length, s)
      /\ Stored(next', next, node, NULL) /\ Stored(value', value, node, v)
  BY <1>3, <1>5 DEF Stored
<1>7. CASE length = 0 /\ head' = node /\ length' = length + 1 /\ Returns("push_back", v, Void)
  <2> DEFINE t == PutFirst(node, length, s)
  <2>1. head = NULL
    BY <1>5, <1>7 DEF Chain
  <2>2. Chain(next', head', length', t) /\ alloc' = OnPath(length', t)
    <3>1. Chain(next', node, length + 1, t)
      BY <1>4, <1>5, <1>6, <2>1, ChainFront
    <3>2. Extends(t, length, s, node)
      BY <1>4, <1>5, <1>6, <2>1, ChainFront
    <3>3. QED
      BY <1>3, <1>5, <1>7, <2>1, <3>1, <3>2 DEF Extends
  <2>3. TypeOK'
    BY <1>3, <1>4, <1>7 DEF TypeOK, Returns
  <2>4. pc' = "idle" /\ n' = NULL /\ last' = <<"push_back", v, Void>>
    BY <1>7 DEF Returns
  <2>5. IInv' /\ Elements' = Vals(length', t, value')
    BY <2>2, <2>3, <2>4, Returned
  <2>6. Elements' = <<v>> \o Elements
    <3>1. t \in [1..length + 1 -> Nodes]
      BY <1>7, <2>2 DEF Chain
    <3>2. Vals(length + 1, t, value') = <<v>> \o Vals(length, s, value)
      BY <1>4, <1>6, <3>1, ValsFront, SMTT(30)
    <3>3. QED
      BY <1>2, <1>3, <1>7, <2>5, <3>2
  <2>7. Elements = <<>>
    BY <1>2, <1>4, <1>7, ValsFacts
  <2>8. Elements' = Append(Elements, v)
    BY <2>6, <2>7
  <2>9. Abstract!PushBack(v)
    BY <2>4, <2>8 DEF Abstract!PushBack, Abstract!Returns, LastCall
  <2>10. QED
    BY <2>5, <2>9 DEF Simulates, Abstract!Next
<1>8. CASE length # 0 /\ Enters("push_back", v, head, NULL, node) /\ UNCHANGED list
  <2>1. /\ pc' = "push_back" /\ arg' = v /\ cur' = head /\ n' = node /\ last' = last
        /\ head' = head /\ length' = length
    BY <1>8 DEF Enters, list
  <2>2. Chain(next', head', length', s)
    BY <1>4, <1>5, <1>6, <2>1, ChainKept
  <2>3. head = s[1] /\ 1 \in 1..length
    BY <1>4, <1>5, <1>8 DEF Chain
  <2>4. TypeOK'
    BY <1>3, <1>4, <1>8 DEF TypeOK, Enters, list
  <2>5. next'[node] = NULL /\ value'[node] = v
    BY <1>3, <1>4 DEF Links, Stored
  <2>6. node # NULL
    BY <1>6, NodesAssumption
  <2>7. CursorOn(s)'
    BY <1>6, <2>1, <2>3, <2>5 DEF CursorOn
  <2>8. LinkedBy(s)'
    <3>1. alloc' = OnPath(length', s) \cup ({n'} \ {NULL})
      BY <1>3, <1>5, <2>1, <2>6
    <3>2. n' \notin OnPath(length', s)
      BY <1>6, <2>1
    <3>3. QED
      BY <2>2, <2>7, <3>1, <3>2 DEF LinkedBy
  <2>9. IInv'
    BY <2>1, <2>4, <2>8 DEF IInv, Linked
  <2>10. Elements' = Elements
    <3>1. Elements' = Vals(length, s, value')
      BY <1>4, <2>1, <2>2, ElementsAlongNext
    <3>2. Vals(length, s, value') = Vals(length, s, value)
      BY <1>4, <1>6, ValsKept
    <3>3. QED
      BY <1>2, <1>3, <3>1, <3>2
  <2>11. LastCall' = LastCall
    BY <1>1, <2>1 DEF LastCall
  <2>12. QED
    BY <2>9, <2>10, <2>11 DEF Simulates
<1>9. QED
  BY <1>3, <1>7, <1>8

(* A step that only moves the cursors, or changes what is in hand of them. *)
LEMMA Walked ==
  ASSUME IInv, pc # "free", pc' # "free", NEW s \in [1..length -> Nodes], LinkedBy(s),
         UNCHANGED <<alloc, value, next, head, length, n>>, TypeOK', CursorOn(s)'
  PROVE  IInv' /\ Elements' = Elements
<1>1. Chain(next, head, length, s) /\ length \in Nat
  BY Types DEF LinkedBy, IInv
<1>2. LinkedBy(s)'
  BY DEF LinkedBy
<1>3. IInv'
  BY <1>2 DEF IInv, Linked
<1>4. Elements = Vals(length, s, value)
  BY <1>1, ElementsAlong
<1>5. Elements' = Vals(length, s, value)
  BY <1>1, ElementsAlongNext
<1>6. QED
  BY <1>3, <1>4, <1>5

(* ll_push_back: an iteration of its loop, a stutter for the sequence.     *)
LEMMA PushBackWalksStep ==
  ASSUME IInv, push_back_walks
  PROVE  IInv' /\ Simulates
<1>1. /\ pc = "push_back" /\ next[cur] # NULL /\ cur' = next[cur]
      /\ UNCHANGED <<alloc, value, next, head, length, pc, arg, prev, n, steps, crashed, last>>
  BY DEF push_back_walks, list
<1>2. PICK s \in [1..length -> Nodes] : LinkedBy(s)
  BY <1>1, PathOf
<1>3. TypeOK /\ length \in Nat /\ Chain(next, head, length, s)
  BY <1>2, Types DEF IInv, LinkedBy
<1>4. PICK k \in 1..length : cur = s[k]
  BY <1>1, <1>2 DEF LinkedBy, CursorOn
<1>5. k # length /\ cur' = At(length, s, k + 1)
  <2>1. next[s[k]] = At(length, s, k + 1) /\ (next[s[k]] = NULL <=> k = length)
    <3>1. Leads(next, length, s, k)
      BY <1>3, LinkLeads
    <3>2. QED
      BY <3>1 DEF Leads
  <2>2. QED
    BY <1>1, <1>4, <2>1
<1>6. k + 1 \in 1..length /\ cur' = s[k + 1]
  BY <1>3, <1>5 DEF At
<1>7. CursorOn(s)'
  <2>1. \E j \in 1..length' : cur' = s[j]
    BY <1>1, <1>6
  <2>2. QED
    BY <1>1, <1>2, <2>1 DEF LinkedBy, CursorOn
<1>8. TypeOK'
  <2>1. cur' \in Nodes
    BY <1>6
  <2>2. QED
    BY <1>1, <1>3, <2>1 DEF TypeOK
<1>9. IInv' /\ Elements' = Elements
  BY <1>1, <1>2, <1>7, <1>8, Walked
<1>10. LastCall' = LastCall
  BY <1>1 DEF LastCall
<1>11. QED
  BY <1>9, <1>10 DEF Simulates

(* ll_push_back: the last node gets its successor.                         *)
LEMMA PushBackLinksStep ==
  ASSUME IInv, push_back_links
  PROVE  IInv' /\ Simulates
<1>1. /\ pc = "push_back" /\ next[cur] = NULL
      /\ next' = [next EXCEPT ![cur] = n] /\ length' = length + 1
      /\ Returns("push_back", arg, Void) /\ UNCHANGED <<alloc, value, head>>
  BY DEF push_back_links
<1>2. PICK s \in [1..length -> Nodes] : LinkedBy(s) /\ Elements = Vals(length, s, value)
  BY <1>1, PathOf
<1>3. /\ TypeOK /\ value \in [Nodes -> Values] /\ next \in Links /\ length \in Nat
      /\ Chain(next, head, length, s)
  BY <1>2, Types DEF IInv, LinkedBy
<1>4. PICK k \in 1..length : cur = s[k]
  BY <1>1, <1>2 DEF LinkedBy, CursorOn
<1>5. k = length
  <2>1. next[s[k]] = NULL <=> k = length
    <3>1. Leads(next, length, s, k)
      BY <1>3, LinkLeads
    <3>2. QED
      BY <3>1 DEF Leads
  <2>2. QED
    BY <1>1, <1>4, <2>1
<1>6. cur = s[length] /\ length > 0 /\ length + 1 \in Nat
  BY <1>3, <1>4, <1>5
<1>7. /\ n \in Nodes /\ n # NULL /\ n \notin OnPath(length, s) /\ next[n] = NULL
      /\ value[n] = arg /\ arg \in Values /\ alloc = OnPath(length, s) \cup {n}
  BY <1>1, <1>2, NodesAssumption DEF LinkedBy, CursorOn
<1> DEFINE t == PutLast(n, length, s)
<1>8. Chain(next', head', length', t) /\ alloc' = OnPath(length', t)
  <2>1. Stored(next', next, s[length], n)
    BY <1>1, <1>6 DEF Stored
  <2>2. Chain(next', head, length + 1, t)
    BY <1>3, <1>6, <1>7, <2>1, ChainBack
  <2>3. Extends(t, length, s, n)
    BY <1>3, <1>6, <1>7, <2>1, ChainBack
  <2>4. QED
    BY <1>1, <1>7, <2>2, <2>3 DEF Extends
<1>9. TypeOK'
  <2>1. next' \in [Nodes -> Nodes \cup {NULL}]
    BY <1>1, <1>3, <1>7 DEF Links
  <2>2. QED
    BY <1>1, <1>3, <1>6, <2>1 DEF TypeOK, Returns
<1>10. pc' = "idle" /\ n' = NULL /\ last' = <<"push_back", arg, Void>>
  BY <1>1 DEF Returns
<1>11. IInv' /\ Elements' = Vals(length', t, value')
  BY <1>8, <1>9, <1>10, Returned
<1>12. Elements' = Append(Elements, arg)
  <2>1. t \in [1..length + 1 -> Nodes]
    BY <1>1, <1>8 DEF Chain
  <2>2. Vals(length + 1, t, value) = Append(Vals(length, s, value), value[n])
    BY <1>3, <1>7, <2>1, ValsBack
  <2>3. QED
    BY <1>1, <1>2, <1>7, <1>11, <2>2
<1>13. Abstract!PushBack(arg)
  BY <1>1, <1>10, <1>12 DEF Abstract!PushBack, Abstract!Returns, LastCall
<1>14. QED
  BY <1>7, <1>11, <1>13 DEF Simulates, Abstract!Next

(* A push that malloc refuses a node.                                      *)
LEMMA CrashStep ==
  ASSUME IInv, push_without_memory
  PROVE  IInv' /\ Simulates
<1>1. /\ pc = "idle" /\ crashed' = TRUE
      /\ UNCHANGED <<alloc, value, next, head, length, pc, arg, cur, prev, n, steps, last>>
  BY DEF push_without_memory, list, locals, Running
<1>2. PICK s \in [1..length -> Nodes] : LinkedBy(s)
  BY <1>1, PathOf
<1>3. CursorOn(s)' /\ TypeOK'
  BY <1>1, <1>2 DEF IInv, TypeOK, LinkedBy, CursorOn
<1>4. IInv' /\ Elements' = Elements
  BY <1>1, <1>2, <1>3, Walked
<1>5. LastCall' = LastCall
  BY <1>1 DEF LastCall
<1>6. QED
  BY <1>4, <1>5 DEF Simulates

(* The first node is taken from the list and freed: ll_pop_front, and
   ll_remove of the value at the head.                                     *)
LEMMA FirstFreed ==
  ASSUME IInv, pc = "idle", length > 0, head' = next[head], alloc' = alloc \ {head},
         length' = Shorter, pc' = "idle", n' = NULL, UNCHANGED <<value, next>>,
         cur' = NULL, prev' = NULL, steps' = 0, UNCHANGED crashed
  PROVE  /\ IInv'
         /\ Elements \in Seq(Values) /\ Len(Elements) = length
         /\ head \in Nodes /\ Elements[1] = value[head]
         /\ Elements' = Tail(Elements)
         /\ Elements' = SubSeq(Elements, 1, 0) \o SubSeq(Elements, 2, length)
<1>1. PICK s \in [1..length -> Nodes] : LinkedBy(s) /\ Elements = Vals(length, s, value)
  BY PathOf
<1>2. /\ TypeOK /\ value \in [Nodes -> Values] /\ next \in Links /\ length \in Nat
      /\ Chain(next, head, length, s) /\ alloc = OnPath(length, s)
  BY <1>1, Types DEF IInv, LinkedBy, CursorOn
<1>3. 1 \in 1..length /\ head = s[1] /\ length - 1 \in Nat
  BY <1>2 DEF Chain
<1> DEFINE t == Without(1, length, s)
<1>4. Chain(next, next[head], length - 1, t)
  BY <1>2, ChainRest
<1>5. LacksPlace(t, 1, length, s)
  BY <1>2, <1>3, PlacesWithout
<1> HIDE DEF t
<1>6. Chain(next', head', length', t)
  BY <1>4 DEF Shorter
<1>7. alloc' = OnPath(length', t)
  BY <1>2, <1>3, <1>5 DEF LacksPlace, Shorter
<1>8. TypeOK'
  <2>1. head' \in Nodes \cup {NULL} /\ length' \in Nat
    BY <1>2, <1>3 DEF Links, Shorter
  <2>2. QED
    BY <1>2, <2>1 DEF TypeOK
<1>9. IInv' /\ Elements' = Vals(length', t, value')
  BY <1>6, <1>7, <1>8, Returned
<1>10. Elements \in Seq(Values) /\ Len(Elements) = length /\ Elements[1] = value[head]
  BY <1>1, <1>2, <1>3, ValsFacts
<1>11. Vals(length - 1, t, value) = Tail(Elements)
  BY <1>1, <1>2, <1>3, <1>5, ValsWithout
<1>12. Vals(length - 1, t, value) = SubSeq(Elements, 1, 1 - 1) \o SubSeq(Elements, 1 + 1, length)
  BY <1>1, <1>2, <1>3, <1>5, ValsWithout
<1>13. 1 - 1 = 0 /\ 1 + 1 = 2
  OBVIOUS
<1>14. QED
  BY <1>3, <1>9, <1>10, <1>11, <1>12, <1>13 DEF Shorter

(* ll_pop_front.                                                           *)
LEMMA PopFrontStep ==
  ASSUME IInv, ll_pop_front
  PROVE  IInv' /\ Simulates
<1>1. /\ pc = "idle" /\ length > 0 /\ head' = next[head] /\ alloc' = alloc \ {head}
      /\ length' = Shorter /\ Returns("pop_front", Void, value[head]) /\ UNCHANGED <<value, next>>
  BY DEF ll_pop_front, Running
<1>2. /\ pc' = "idle" /\ n' = NULL /\ cur' = NULL /\ prev' = NULL /\ steps' = 0 /\ UNCHANGED crashed
      /\ last' = <<"pop_front", Void, value[head]>>
  BY <1>1 DEF Returns
<1>3. /\ IInv'
      /\ Elements \in Seq(Values) /\ Len(Elements) = length
      /\ Elements[1] = value[head]
      /\ Elements' = Tail(Elements)
  BY <1>1, <1>2, FirstFreed
<1>4. Elements # <<>> /\ Head(Elements) = value[head]
  BY <1>1, <1>3
<1>5. Abstract!PopFront
  BY <1>2, <1>3, <1>4 DEF Abstract!PopFront, Abstract!Returns, LastCall
<1>6. QED
  BY <1>3, <1>5 DEF Simulates, Abstract!Next

-----------------------------------------------------------------------------
(* A call that only looks enters its loop at the head.                     *)
LEMMA ContainsStep ==
  ASSUME IInv, NEW v \in Values, ll_contains(v)
  PROVE  IInv' /\ Simulates
<1>1. /\ pc = "idle" /\ pc' = "contains" /\ arg' = v /\ cur' = head /\ prev' = NULL /\ n' = NULL
      /\ steps' = 0 /\ UNCHANGED <<alloc, value, next, head, length, crashed, last>>
  BY DEF ll_contains, Running, Enters, list
<1>2. PICK s \in [1..length -> Nodes] : LinkedBy(s)
  BY <1>1, PathOf
<1>3. TypeOK /\ length \in Nat /\ Chain(next, head, length, s) /\ n = NULL
  BY <1>1, <1>2, Types DEF IInv, LinkedBy, CursorOn
<1>4. TypeOK'
  BY <1>1, <1>3 DEF TypeOK
<1>5. 1 \in 1..length + 1 /\ head = At(length, s, 1) /\ \A j \in 1..1 - 1 : value[s[j]] # v
  <2>1. CASE length = 0
    BY <1>3, <2>1 DEF Chain, At
  <2>2. CASE length > 0
    BY <1>3, <2>2 DEF Chain, At
  <2>3. QED
    BY <1>3, <2>1, <2>2
<1>6. CursorOn(s)'
  <2>1. \E k \in 1..length' + 1 : cur' = At(length', s, k) /\ \A j \in 1..k - 1 : value'[s[j]] # arg'
    BY <1>1, <1>5
  <2>2. QED
    BY <1>1, <2>1 DEF CursorOn
<1>7. IInv' /\ Elements' = Elements
  BY <1>1, <1>2, <1>3, <1>4, <1>6, Walked
<1>8. LastCall' = LastCall
  BY <1>1 DEF LastCall
<1>9. QED
  BY <1>7, <1>8 DEF Simulates

(* A call returns that has left the list as it is.                         *)
LEMMA LookedAt ==
  ASSUME IInv, pc # "free", pc # "push_back", NEW op, NEW a, NEW res, Returns(op, a, res),
         UNCHANGED <<alloc, value, next, head, length>>
  PROVE  IInv' /\ Elements' = Elements /\ LastCall' = <<op, a, res>>
<1>1. /\ pc' = "idle" /\ cur' = NULL /\ prev' = NULL /\ n' = NULL /\ steps' = 0
      /\ UNCHANGED crashed /\ last' = <<op, a, res>>
  BY DEF Returns
<1>2. PICK s \in [1..length -> Nodes] : LinkedBy(s)
  BY PathOf
<1>3. n = NULL /\ TypeOK
  BY <1>2 DEF LinkedBy, CursorOn, IInv
<1>4. TypeOK'
  BY <1>1, <1>3 DEF TypeOK
<1>5. CursorOn(s)'
  BY <1>1 DEF CursorOn
<1>6. IInv' /\ Elements' = Elements
  BY <1>1, <1>2, <1>3, <1>4, <1>5, Walked
<1>7. QED
  BY <1>1, <1>6 DEF LastCall

(* ll_contains: an iteration, which excludes one more place.               *)
LEMMA ContainsWalksStep ==
  ASSUME IInv, contains_walks
  PROVE  IInv' /\ Simulates
<1>1. pc = "contains" /\ cur # NULL /\ UNCHANGED <<alloc, value, next, head, length>>
  BY DEF contains_walks, list
<1>2. PICK s \in [1..length -> Nodes] : LinkedBy(s) /\ Elements = Vals(length, s, value)
  BY <1>1, PathOf
<1>3. /\ TypeOK /\ value \in [Nodes -> Values] /\ length \in Nat
      /\ Chain(next, head, length, s) /\ n = NULL /\ arg \in Values
  BY <1>1, <1>2, Types DEF IInv, LinkedBy, CursorOn
<1>4. PICK k \in 1..length + 1 : cur = At(length, s, k) /\ \A j \in 1..k - 1 : value[s[j]] # arg
  BY <1>1, <1>2 DEF LinkedBy, CursorOn
<1>5. k \in 1..length /\ cur = s[k]
  BY <1>1, <1>3, <1>4 DEF At
<1>6. CASE value[cur] = arg
  <2>1. Returns("contains", arg, 1)
    BY <1>6 DEF contains_walks
  <2>2. IInv' /\ Elements' = Elements /\ LastCall' = <<"contains", arg, 1>>
    BY <1>1, <2>1, LookedAt
  <2>3. DOMAIN Elements = 1..length /\ Elements[k] = arg
    BY <1>2, <1>3, <1>5, <1>6, ValsFacts
  <2>4. Abstract!Found(arg) = 1
    BY <1>5, <2>3 DEF Abstract!Found, Abstract!Positions
  <2>5. Abstract!Contains(arg)
    BY <2>2, <2>4 DEF Abstract!Contains, Abstract!Returns
  <2>6. QED
    BY <1>3, <2>2, <2>5 DEF Simulates, Abstract!Next
<1>7. CASE value[cur] # arg
  <2>1. cur' = next[cur] /\ UNCHANGED <<pc, arg, prev, n, steps, crashed, last>>
    BY <1>7 DEF contains_walks
  <2>2. cur' = At(length, s, k + 1)
    <3>1. next[s[k]] = At(length, s, k + 1)
      <4>1. Leads(next, length, s, k)
        BY <1>3, <1>5, LinkLeads
      <4>2. QED
        BY <4>1 DEF Leads
    <3>2. QED
      BY <1>5, <2>1, <3>1
  <2>3. k + 1 \in 1..length + 1 /\ \A j \in 1..(k + 1) - 1 : value[s[j]] # arg
    <3>1. \A j \in 1..(k + 1) - 1 : j = k \/ j \in 1..k - 1
      BY <1>5
    <3>2. k + 1 \in 1..length + 1
      BY <1>3, <1>5
    <3>3. \A j \in 1..(k + 1) - 1 : value[s[j]] # arg
      <4>1. ASSUME NEW j \in 1..(k + 1) - 1 PROVE value[s[j]] # arg
        <5>1. CASE j = k
          BY <1>5, <1>7, <5>1
        <5>2. CASE j \in 1..k - 1
          BY <1>4, <5>2
        <5>3. QED
          BY <3>1, <5>1, <5>2
      <4>2. QED
        BY <4>1
    <3>4. QED
      BY <3>2, <3>3
  <2>4. cur' \in Nodes \cup {NULL}
    BY <1>3, <2>2, <2>3 DEF At
  <2>5. TypeOK'
    BY <1>1, <1>3, <2>1, <2>4 DEF TypeOK
  <2>6. CursorOn(s)'
    <3>1. \E m \in 1..length' + 1 : cur' = At(length', s, m) /\ \A j \in 1..m - 1 : value'[s[j]] # arg'
      BY <1>1, <2>1, <2>2, <2>3
    <3>2. QED
      BY <1>1, <1>3, <2>1, <3>1 DEF CursorOn
  <2>7. IInv' /\ Elements' = Elements
    BY <1>1, <1>2, <2>1, <2>5, <2>6, Walked
  <2>8. LastCall' = LastCall
    BY <1>1, <2>1 DEF LastCall
  <2>9. QED
    BY <2>7, <2>8 DEF Simulates
<1>8. QED
  BY <1>6, <1>7

(* When the end is reached no place holds the value that was looked for.   *)
LEMMA NotFound ==
  ASSUME NEW s \in [1..length -> Nodes], Elements = Vals(length, s, value),
         value \in [Nodes -> Values], length \in Nat,
         NEW k \in 1..length + 1, At(length, s, k) = NULL, NEW v, \A j \in 1..k - 1 : value[s[j]] # v
  PROVE  Abstract!Positions(v) = {} /\ Abstract!Found(v) = 0
<1>1. k = length + 1
  <2>1. k \in 1..length => s[k] # NULL
    BY NodesAssumption
  <2>2. QED
    BY <2>1 DEF At
<1>2. DOMAIN Elements = 1..length /\ \A i \in 1..length : Elements[i] = value[s[i]]
  BY ValsFacts
<1>3. \A i \in 1..length : i \in 1..k - 1
  BY <1>1
<1>4. QED
  BY <1>2, <1>3 DEF Abstract!Positions, Abstract!Found

(* ll_contains: the answer.                                                *)
LEMMA ContainsEndsStep ==
  ASSUME IInv, contains_ends
  PROVE  IInv' /\ Simulates
<1>1. /\ pc = "contains" /\ cur = NULL /\ UNCHANGED <<alloc, value, next, head, length>>
      /\ Returns("contains", arg, 0)
  BY DEF contains_ends, list
<1>2. PICK s \in [1..length -> Nodes] : LinkedBy(s) /\ Elements = Vals(length, s, value)
  BY <1>1, PathOf
<1>3. value \in [Nodes -> Values] /\ length \in Nat /\ arg \in Values
  BY <1>1, <1>2, Types DEF IInv, LinkedBy, CursorOn
<1>4. PICK k \in 1..length + 1 : cur = At(length, s, k) /\ \A j \in 1..k - 1 : value[s[j]] # arg
  BY <1>1, <1>2 DEF LinkedBy, CursorOn
<1>5. Abstract!Found(arg) = 0
  BY <1>1, <1>2, <1>3, <1>4, NotFound
<1>6. IInv' /\ Elements' = Elements /\ LastCall' = <<"contains", arg, 0>>
  BY <1>1, LookedAt
<1>7. Abstract!Contains(arg)
  BY <1>5, <1>6 DEF Abstract!Contains, Abstract!Returns
<1>8. QED
  BY <1>3, <1>6, <1>7 DEF Simulates, Abstract!Next

(* ll_get: the call.                                                       *)
LEMMA GetStep ==
  ASSUME IInv, NEW i \in 0..length - 1, ll_get(i)
  PROVE  IInv' /\ Simulates
<1>1. /\ pc = "idle" /\ pc' = "get" /\ arg' = i /\ cur' = head /\ prev' = NULL /\ n' = NULL
      /\ steps' = 0 /\ UNCHANGED <<alloc, value, next, head, length, crashed, last>>
  BY DEF ll_get, Running, Enters, list
<1>2. PICK s \in [1..length -> Nodes] : LinkedBy(s)
  BY <1>1, PathOf
<1>3. TypeOK /\ length \in Nat /\ Chain(next, head, length, s) /\ n = NULL
  BY <1>1, <1>2, Types DEF IInv, LinkedBy, CursorOn
<1>4. TypeOK'
  BY <1>1, <1>3 DEF TypeOK
<1>5. head = s[0 + 1] /\ 0 <= i
  BY <1>3 DEF Chain
<1>6. CursorOn(s)'
  BY <1>1, <1>5 DEF CursorOn
<1>7. IInv' /\ Elements' = Elements
  BY <1>1, <1>2, <1>3, <1>4, <1>6, Walked
<1>8. LastCall' = LastCall
  BY <1>1 DEF LastCall
<1>9. QED
  BY <1>7, <1>8 DEF Simulates

(* ll_get: an iteration.                                                   *)
LEMMA GetWalksStep ==
  ASSUME IInv, get_walks
  PROVE  IInv' /\ Simulates
<1>1. /\ pc = "get" /\ steps < arg /\ cur' = next[cur] /\ steps' = steps + 1
      /\ UNCHANGED <<alloc, value, next, head, length, pc, arg, prev, n, crashed, last>>
  BY DEF get_walks, list
<1>2. PICK s \in [1..length -> Nodes] : LinkedBy(s)
  BY <1>1, PathOf
<1>3. /\ TypeOK /\ length \in Nat /\ steps \in Nat /\ Chain(next, head, length, s) /\ n = NULL
      /\ arg \in 0..length - 1 /\ cur = s[steps + 1]
  BY <1>1, <1>2 DEF IInv, TypeOK, LinkedBy, CursorOn
<1>4. steps + 1 \in 1..length /\ (steps + 1) + 1 \in 1..length /\ steps + 1 <= arg
  BY <1>1, <1>3
<1>5. cur' = s[(steps + 1) + 1]
  <2>1. next[s[steps + 1]] = At(length, s, (steps + 1) + 1)
    <3>1. Leads(next, length, s, steps + 1)
      BY <1>3, <1>4, LinkLeads
    <3>2. QED
      BY <3>1 DEF Leads
  <2>2. QED
    BY <1>1, <1>3, <1>4, <2>1 DEF At
<1>6. TypeOK'
  <2>1. cur' \in Nodes /\ steps' \in Nat
    BY <1>1, <1>3, <1>4, <1>5
  <2>2. QED
    BY <1>1, <1>3, <2>1 DEF TypeOK
<1>7. CursorOn(s)'
  BY <1>1, <1>3, <1>4, <1>5 DEF CursorOn
<1>8. IInv' /\ Elements' = Elements
  BY <1>1, <1>2, <1>6, <1>7, Walked
<1>9. LastCall' = LastCall
  BY <1>1 DEF LastCall
<1>10. QED
  BY <1>8, <1>9 DEF Simulates

(* ll_get: the answer is the element at the index.                         *)
LEMMA GetEndsStep ==
  ASSUME IInv, get_ends
  PROVE  IInv' /\ Simulates
<1>1. /\ pc = "get" /\ steps = arg /\ UNCHANGED <<alloc, value, next, head, length>>
      /\ Returns("get", arg, value[cur])
  BY DEF get_ends, list
<1>2. PICK s \in [1..length -> Nodes] : LinkedBy(s) /\ Elements = Vals(length, s, value)
  BY <1>1, PathOf
<1>3. /\ value \in [Nodes -> Values] /\ length \in Nat
      /\ arg \in 0..length - 1 /\ cur = s[arg + 1]
  BY <1>1, <1>2, Types DEF IInv, LinkedBy, CursorOn
<1>4. arg + 1 \in 1..length /\ (arg + 1) - 1 = arg /\ arg < length
  BY <1>3
<1>5. DOMAIN Elements = 1..length /\ Len(Elements) = length /\ Elements[arg + 1] = value[cur]
  BY <1>2, <1>3, <1>4, ValsFacts
<1>6. IInv' /\ Elements' = Elements /\ LastCall' = <<"get", arg, value[cur]>>
  BY <1>1, LookedAt
<1>7. Abstract!Get((arg + 1) - 1)
  BY <1>4, <1>5, <1>6 DEF Abstract!Get, Abstract!Returns
<1>8. QED
  BY <1>4, <1>5, <1>6, <1>7 DEF Simulates, Abstract!Next

-----------------------------------------------------------------------------
(* The place k is the first that holds v, and it is taken out.             *)
LEMMA FirstTaken ==
  ASSUME NEW v, NEW k \in Nat, k \in DOMAIN Elements, Elements[k] = v, DOMAIN Elements = 1..length,
         length \in Nat, Len(Elements) = length,
         \A j \in 1..k - 1 : Elements[j] # v,
         Elements' = SubSeq(Elements, 1, k - 1) \o SubSeq(Elements, k + 1, length),
         LastCall' = <<"remove", v, 1>>
  PROVE  Abstract!Remove(v)
<1>1. k \in Abstract!Positions(v)
  BY DEF Abstract!Positions
<1>2. Abstract!Found(v) = 1
  BY <1>1 DEF Abstract!Found
<1>3. ASSUME NEW j \in Abstract!Positions(v) PROVE k <= j
  <2>1. j \in 1..length /\ Elements[j] = v
    BY DEF Abstract!Positions
  <2>2. j \notin 1..k - 1
    BY <2>1
  <2>3. QED
    BY <2>1, <2>2
<1>4. QED
  BY <1>1, <1>2, <1>3 DEF Abstract!Remove, Abstract!Returns

(* ll_remove: the call, which ends at once if the head has the value.      *)
LEMMA RemoveStep ==
  ASSUME IInv, NEW v \in Values, ll_remove(v)
  PROVE  IInv' /\ Simulates
<1>1. pc = "idle" /\ UNCHANGED <<value, next>>
  BY DEF ll_remove, Running
<1>2. PICK s \in [1..length -> Nodes] : LinkedBy(s) /\ Elements = Vals(length, s, value)
  BY <1>1, PathOf
<1>3. /\ TypeOK /\ value \in [Nodes -> Values] /\ next \in Links /\ length \in Nat
      /\ Chain(next, head, length, s) /\ n = NULL
  BY <1>1, <1>2, Types DEF IInv, LinkedBy, CursorOn
<1>4. DOMAIN Elements = 1..length /\ Len(Elements) = length /\ \A i \in 1..length : Elements[i] = value[s[i]]
  BY <1>2, <1>3, ValsFacts
<1>5. CASE length = 0 /\ Returns("remove", v, 0) /\ UNCHANGED <<alloc, list>>
  <2>1. UNCHANGED <<alloc, value, next, head, length>>
    BY <1>1, <1>5 DEF list
  <2>2. IInv' /\ Elements' = Elements /\ LastCall' = <<"remove", v, 0>>
    BY <1>1, <1>5, <2>1, LookedAt
  <2>3. Abstract!Positions(v) = {} /\ Abstract!Found(v) = 0
    BY <1>4, <1>5 DEF Abstract!Positions, Abstract!Found
  <2>4. Abstract!Remove(v)
    BY <2>2, <2>3 DEF Abstract!Remove, Abstract!Returns
  <2>5. QED
    BY <2>2, <2>4 DEF Simulates, Abstract!Next
<1>6. CASE /\ length # 0 /\ value[head] = v /\ head' = next[head] /\ alloc' = alloc \ {head}
           /\ length' = Shorter /\ Returns("remove", v, 1)
  <2>1. /\ pc' = "idle" /\ n' = NULL /\ cur' = NULL /\ prev' = NULL /\ steps' = 0 /\ UNCHANGED crashed
        /\ last' = <<"remove", v, 1>>
    BY <1>6 DEF Returns
  <2>2. length > 0
    BY <1>3, <1>6
  <2>3. IInv' /\ Elements[1] = value[head]
    BY <1>1, <1>6, <2>1, <2>2, FirstFreed
  <2>4. Elements' = SubSeq(Elements, 1, 0) \o SubSeq(Elements, 2, length)
    BY <1>1, <1>6, <2>1, <2>2, FirstFreed
  <2>5. LastCall' = <<"remove", v, 1>>
    BY <2>1 DEF LastCall
  <2>6. Abstract!Remove(v)
    <3>1. PICK k \in Nat : k = 1
      OBVIOUS
    <3>2. k \in DOMAIN Elements /\ k - 1 = 0 /\ k + 1 = 2 /\ \A j \in 1..k - 1 : Elements[j] # v
      BY <1>4, <2>2, <3>1
    <3>3. Elements[k] = v
      BY <1>6, <2>3, <3>1
    <3>4. Elements' = SubSeq(Elements, 1, k - 1) \o SubSeq(Elements, k + 1, length)
      BY <2>4, <3>2
    <3>5. QED
      BY <1>3, <1>4, <2>5, <3>2, <3>3, <3>4, FirstTaken
  <2>7. QED
    BY <2>3, <2>6 DEF Simulates, Abstract!Next
<1>7. CASE /\ length # 0 /\ value[head] # v /\ Enters("remove", v, next[head], head, NULL)
           /\ UNCHANGED <<alloc, list>>
  <2>1. /\ pc' = "remove" /\ arg' = v /\ cur' = next[head] /\ prev' = head /\ n' = NULL /\ steps' = 0
        /\ UNCHANGED <<alloc, value, next, head, length, crashed, last>>
    BY <1>1, <1>7 DEF Enters, list
  <2>2. length > 0 /\ head = s[1] /\ head \in Nodes
    BY <1>3, <1>7 DEF Chain
  <2>3. cur' = At(length, s, 2)
    <3>1. PICK k \in 1..length : k = 1
      BY <1>3, <2>2
    <3>2. Leads(next, length, s, k)
      BY <1>3, LinkLeads
    <3>3. k + 1 = 2
      BY <3>1
    <3>4. QED
      BY <2>1, <2>2, <3>1, <3>2, <3>3 DEF Leads
  <2>4. next[head] \in Nodes \cup {NULL}
    BY <1>3, <2>2 DEF Links
  <2>5. TypeOK'
    BY <1>3, <2>1, <2>2, <2>4 DEF TypeOK
  <2>6. CursorOn(s)'
    <3>1. 2 \in 2..length + 1 /\ 2 - 1 = 1 /\ \A j \in 1..2 - 1 : j = 1
      BY <1>3, <2>2
    <3>2. \A j \in 1..2 - 1 : value'[s[j]] # arg'
      BY <1>7, <2>1, <2>2, <3>1
    <3>3. \E k \in 2..length' + 1 : /\ cur' = At(length', s, k) /\ prev' = s[k - 1]
                                    /\ \A j \in 1..k - 1 : value'[s[j]] # arg'
      BY <2>1, <2>2, <2>3, <3>1, <3>2
    <3>4. QED
      BY <2>1, <3>3 DEF CursorOn
  <2>7. IInv' /\ Elements' = Elements
    BY <1>1, <1>2, <1>3, <2>1, <2>5, <2>6, Walked
  <2>8. LastCall' = LastCall
    BY <1>1, <2>1 DEF LastCall
  <2>9. QED
    BY <2>7, <2>8 DEF Simulates
<1>8. QED
  BY <1>5, <1>6, <1>7 DEF ll_remove

(* ll_remove: an iteration, which takes out the first node that has the    *)
(* value.                                                                  *)
LEMMA RemoveWalksStep ==
  ASSUME IInv, remove_walks
  PROVE  IInv' /\ Simulates
<1>1. pc = "remove" /\ cur # NULL
  BY DEF remove_walks
<1>2. PICK s \in [1..length -> Nodes] : LinkedBy(s) /\ Elements = Vals(length, s, value)
  BY <1>1, PathOf
<1>3. /\ TypeOK /\ value \in [Nodes -> Values] /\ next \in Links /\ length \in Nat
      /\ Chain(next, head, length, s) /\ n = NULL /\ arg \in Values /\ alloc = OnPath(length, s)
  BY <1>1, <1>2, Types DEF IInv, LinkedBy, CursorOn
<1>4. DOMAIN Elements = 1..length /\ Len(Elements) = length /\ \A i \in 1..length : Elements[i] = value[s[i]]
  BY <1>2, <1>3, ValsFacts
<1>5. PICK k \in 2..length + 1 : /\ cur = At(length, s, k) /\ prev = s[k - 1]
                                 /\ \A j \in 1..k - 1 : value[s[j]] # arg
  BY <1>1, <1>2 DEF LinkedBy, CursorOn
<1>6. k \in 2..length /\ k \in 1..length /\ k \in Nat /\ cur = s[k]
  BY <1>1, <1>3, <1>5 DEF At
<1>7. CASE /\ value[cur] = arg /\ next' = Unlinked /\ alloc' = alloc \ {cur} /\ length' = Shorter
           /\ Returns("remove", arg, 1) /\ UNCHANGED <<value, head>>
  <2> DEFINE t == Without(k, length, s)
  <2>1. Stored(next', next, s[k - 1], next[s[k]])
    BY <1>5, <1>6, <1>7 DEF Stored, Unlinked
  <2>2. Chain(next', head, length - 1, t)
    BY <1>3, <1>6, <2>1, ChainUnlinked
  <2>3. LacksPlace(t, k, length, s)
    BY <1>3, <1>6, PlacesWithout
  <2> HIDE DEF t
  <2>4. Chain(next', head', length', t)
    BY <1>7, <2>2 DEF Shorter
  <2>5. alloc' = OnPath(length', t)
    BY <1>3, <1>6, <1>7, <2>3 DEF LacksPlace, Shorter
  <2>6. /\ pc' = "idle" /\ n' = NULL /\ cur' = NULL /\ prev' = NULL /\ steps' = 0 /\ UNCHANGED crashed
        /\ last' = <<"remove", arg, 1>>
    BY <1>7 DEF Returns
  <2>7. TypeOK'
    <3>1. length' \in Nat
      BY <1>7, <2>3 DEF Shorter, LacksPlace
    <3>2. next' \in [Nodes -> Nodes \cup {NULL}]
      <4>1. cur \in Nodes
        BY <1>6
      <4>2. next[cur] \in Nodes \cup {NULL}
        BY <1>3, <4>1 DEF Links
      <4>3. QED
        BY <1>3, <1>7, <4>2 DEF Unlinked, Links
    <3>3. QED
      BY <1>3, <1>7, <2>6, <3>1, <3>2 DEF TypeOK
  <2>8. IInv' /\ Elements' = Vals(length', t, value')
    BY <2>4, <2>5, <2>6, <2>7, Returned
  <2>9. Elements' = SubSeq(Elements, 1, k - 1) \o SubSeq(Elements, k + 1, length)
    <3>1. Vals(length - 1, t, value) = SubSeq(Elements, 1, k - 1) \o SubSeq(Elements, k + 1, length)
      BY <1>2, <1>3, <1>6, <2>3, ValsWithout
    <3>2. QED
      BY <1>7, <2>8, <3>1 DEF Shorter
  <2>10. \A j \in 1..k - 1 : Elements[j] # arg
    <3>1. \A j \in 1..k - 1 : j \in 1..length
      BY <1>3, <1>6
    <3>2. QED
      BY <1>4, <1>5, <3>1
  <2>11. k \in DOMAIN Elements /\ Elements[k] = arg
    BY <1>4, <1>6, <1>7
  <2>12. LastCall' = <<"remove", arg, 1>>
    BY <2>6 DEF LastCall
  <2>13. Abstract!Remove(arg)
    BY <1>3, <1>4, <1>6, <2>9, <2>10, <2>11, <2>12, FirstTaken
  <2>14. QED
    BY <1>3, <2>8, <2>13 DEF Simulates, Abstract!Next
<1>8. CASE /\ value[cur] # arg /\ prev' = cur /\ cur' = next[cur]
           /\ UNCHANGED <<alloc, value, next, list, pc, arg, n, steps, crashed, last>>
  <2>1. UNCHANGED <<alloc, value, next, head, length, pc, arg, n, steps, crashed, last>>
    BY <1>8 DEF list
  <2>2. cur' = At(length, s, k + 1)
    <3>1. Leads(next, length, s, k)
      BY <1>3, <1>6, LinkLeads
    <3>2. QED
      BY <1>6, <1>8, <3>1 DEF Leads
  <2>3. k + 1 \in 2..length + 1 /\ (k + 1) - 1 = k
    BY <1>3, <1>6
  <2>4. ASSUME NEW j \in 1..(k + 1) - 1 PROVE value[s[j]] # arg
    <3>1. CASE j = k
      BY <1>6, <1>8, <3>1
    <3>2. CASE j # k
      <4>1. j \in 1..k - 1
        BY <2>3, <3>2
      <4>2. QED
        BY <1>5, <4>1
    <3>3. QED
      BY <3>1, <3>2
  <2>5. TypeOK'
    <3>1. cur \in Nodes
      BY <1>6
    <3>2. cur' \in Nodes \cup {NULL}
      BY <1>3, <1>8, <3>1 DEF Links
    <3>3. QED
      BY <1>3, <1>8, <2>1, <3>1, <3>2 DEF TypeOK
  <2>6. CursorOn(s)'
    <3>1. \E m \in 2..length' + 1 : /\ cur' = At(length', s, m) /\ prev' = s[m - 1]
                                    /\ \A j \in 1..m - 1 : value'[s[j]] # arg'
      BY <1>6, <1>8, <2>1, <2>2, <2>3, <2>4
    <3>2. QED
      BY <1>1, <1>3, <2>1, <3>1 DEF CursorOn
  <2>7. IInv' /\ Elements' = Elements
    BY <1>1, <1>2, <2>1, <2>5, <2>6, Walked
  <2>8. LastCall' = LastCall
    BY <1>1, <2>1 DEF LastCall
  <2>9. QED
    BY <2>7, <2>8 DEF Simulates
<1>9. QED
  BY <1>7, <1>8 DEF remove_walks

(* ll_remove: no node has the value.                                       *)
LEMMA RemoveEndsStep ==
  ASSUME IInv, remove_ends
  PROVE  IInv' /\ Simulates
<1>1. /\ pc = "remove" /\ cur = NULL /\ UNCHANGED <<alloc, value, next, head, length>>
      /\ Returns("remove", arg, 0)
  BY DEF remove_ends, list
<1>2. PICK s \in [1..length -> Nodes] : LinkedBy(s) /\ Elements = Vals(length, s, value)
  BY <1>1, PathOf
<1>3. value \in [Nodes -> Values] /\ length \in Nat /\ arg \in Values
  BY <1>1, <1>2, Types DEF IInv, LinkedBy, CursorOn
<1>4. PICK k \in 2..length + 1 : cur = At(length, s, k) /\ \A j \in 1..k - 1 : value[s[j]] # arg
  BY <1>1, <1>2 DEF LinkedBy, CursorOn
<1>5. k \in 1..length + 1
  BY <1>3
<1>6. Abstract!Positions(arg) = {} /\ Abstract!Found(arg) = 0
  BY <1>1, <1>2, <1>3, <1>4, <1>5, NotFound
<1>7. IInv' /\ Elements' = Elements /\ LastCall' = <<"remove", arg, 0>>
  BY <1>1, LookedAt
<1>8. Abstract!Remove(arg)
  BY <1>6, <1>7 DEF Abstract!Remove, Abstract!Returns
<1>9. QED
  BY <1>3, <1>7, <1>8 DEF Simulates, Abstract!Next

-----------------------------------------------------------------------------
(* ll_free: the call.                                                      *)
LEMMA FreeStep ==
  ASSUME IInv, ll_free
  PROVE  IInv' /\ Simulates
<1>1. /\ pc = "idle" /\ pc' = "free" /\ cur' = head /\ prev' = NULL /\ n' = NULL /\ steps' = 0
      /\ UNCHANGED <<alloc, value, next, head, length, crashed>>
  BY DEF ll_free, Running, Enters, list
<1>2. PICK s \in [1..length -> Nodes] : LinkedBy(s)
  BY <1>1, PathOf
<1>3. TypeOK /\ length \in Nat /\ Chain(next, head, length, s) /\ alloc = OnPath(length, s)
  BY <1>1, <1>2, Types DEF IInv, LinkedBy, CursorOn
<1>4. TypeOK'
  BY <1>1, <1>3 DEF TypeOK
<1>5. Freeing'
  BY <1>1, <1>2, <1>3 DEF Freeing
<1>6. Abstract!Clear
  BY <1>1 DEF Abstract!Clear, Abstract!Returns, Elements, LastCall
<1>7. QED
  BY <1>1, <1>4, <1>5, <1>6 DEF IInv, Simulates, Abstract!Next

(* The rest of the path when its first node is freed.                      *)
LEMMA FreeWalksStep ==
  ASSUME IInv, free_walks
  PROVE  IInv' /\ Simulates
<1>1. /\ pc = "free" /\ cur # NULL /\ prev' = cur /\ cur' = next[cur] /\ alloc' = alloc \ {cur}
      /\ UNCHANGED <<value, next, head, length, pc, arg, n, steps, crashed, last>>
  BY DEF free_walks, Successor, list
<1>2. n = NULL /\ TypeOK /\ next \in Links
  BY <1>1, Types DEF IInv, Freeing
<1>3. PICK L \in Nat : \E s \in [1..L -> Nodes] : Chain(next, cur, L, s) /\ alloc = OnPath(L, s)
  BY <1>1 DEF IInv, Freeing
<1>4. PICK s \in [1..L -> Nodes] : Chain(next, cur, L, s) /\ alloc = OnPath(L, s)
  BY <1>3
<1>5. L > 0 /\ cur = s[1] /\ 1 \in 1..L /\ L - 1 \in Nat
  BY <1>1, <1>4 DEF Chain
<1> DEFINE t == Without(1, L, s)
<1>6. Chain(next, next[cur], L - 1, t)
  BY <1>2, <1>4, <1>5, ChainRest
<1>7. LacksPlace(t, 1, L, s)
  BY <1>4, <1>5, PlacesWithout
<1> HIDE DEF t
<1>8. t \in [1..L - 1 -> Nodes] /\ OnPath(L - 1, t) = OnPath(L, s) \ {s[1]}
  BY <1>7 DEF LacksPlace
<1>9. Freeing'
  <2>1. Chain(next', cur', L - 1, t) /\ alloc' = OnPath(L - 1, t)
    BY <1>1, <1>4, <1>5, <1>6, <1>8
  <2>2. QED
    BY <1>1, <1>2, <1>5, <1>8, <2>1 DEF Freeing
<1>10. TypeOK'
  <2>1. cur \in Nodes /\ next[cur] \in Nodes \cup {NULL}
    BY <1>2, <1>5 DEF Links
  <2>2. QED
    BY <1>1, <1>2, <2>1 DEF TypeOK
<1>11. Elements' = Elements /\ LastCall' = LastCall
  BY <1>1 DEF Elements, LastCall
<1>12. QED
  BY <1>1, <1>9, <1>10, <1>11 DEF IInv, Simulates

(* ll_free: every node is free and the list is empty.                      *)
LEMMA FreeEndsStep ==
  ASSUME IInv, free_ends
  PROVE  IInv' /\ Simulates
<1>1. /\ pc = "free" /\ cur = NULL /\ head' = NULL /\ length' = 0
      /\ Returns("free", Void, Void) /\ UNCHANGED <<alloc, value, next>>
  BY DEF free_ends
<1>2. n = NULL /\ TypeOK
  BY <1>1 DEF IInv, Freeing
<1>3. PICK L \in Nat : \E s \in [1..L -> Nodes] : Chain(next, cur, L, s) /\ alloc = OnPath(L, s)
  BY <1>1 DEF IInv, Freeing
<1>4. PICK s \in [1..L -> Nodes] : Chain(next, cur, L, s) /\ alloc = OnPath(L, s)
  BY <1>3
<1>5. L = 0
  <2>1. L > 0 => cur = s[1] /\ 1 \in 1..L
    BY <1>4 DEF Chain
  <2>2. QED
    BY <1>1, <2>1, NodesAssumption
<1>6. 1..L = {} /\ alloc = {}
  BY <1>4, <1>5 DEF OnPath
<1> DEFINE t == [i \in 1..0 |-> NULL]
<1>7. Chain(next', head', length', t)
  BY <1>1 DEF Chain
<1>8. OnPath(length', t) = {}
  BY <1>1 DEF OnPath
<1>9. /\ pc' = "idle" /\ n' = NULL /\ cur' = NULL /\ prev' = NULL /\ steps' = 0 /\ UNCHANGED crashed
      /\ last' = <<"free", Void, Void>>
  BY <1>1 DEF Returns
<1>10. TypeOK'
  BY <1>1, <1>2, <1>9 DEF TypeOK
<1>11. IInv' /\ Elements' = Vals(length', t, value')
  BY <1>1, <1>6, <1>7, <1>8, <1>9, <1>10, Returned
<1>12. Elements' = <<>>
  BY <1>1, <1>11 DEF Vals
<1>13. Elements = <<>> /\ LastCall = <<"free", Void, Void>>
  BY <1>1 DEF Elements, LastCall
<1>14. LastCall' = <<"free", Void, Void>>
  BY <1>9 DEF LastCall
<1>15. QED
  BY <1>11, <1>12, <1>13, <1>14 DEF Simulates

-----------------------------------------------------------------------------
(* An empty list is a path without places and an empty sequence.           *)
LEMMA InitLinked ==
  ASSUME Init
  PROVE  IInv /\ Abstract!Init
<1>1. TypeOK
  BY DEF Init, TypeOK
<1> DEFINE t == [i \in 1..0 |-> NULL]
<1>2. length = 0 /\ head = NULL /\ pc = "idle" /\ n = NULL /\ alloc = {}
  BY DEF Init
<1>3. t \in [1..length -> Nodes] /\ Chain(next, head, length, t)
  BY <1>2 DEF Chain
<1>4. OnPath(length, t) = {}
  BY <1>2 DEF OnPath
<1>5. LinkedBy(t)
  BY <1>2, <1>3, <1>4 DEF LinkedBy, CursorOn
<1>6. IInv
  BY <1>1, <1>2, <1>3, <1>5 DEF IInv, Linked
<1>7. Elements = <<>>
  BY <1>2 DEF Elements
<1>8. Abstract!Init
  BY <1>2, <1>7 DEF Abstract!Init, LastCall, Init
<1>9. QED
  BY <1>6, <1>8

(* Every step keeps the invariant and is a step of the sequence, or none.  *)
LEMMA StepLinked ==
  ASSUME IInv, Next
  PROVE  IInv' /\ Simulates
<1>1. CASE Loop
  BY <1>1, PushBackWalksStep, PushBackLinksStep, ContainsWalksStep, ContainsEndsStep, GetWalksStep,
     GetEndsStep, RemoveWalksStep, RemoveEndsStep, FreeWalksStep, FreeEndsStep DEF Loop
<1>2. CASE \E v \in Values : ll_push_front(v) \/ ll_push_back(v) \/ ll_contains(v) \/ ll_remove(v)
  BY <1>2, PushFrontStep, PushBackStep, ContainsStep, RemoveStep
<1>3. CASE \E i \in 0..length - 1 : ll_get(i)
  BY <1>3, GetStep
<1>4. CASE ll_pop_front \/ ll_free \/ push_without_memory
  BY <1>4, PopFrontStep, FreeStep, CrashStep
<1>5. QED
  BY <1>1, <1>2, <1>3, <1>4 DEF Next

(* So does a step that changes nothing.                                    *)
LEMMA Stutter ==
  ASSUME IInv, UNCHANGED vars
  PROVE  IInv' /\ Simulates
<1>1. UNCHANGED <<alloc, value, next, head, length, pc, arg, cur, prev, n, steps, crashed, last>>
  BY DEF vars, list, locals
<1>2. TypeOK'
  BY <1>1 DEF IInv, TypeOK
<1>3. CASE pc = "free"
  <2>1. Freeing'
    BY <1>1, <1>3 DEF IInv, Freeing
  <2>2. Elements' = Elements /\ LastCall' = LastCall
    BY <1>1, <1>3 DEF Elements, LastCall
  <2>3. QED
    BY <1>1, <1>2, <1>3, <2>1, <2>2 DEF IInv, Simulates
<1>4. CASE pc # "free"
  <2>1. PICK s \in [1..length -> Nodes] : LinkedBy(s)
    BY <1>4, PathOf
  <2>2. CursorOn(s)'
    BY <1>1, <2>1 DEF LinkedBy, CursorOn
  <2>3. IInv' /\ Elements' = Elements
    BY <1>1, <1>2, <1>4, <2>1, <2>2, Walked
  <2>4. LastCall' = LastCall
    BY <1>1 DEF LastCall
  <2>5. QED
    BY <2>3, <2>4 DEF Simulates
<1>5. QED
  BY <1>3, <1>4

(* The inductive invariant holds in every reachable state.                 *)
LEMMA Invariance == Spec => []IInv
<1>1. Init => IInv
  BY InitLinked
<1>2. IInv /\ [Next]_vars => IInv'
  BY StepLinked, Stutter
<1>3. QED
  BY <1>1, <1>2, PTL DEF Spec

(***************************************************************************)
(* The chain from head has exactly length nodes, ends, and together with   *)
(* the node ll_push_back has in hand is all that is allocated: no call of  *)
(* the list functions of structs.c leaks a node, links one that was freed  *)
(* or closes a cycle, for lists of any length over any memory.             *)
(***************************************************************************)
THEOREM ListShape == Spec => []Shape
<1>1. IInv => Shape
  <2>1. SUFFICES ASSUME IInv PROVE Shape
    OBVIOUS
  <2>2. TypeOK
    BY <2>1 DEF IInv
  <2>3. ASSUME NEW p, NEW L \in Nat, NEW s, Chain(next, p, L, s)
        PROVE  Reachable(p) = OnPath(L, s)
    <3>1. /\ DOMAIN After(p) = 0..Cardinality(Nodes)
          /\ \A i \in 0..Cardinality(Nodes) : After(p)[i] = At(L, s, i + 1)
      BY <2>3, AfterFollows
    <3>2. L <= Cardinality(Nodes) /\ Cardinality(Nodes) \in Nat
      BY <2>3, PathLength
    <3>3. s \in [1..L -> Nodes] /\ \A i \in 1..L : s[i] # NULL
      BY <2>3, NodesAssumption DEF Chain
    <3>4. ASSUME NEW x \in Reachable(p) PROVE x \in OnPath(L, s)
      <4>1. PICK i \in 0..Cardinality(Nodes) : x = At(L, s, i + 1) /\ x # NULL
        BY <3>1, <3>4 DEF Reachable
      <4>2. i + 1 \in 1..L /\ x = s[i + 1]
        BY <3>2, <4>1 DEF At
      <4>3. QED
        BY <4>2 DEF OnPath
    <3>5. ASSUME NEW x \in OnPath(L, s) PROVE x \in Reachable(p)
      <4>1. PICK k \in 1..L : x = s[k]
        BY <3>5 DEF OnPath
      <4>2. k - 1 \in 0..Cardinality(Nodes) /\ (k - 1) + 1 = k /\ k <= L
        BY <3>2
      <4>3. x = After(p)[k - 1] /\ x # NULL
        BY <3>1, <3>3, <4>1, <4>2 DEF At
      <4>4. QED
        BY <3>1, <4>2, <4>3 DEF Reachable
    <3>6. QED
      BY <3>4, <3>5
  <2>4. CASE pc = "free"
    <3>1. PICK L \in Nat : \E s \in [1..L -> Nodes] : Chain(next, cur, L, s) /\ alloc = OnPath(L, s)
      BY <2>1, <2>4 DEF IInv, Freeing
    <3>2. alloc = Reachable(cur)
      BY <2>3, <3>1
    <3>3. QED
      BY <2>2, <2>4, <3>2 DEF Shape
  <2>5. CASE pc # "free"
    <3>1. PICK s \in [1..length -> Nodes] : LinkedBy(s)
      BY <2>1, <2>5, PathOf
    <3>2. Chain(next, head, length, s) /\ length \in Nat
      BY <2>2, <3>1, Types DEF LinkedBy
    <3>3. Reachable(head) = OnPath(length, s)
      BY <2>3, <3>2
    <3>4. Cardinality(OnPath(length, s)) = length /\ length <= Cardinality(Nodes) /\ Cardinality(Nodes) \in Nat
      BY <3>2, PathLength
    <3>5. After(head)[length] = NULL
      <4>1. length \in 0..Cardinality(Nodes) /\ ~(length + 1 <= length)
        BY <3>2, <3>4
      <4>2. After(head)[length] = At(length, s, length + 1)
        BY <3>2, <4>1, AfterFollows
      <4>3. QED
        BY <4>1, <4>2 DEF At
    <3>6. alloc = OnPath(length, s) \cup ({n} \ {NULL}) /\ n \notin OnPath(length, s)
      BY <3>1 DEF LinkedBy
    <3>7. QED
      BY <2>2, <2>5, <3>3, <3>4, <3>5, <3>6 DEF Shape
  <2>6. QED
    BY <2>4, <2>5
<1>2. QED
  BY <1>1, Invariance, PTL

(***************************************************************************)
(* Every pointer that a loop of the list functions is about to dereference *)
(* points to an allocated node: nothing is read that ll_free or ll_remove  *)
(* has freed, and what ll_remove unlinks is behind prev.                   *)
(***************************************************************************)
THEOREM CursorsSafe == Spec => []CursorsValid
<1>1. IInv => CursorsValid
  <2>1. SUFFICES ASSUME IInv PROVE CursorsValid
    OBVIOUS
  <2>2. CASE pc = "free"
    <3>1. PICK L \in Nat : \E s \in [1..L -> Nodes] : Chain(next, cur, L, s) /\ alloc = OnPath(L, s)
      BY <2>1, <2>2 DEF IInv, Freeing
    <3>2. PICK s \in [1..L -> Nodes] : Chain(next, cur, L, s) /\ alloc = OnPath(L, s)
      BY <3>1
    <3>3. L > 0 => cur = s[1] /\ 1 \in 1..L
      BY <3>2 DEF Chain
    <3>4. cur \in alloc \cup {NULL}
      BY <3>2, <3>3 DEF Chain, OnPath
    <3>5. QED
      BY <2>2, <3>4 DEF CursorsValid
  <2>3. CASE pc # "free"
    <3>1. PICK s \in [1..length -> Nodes] : LinkedBy(s)
      BY <2>1, <2>3, PathOf
    <3>2. length \in Nat /\ steps \in Nat /\ Chain(next, head, length, s)
      BY <2>1, <3>1 DEF IInv, TypeOK, LinkedBy
    <3>3. \A k \in 1..length : s[k] \in alloc
      BY <3>1 DEF LinkedBy, OnPath
    <3>4. \A k \in 1..length + 1 : At(length, s, k) \in alloc \cup {NULL}
      BY <3>2, <3>3 DEF At
    <3>5. pc = "push_back" => cur \in alloc
      BY <3>1, <3>3 DEF LinkedBy, CursorOn
    <3>6. pc = "get" => cur \in alloc
      <4>1. SUFFICES ASSUME pc = "get" PROVE cur \in alloc
        OBVIOUS
      <4>2. arg \in 0..length - 1 /\ steps <= arg /\ cur = s[steps + 1]
        BY <3>1, <4>1 DEF LinkedBy, CursorOn
      <4>3. steps + 1 \in 1..length
        BY <3>2, <4>2
      <4>4. QED
        BY <3>3, <4>2, <4>3
    <3>7. pc = "contains" => cur \in alloc \cup {NULL}
      BY <3>1, <3>4 DEF LinkedBy, CursorOn
    <3>8. pc = "remove" => cur \in alloc \cup {NULL} /\ prev \in alloc /\ next[prev] = cur
      <4>1. SUFFICES ASSUME pc = "remove"
                     PROVE  cur \in alloc \cup {NULL} /\ prev \in alloc /\ next[prev] = cur
        OBVIOUS
      <4>2. PICK k \in 2..length + 1 : cur = At(length, s, k) /\ prev = s[k - 1]
        BY <3>1, <4>1 DEF LinkedBy, CursorOn
      <4>3. k - 1 \in 1..length /\ k \in 1..length + 1 /\ (k - 1) + 1 = k
        BY <3>2
      <4>4. Leads(next, length, s, k - 1)
        BY <3>2, <4>3, LinkLeads
      <4>5. next[prev] = cur
        BY <4>2, <4>3, <4>4 DEF Leads
      <4>6. QED
        BY <3>3, <3>4, <4>2, <4>3, <4>5
    <3>9. QED
      BY <2>3, <3>5, <3>6, <3>7, <3>8 DEF CursorsValid
  <2>4. QED
    BY <2>2, <2>3
<1>2. QED
  BY <1>1, Invariance, PTL

(***************************************************************************)
(* The list of structs.c is a sequence to its user: every call has the     *)
(* effect and the result that structs.h states, ll_remove takes out the    *)
(* first of several equal values, and ll_contains and ll_get find what was *)
(* pushed, for lists of any length.                                        *)
(***************************************************************************)
THEOREM ListIsSequence == Spec => ImplementsSequence
<1>1. Init => Abstract!Init
  BY InitLinked
<1>2. IInv /\ [Next]_vars => [Abstract!Next]_<<Elements, LastCall>>
  BY StepLinked, Stutter DEF Simulates
<1>3. QED
  BY <1>1, <1>2, Invariance, PTL DEF Spec, ImplementsSequence, Abstract!Spec
=============================================================================
