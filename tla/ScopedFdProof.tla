--------------------------- MODULE ScopedFdProof ---------------------------
(***************************************************************************)
(* Theorems about ScopedFd for any number of threads, wrappers and         *)
(* descriptor numbers.  TypeOK and Frames are inductive together (what a   *)
(* move assignment reads through src[t] is an object only because Frames   *)
(* says so); Exclusive and NoLeak are inductive on top of them.            *)
(***************************************************************************)
EXTENDS ScopedFd, FiniteSetTheorems, TLAPS

IInv == TypeOK /\ Frames /\ Exclusive /\ NoLeak

(***************************************************************************)
(* Every operation keeps the wrappers and the frames well formed.          *)
(***************************************************************************)
LEMMA FramesStep == TypeOK /\ Frames /\ [Next]_vars => TypeOK' /\ Frames'
<1> SUFFICES ASSUME TypeOK, Frames, [Next]_vars PROVE TypeOK' /\ Frames'
  OBVIOUS
<1> USE NoObjectAssumption DEF TypeOK, Frames, close
<1>1. ASSUME NEW f \in Fds, OpenRaw(f) \/ CloseRaw(f) PROVE TypeOK' /\ Frames'
  BY <1>1 DEF OpenRaw, CloseRaw
<1>2. ASSUME NEW t \in Threads, DestroyEnd(t) PROVE TypeOK' /\ Frames'
  <2>1. TypeOK'
    BY <1>2 DEF DestroyEnd, Return
  <2>2. self[t] \in Wrappers
    BY <1>2 DEF DestroyEnd
  <2>3. \A u \in Threads \ {t} : self[t] \notin {self[u], src[u]}
    BY <2>2
  <2>4. live' = live \ {self[t]} /\ fd_' = fd_
    BY <1>2 DEF DestroyEnd, Return
  <2>5. /\ pc' = [pc EXCEPT ![t] = "idle"]
        /\ self' = [self EXCEPT ![t] = NoObject]
        /\ src' = [src EXCEPT ![t] = NoObject]
    BY <1>2 DEF DestroyEnd, Return
  <2>6. ASSUME NEW u \in Threads
        PROVE  /\ pc'[u] = "idle" => self'[u] = NoObject
               /\ pc'[u] # "idle" => self'[u] \in live'
               /\ pc'[u] = "stealing" => src'[u] \in live'
               /\ pc'[u] # "stealing" => src'[u] = NoObject
               /\ pc'[u] = "closing" => fd_'[self'[u]] = NoFd
    BY <2>3, <2>4, <2>5
  <2>7. ASSUME NEW u \in Threads, NEW x \in Threads, u # x
        PROVE  /\ self'[u] = self'[x] => self'[u] = NoObject
               /\ self'[u] = src'[x] => self'[u] = NoObject
               /\ src'[u] = src'[x] => src'[u] = NoObject
    BY <2>5, <2>7
  <2>8. QED
    BY <2>1, <2>6, <2>7
<1>3. ASSUME NEW t \in Threads, MoveAssignEnd(t) PROVE TypeOK' /\ Frames'
  <2>1. self[t] \in Wrappers /\ src[t] \in Wrappers
    BY <1>3 DEF MoveAssignEnd
  <2>2. TypeOK'
    BY <1>3, <2>1 DEF MoveAssignEnd, Return, Steal
  <2>3. \A u \in Threads \ {t} : self[u] \notin {self[t], src[t]}
    BY <2>1
  <2>4. Frames'
    BY <1>3, <2>1, <2>3 DEF MoveAssignEnd, Return, Steal
  <2>5. QED
    BY <2>2, <2>4
<1>4. ASSUME NEW t \in Threads, NEW w \in Wrappers, Release(t, w) PROVE TypeOK' /\ Frames'
  BY <1>4 DEF Release, HandOver, valid, InUse
<1>5. ASSUME NEW t \in Threads, NEW w \in Wrappers, Destroy(t, w) PROVE TypeOK' /\ Frames'
  BY <1>5 DEF Destroy, InUse
<1>6. ASSUME NEW t \in Threads, NEW w \in Wrappers, NEW f \in Fds \cup {NoFd},
             Construct(t, w, f)
      PROVE  TypeOK' /\ Frames'
  BY <1>6 DEF Construct
<1>7. ASSUME NEW t \in Threads, NEW w \in Wrappers, NEW v \in Wrappers, MoveConstruct(t, w, v)
      PROVE  TypeOK' /\ Frames'
  BY <1>7 DEF MoveConstruct, Steal
<1>8. ASSUME NEW t \in Threads, NEW w \in Wrappers, NEW v \in Wrappers, MoveAssign(t, w, v)
      PROVE  TypeOK' /\ Frames'
  BY <1>8 DEF MoveAssign, CloseCurrent, InUse
<1>9. CASE UNCHANGED vars
  BY <1>9 DEF vars
<1>10. QED
  BY <1>1, <1>2, <1>3, <1>4, <1>5, <1>6, <1>7, <1>8, <1>9 DEF Next

(***************************************************************************)
(* The state of every ScopedFd and of every operation in progress stays    *)
(* well typed: in particular a wrapper holds a descriptor number or -1.    *)
(***************************************************************************)
THEOREM TypeCorrect == Spec => []TypeOK
<1>1. Init => TypeOK /\ Frames
  BY DEF Init, TypeOK, Frames
<1>2. QED
  BY <1>1, FramesStep, PTL DEF Spec

(***************************************************************************)
(* Single ownership is kept by every operation.                            *)
(***************************************************************************)
LEMMA ExclusiveStep == TypeOK /\ Frames /\ Exclusive /\ [Next]_vars => Exclusive'
<1> SUFFICES ASSUME TypeOK, Frames, Exclusive, [Next]_vars PROVE Exclusive'
  OBVIOUS
<1> USE NoObjectAssumption, FdsAssumption DEF TypeOK, Frames, Exclusive, Owns, Stale, valid, NoFd, close
<1>1. ASSUME NEW f \in Fds, OpenRaw(f) \/ CloseRaw(f) PROVE Exclusive'
  <2>1. \A w \in Wrappers : Owns(w)' <=> Owns(w)
    BY <1>1 DEF OpenRaw, CloseRaw
  <2>2. CASE OpenRaw(f)
    BY <2>1, <2>2 DEF OpenRaw
  <2>3. CASE CloseRaw(f)
    BY <2>1, <2>3 DEF CloseRaw
  <2>4. QED
    BY <1>1, <2>2, <2>3
<1>2. ASSUME NEW t \in Threads, DestroyEnd(t) PROVE Exclusive'
  <2>1. self[t] \in live /\ fd_[self[t]] = NoFd
    BY <1>2 DEF DestroyEnd
  <2>2. \A w \in Wrappers : Owns(w)' <=> Owns(w)
    BY <1>2, <2>1 DEF DestroyEnd, Return
  <2>3. QED
    BY <1>2, <2>2 DEF DestroyEnd, Return
<1>3. ASSUME NEW t \in Threads, MoveAssignEnd(t) PROVE Exclusive'
  <2> SUFFICES ASSUME NEW w \in Wrappers, NEW v \in Wrappers, self[t] = w, src[t] = v
               PROVE  Exclusive'
    BY <1>3 DEF MoveAssignEnd
  <2>1. \A u \in Threads \ {t} : self[u] \notin {w, v}
    OBVIOUS
  <2>2. \A x \in Wrappers \ {w} : Owns(x)' => Owns(x) /\ fd_'[x] = fd_[x] /\ x # v
    BY <1>3 DEF MoveAssignEnd, Return, Steal
  <2>3. Owns(w)' => w # v /\ Owns(v) /\ fd_'[w] = fd_[v]
    BY <1>3, <2>1 DEF MoveAssignEnd, Return, Steal
  <2>4. \A x, y \in Wrappers : Owns(x)' /\ Owns(y)' /\ fd_'[x] = fd_'[y] => x = y
    BY <2>2, <2>3
  <2>5. \A x \in Wrappers : Owns(x)' => fd_'[x] \in (open \ raw)'
    BY <1>3, <2>2, <2>3 DEF MoveAssignEnd
  <2>6. \A u \in Threads, x \in Wrappers :
          pc[u] = "closing" /\ Owns(x)' => fd_'[x] # local[u]
    BY <2>2, <2>3
  <2>7. \A u \in Threads : pc'[u] = "closing" => pc[u] = "closing" /\ local'[u] = local[u]
    BY <1>3 DEF MoveAssignEnd, Return
  <2>8. QED
    BY <1>3, <2>4, <2>5, <2>6, <2>7 DEF MoveAssignEnd
<1>4. ASSUME NEW t \in Threads, NEW w \in Wrappers, Release(t, w) PROVE Exclusive'
  <2>1. ~Owns(w)' /\ \A v \in Wrappers \ {w} : Owns(v)' => Owns(v) /\ fd_'[v] = fd_[v]
    BY <1>4 DEF Release
  <2>2. valid(w) => Owns(w)
    BY <1>4 DEF Release, InUse
  <2>3. (raw \subseteq open)'
    <3>1. valid(w) => fd_[w] \in open
      BY <2>2
    <3>2. open' = open /\ raw' = IF valid(w) THEN raw \cup {fd_[w]} ELSE raw
      BY <1>4 DEF Release, HandOver
    <3>3. QED
      BY <3>1, <3>2
  <2>4. \A v \in Wrappers \ {w} : Owns(v) => fd_[v] \in (open \ raw)'
    BY <1>4, <2>2 DEF Release, HandOver
  <2>5. \A u \in Threads : pc[u] = "closing" => local[u] \in (open \ raw)'
    BY <1>4, <2>2 DEF Release, HandOver
  <2>6. pc' = pc /\ local' = local
    BY <1>4 DEF Release
  <2>7. QED
    BY <2>1, <2>3, <2>4, <2>5, <2>6
<1>5. ASSUME NEW t \in Threads, NEW w \in Wrappers, Destroy(t, w) PROVE Exclusive'
  <2>1. CASE ~valid(w)
    BY <1>5, <2>1 DEF Destroy
  <2>2. CASE valid(w)
    <3>1. Owns(w)
      BY <1>5, <2>2 DEF Destroy, InUse
    <3>2. ~Owns(w)' /\ \A v \in Wrappers \ {w} : Owns(v)' => Owns(v) /\ fd_'[v] = fd_[v]
      BY <1>5, <2>2 DEF Destroy
    <3>3. QED
      BY <1>5, <2>2, <3>1, <3>2, SMTT(30) DEF Destroy
  <2>3. QED
    BY <2>1, <2>2
<1>6. ASSUME NEW t \in Threads, NEW w \in Wrappers, NEW f \in Fds \cup {NoFd},
             Construct(t, w, f)
      PROVE  Exclusive'
  BY <1>6 DEF Construct
<1>7. ASSUME NEW t \in Threads, NEW w \in Wrappers, NEW v \in Wrappers, MoveConstruct(t, w, v)
      PROVE  Exclusive'
  BY <1>7 DEF MoveConstruct, Steal, InUse
<1>8. ASSUME NEW t \in Threads, NEW w \in Wrappers, NEW v \in Wrappers, MoveAssign(t, w, v)
      PROVE  Exclusive'
  BY <1>8 DEF MoveAssign, CloseCurrent, InUse
<1>9. CASE UNCHANGED vars
  BY <1>9 DEF vars
<1>10. QED
  BY <1>1, <1>2, <1>3, <1>4, <1>5, <1>6, <1>7, <1>8, <1>9 DEF Next

(***************************************************************************)
(* No operation loses the only handle on an open descriptor.               *)
(***************************************************************************)
LEMMA NoLeakStep == IInv /\ [Next]_vars => NoLeak'
<1> SUFFICES ASSUME TypeOK, Frames, Exclusive, NoLeak, [Next]_vars PROVE NoLeak'
  BY DEF IInv
<1> USE NoObjectAssumption, FdsAssumption DEF TypeOK, Frames, Exclusive, NoLeak, Owns, Stale, valid, NoFd, close
<1>1. ASSUME NEW f \in Fds, OpenRaw(f) \/ CloseRaw(f) PROVE NoLeak'
  <2>1. \A w \in Wrappers : Owns(w)' <=> Owns(w)
    BY <1>1 DEF OpenRaw, CloseRaw
  <2>2. CASE OpenRaw(f)
    BY <2>1, <2>2 DEF OpenRaw
  <2>3. CASE CloseRaw(f)
    BY <2>1, <2>3 DEF CloseRaw
  <2>4. QED
    BY <1>1, <2>2, <2>3
<1>2. ASSUME NEW t \in Threads, DestroyEnd(t) PROVE NoLeak'
  BY <1>2 DEF DestroyEnd, Return
<1>3. ASSUME NEW t \in Threads, MoveAssignEnd(t) PROVE NoLeak'
  BY <1>3 DEF MoveAssignEnd, Return, Steal
<1>4. ASSUME NEW t \in Threads, NEW w \in Wrappers, Release(t, w) PROVE NoLeak'
  BY <1>4 DEF Release, HandOver, InUse
<1>5. ASSUME NEW t \in Threads, NEW w \in Wrappers, Destroy(t, w) PROVE NoLeak'
  BY <1>5 DEF Destroy, InUse
<1>6. ASSUME NEW t \in Threads, NEW w \in Wrappers, NEW f \in Fds \cup {NoFd},
             Construct(t, w, f)
      PROVE  NoLeak'
  BY <1>6 DEF Construct
<1>7. ASSUME NEW t \in Threads, NEW w \in Wrappers, NEW v \in Wrappers, MoveConstruct(t, w, v)
      PROVE  NoLeak'
  BY <1>7 DEF MoveConstruct, Steal, InUse
<1>8. ASSUME NEW t \in Threads, NEW w \in Wrappers, NEW v \in Wrappers, MoveAssign(t, w, v)
      PROVE  NoLeak'
  <2>1. \A x \in Wrappers \ {w} : Owns(x) => Owns(x)'
    BY <1>8 DEF MoveAssign
  <2>2. \A u \in Threads : pc[u] = "closing" => pc'[u] = "closing"
    BY <1>8 DEF MoveAssign
  <2>3. open' = open \ {fd_[w]}
    BY <1>8 DEF MoveAssign, CloseCurrent
  <2> HIDE DEF Owns
  <2>4. QED
    BY <1>8, <2>1, <2>2, <2>3 DEF MoveAssign
<1>9. CASE UNCHANGED vars
  BY <1>9 DEF vars
<1>10. QED
  BY <1>1, <1>2, <1>3, <1>4, <1>5, <1>6, <1>7, <1>8, <1>9 DEF Next

(***************************************************************************)
(* The whole inductive invariant.                                          *)
(***************************************************************************)
LEMMA Invariance == Spec => []IInv
<1>1. Init => IInv
  BY DEF Init, IInv, TypeOK, Frames, Exclusive, NoLeak, Owns, Stale, valid
<1>2. IInv /\ [Next]_vars => IInv'
  BY FramesStep, ExclusiveStep, NoLeakStep DEF IInv
<1>3. QED
  BY <1>1, <1>2, PTL DEF Spec

(***************************************************************************)
(* No open descriptor ever has two owners, and none that is still owned    *)
(* has been closed: ~ScopedFd and operator= never close twice.             *)
(***************************************************************************)
THEOREM SingleOwner == Spec => []Exclusive
<1>1. IInv => Exclusive
  BY DEF IInv
<1>2. QED
  BY <1>1, Invariance, PTL

(***************************************************************************)
(* Every open descriptor has an owner that will close it.                  *)
(***************************************************************************)
THEOREM LeakFree == Spec => []NoLeak
<1>1. IInv => NoLeak
  BY DEF IInv
<1>2. QED
  BY <1>1, Invariance, PTL

(***************************************************************************)
(* The abstract owner of a descriptor is its one holder.                   *)
(***************************************************************************)
OneHolder ==
  \A f \in Fds :
    IF f \in open
      THEN \E h \in Wrappers \cup Threads \cup {Client} : Holders(f) = {h} /\ OwnerOf(f) = h
      ELSE Holders(f) = {} /\ OwnerOf(f) = "nobody"

(* Every descriptor has at most one holder, so the owner in the abstract   *)
(* specification is well defined.                                          *)
LEMMA HasOneHolder == IInv => OneHolder
<1> SUFFICES ASSUME TypeOK, Frames, Exclusive, NoLeak, NEW f \in Fds
             PROVE  IF f \in open
                      THEN \E h \in Wrappers \cup Threads \cup {Client} :
                             Holders(f) = {h} /\ OwnerOf(f) = h
                      ELSE Holders(f) = {} /\ OwnerOf(f) = "nobody"
  BY DEF IInv, OneHolder
<1>1. CASE f \notin open
  <2>1. Holders(f) = {}
    BY <1>1 DEF Holders, Exclusive
  <2>2. QED
    BY <1>1, <2>1 DEF OwnerOf
<1>2. CASE f \in open
  <2>1. \E h \in Wrappers \cup Threads \cup {Client} : Holders(f) = {h}
    <3>1. CASE f \in raw
      <4>1. Holders(f) = {Client}
        BY <3>1 DEF Holders, Exclusive
      <4>2. QED
        BY <4>1
    <3>2. CASE \E w \in Wrappers : Owns(w) /\ fd_[w] = f
      <4>1. PICK w \in Wrappers : Owns(w) /\ fd_[w] = f
        BY <3>2
      <4>2. Holders(f) = {w}
        BY <4>1 DEF Holders, Exclusive
      <4>3. QED
        BY <4>2
    <3>3. CASE \E t \in Threads : pc[t] = "closing" /\ local[t] = f
      <4>1. PICK t \in Threads : pc[t] = "closing" /\ local[t] = f
        BY <3>3
      <4>2. Holders(f) = {t}
        BY <4>1 DEF Holders, Exclusive
      <4>3. QED
        BY <4>2
    <3>4. QED
      BY <1>2, <3>1, <3>2, <3>3 DEF NoLeak
  <2>2. PICK h \in Wrappers \cup Threads \cup {Client} : Holders(f) = {h}
    BY <2>1
  <2>3. Cardinality(Holders(f)) = 1
    BY <2>2, FS_Singleton
  <2>4. OwnerOf(f) = CHOOSE o \in Holders(f) : TRUE
    BY <1>2, <2>3 DEF OwnerOf
  <2>5. OwnerOf(f) \in Holders(f)
    BY <2>2, <2>4
  <2>6. QED
    BY <1>2, <2>2, <2>5
<1>3. QED
  BY <1>1, <1>2

(***************************************************************************)
(* A step that leaves the holders of every descriptor but f alone is a     *)
(* step of single ownership.                                               *)
(***************************************************************************)
LEMMA OneDescriptor ==
  ASSUME OneHolder, OneHolder', NEW f,
         \A g \in Fds \ {f} : Holders(g)' = Holders(g) /\ (g \in open' <=> g \in open)
  PROVE  [Abstract!Next]_[g \in Fds |-> OwnerOf(g)]
<1> DEFINE owner == [g \in Fds |-> OwnerOf(g)]
<1>1. ASSUME NEW g \in Fds \ {f} PROVE OwnerOf(g)' = OwnerOf(g)
  <2>1. CASE g \in open
    <3>1. PICK h : Holders(g) = {h} /\ OwnerOf(g) = h
      BY <2>1 DEF OneHolder
    <3>2. PICK k : Holders(g)' = {k} /\ OwnerOf(g)' = k
      BY <2>1 DEF OneHolder
    <3>3. QED
      BY <3>1, <3>2
  <2>2. CASE g \notin open
    BY <2>2 DEF OneHolder
  <2>3. QED
    BY <2>1, <2>2
<1>2. owner' = [g \in Fds |-> OwnerOf(g)']
  OBVIOUS
<1>3. CASE f \notin Fds
  <2>1. owner' = owner
    BY <1>1, <1>2, <1>3
  <2>2. QED
    BY <2>1
<1>4. CASE f \in Fds
  <2>1. owner' = [owner EXCEPT ![f] = OwnerOf(f)']
    <3>1. \A g \in Fds : OwnerOf(g)' = IF g = f THEN OwnerOf(f)' ELSE OwnerOf(g)
      BY <1>1
    <3>2. owner' = [g \in Fds |-> IF g = f THEN OwnerOf(f)' ELSE OwnerOf(g)]
      BY <1>2, <3>1
    <3>3. QED
      BY <3>2
  <2>2. owner[f] = OwnerOf(f)
    BY <1>4
  <2> DEFINE Owners == Wrappers \cup Threads \cup {Client}
  <2>3. OwnerOf(f) \in Owners \/ OwnerOf(f) = "nobody"
    BY <1>4 DEF OneHolder
  <2>4. OwnerOf(f)' \in Owners \/ OwnerOf(f)' = "nobody"
    BY <1>4 DEF OneHolder
  <2>5. CASE OwnerOf(f) = "nobody" /\ OwnerOf(f)' = "nobody"
    <3>1. owner' = owner
      BY <2>1, <2>2, <2>5
    <3>2. QED
      BY <3>1
  <2>6. CASE OwnerOf(f) = "nobody" /\ OwnerOf(f)' \in Owners
    <3>1. Abstract!Acquire(f, OwnerOf(f)')
      BY <2>1, <2>2, <2>6 DEF Abstract!Acquire
    <3>2. QED
      BY <1>4, <2>6, <3>1 DEF Abstract!Next
  <2>7. CASE OwnerOf(f) \in Owners /\ OwnerOf(f)' = "nobody"
    <3>1. Abstract!Dispose(f)
      BY <2>1, <2>2, <2>7 DEF Abstract!Dispose
    <3>2. QED
      BY <1>4, <3>1 DEF Abstract!Next
  <2>8. CASE OwnerOf(f) \in Owners /\ OwnerOf(f)' \in Owners
    <3>1. Abstract!Transfer(f, OwnerOf(f)')
      BY <2>1, <2>2, <2>8 DEF Abstract!Transfer
    <3>2. QED
      BY <1>4, <2>8, <3>1 DEF Abstract!Next
  <2>9. QED
    BY <2>3, <2>4, <2>5, <2>6, <2>7, <2>8
<1>5. QED
  BY <1>3, <1>4

(***************************************************************************)
(* Every operation touches the ownership of one descriptor at most.        *)
(***************************************************************************)
LEMMA OwnershipStep ==
  ASSUME IInv, Next
  PROVE  \E f : \A g \in Fds \ {f} : Holders(g)' = Holders(g) /\ (g \in open' <=> g \in open)
<1> DEFINE Same(g) ==
      /\ g \in raw' <=> g \in raw
      /\ \A w \in Wrappers : Owns(w)' /\ fd_'[w] = g <=> Owns(w) /\ fd_[w] = g
      /\ \A t \in Threads : pc'[t] = "closing" /\ local'[t] = g <=> pc[t] = "closing" /\ local[t] = g
      /\ g \in open' <=> g \in open
<1>a. SUFFICES \E f : \A g \in Fds \ {f} : Same(g)
  <2>1. ASSUME NEW g, Same(g) PROVE Holders(g)' = Holders(g)
    BY <2>1 DEF Holders
  <2>2. QED
    BY <2>1
<1>b. TypeOK /\ Frames
  BY DEF IInv
<1>c. \A g \in Fds : g # NoFd
  BY FdsAssumption DEF NoFd
<1> USE NoObjectAssumption DEF TypeOK, Frames, Owns, Stale, valid, close
<1>1. ASSUME NEW f \in Fds, OpenRaw(f) \/ CloseRaw(f) PROVE \A g \in Fds \ {f} : Same(g)
  BY <1>1 DEF OpenRaw, CloseRaw
<1>2. ASSUME NEW t \in Threads, DestroyEnd(t) PROVE \A g \in Fds \ {local[t]} : Same(g)
  BY <1>2, <1>b, <1>c DEF DestroyEnd, Return
<1>3. ASSUME NEW t \in Threads, MoveAssignEnd(t) PROVE \A g \in Fds \ {fd_[src[t]]} : Same(g)
  BY <1>3, <1>b, <1>c DEF MoveAssignEnd, Return, Steal
<1>4. ASSUME NEW t \in Threads, NEW w \in Wrappers, Release(t, w)
      PROVE  \A g \in Fds \ {fd_[w]} : Same(g)
  BY <1>4, <1>b, <1>c DEF Release, HandOver
<1>5. ASSUME NEW t \in Threads, NEW w \in Wrappers, Destroy(t, w)
      PROVE  \A g \in Fds \ {fd_[w]} : Same(g)
  BY <1>5, <1>b, <1>c DEF Destroy
<1>6. ASSUME NEW t \in Threads, NEW w \in Wrappers, NEW f \in Fds \cup {NoFd}, Construct(t, w, f)
      PROVE  \A g \in Fds \ {f} : Same(g)
  BY <1>6, <1>b, <1>c DEF Construct
<1>7. ASSUME NEW t \in Threads, NEW w \in Wrappers, NEW v \in Wrappers, MoveConstruct(t, w, v)
      PROVE  \A g \in Fds \ {fd_[v]} : Same(g)
  BY <1>7, <1>b, <1>c DEF MoveConstruct, Steal
<1>8. ASSUME NEW t \in Threads, NEW w \in Wrappers, NEW v \in Wrappers, MoveAssign(t, w, v)
      PROVE  \A g \in Fds \ {fd_[w]} : Same(g)
  BY <1>8, <1>b, <1>c DEF MoveAssign, CloseCurrent
<1>9. QED
  BY <1>1, <1>2, <1>3, <1>4, <1>5, <1>6, <1>7, <1>8 DEF Next

(***************************************************************************)
(* ScopedFd implements single ownership for any number of threads: each    *)
(* step acquires, hands over or closes one descriptor at most, and only    *)
(* its one owner closes it, whichever number open() reuses between the two *)
(* halves of a destructor or a move assignment.                            *)
(***************************************************************************)
THEOREM OwnershipRefined == Spec => ImplementsOwnership
<1>1. Init => Abstract!Init
  BY DEF Init, Abstract!Init, OwnerOf, Holders, Owns, valid
<1>2. IInv' => OneHolder'
  BY HasOneHolder, PTL
<1>3. IInv /\ IInv' /\ [Next]_vars => [Abstract!Next]_[f \in Fds |-> OwnerOf(f)]
  <2>1. SUFFICES ASSUME IInv, IInv', [Next]_vars
                 PROVE  [Abstract!Next]_[f \in Fds |-> OwnerOf(f)]
    OBVIOUS
  <2>2. CASE Next
    <3>1. PICK f : \A g \in Fds \ {f} : Holders(g)' = Holders(g) /\ (g \in open' <=> g \in open)
      BY <2>1, <2>2, OwnershipStep
    <3>2. QED
      BY <2>1, <3>1, <1>2, HasOneHolder, OneDescriptor
  <2>3. CASE UNCHANGED vars
    BY <2>3 DEF vars, OwnerOf, Holders, Owns, valid, Stale
  <2>4. QED
    BY <2>1, <2>2, <2>3
<1>4. QED
  BY <1>1, <1>3, Invariance, PTL DEF Spec, ImplementsOwnership, Abstract!Spec
============================================================================
