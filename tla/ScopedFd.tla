------------------------------ MODULE ScopedFd ------------------------------
(***************************************************************************)
(* ScopedFd, the RAII wrapper of 02-modern-cpp/exercises/                  *)
(* ex1-raii-ownership/ownership.hpp, used by the threads of one process.   *)
(*                                                                         *)
(* The descriptor table belongs to the process: while one thread is inside *)
(* a destructor or a move assignment, another one may open a file and be   *)
(* given the very number that has just been closed.  The two operations    *)
(* that call close() are therefore split at that call; the others touch    *)
(* only objects their caller owns and are single steps.                    *)
(*                                                                         *)
(* Client contract: an object is used by one thread at a time, and a       *)
(* wrapper is constructed from a descriptor the client is responsible for  *)
(* (just opened, or released by another wrapper), or from the -1 of a      *)
(* failed open().                                                          *)
(***************************************************************************)
EXTENDS Integers, FiniteSets

CONSTANTS
  Fds,      \* descriptor numbers the kernel may hand out
  Wrappers, \* storage for ScopedFd objects
  Threads,  \* threads of the process
  Client,   \* stands for the code that holds raw descriptors
  NoObject  \* no operation in progress

ASSUME FdsAssumption == Fds \subseteq Nat

ASSUME NoObjectAssumption == NoObject \notin Wrappers

VARIABLES
  open,  \* descriptors open in the kernel's table
  raw,   \* open descriptors the client itself has to close
  live,  \* wrappers whose lifetime has begun and not ended
  fd_,   \* the member of each wrapper
  pc,    \* where each thread is inside a ScopedFd operation
  self,  \* the object that operation runs on
  src,   \* the right-hand side of the move assignment in progress
  local  \* the destructor's local variable fd

vars == <<open, raw, live, fd_, pc, self, src, local>>

NoFd == -1

valid(w) == fd_[w] # NoFd

(* close(f): the number is free for the next open().  A number that is not
   open is answered with EBADF and changes nothing.                        *)
close(f) == open' = open \ {f}

InUse(w) ==
  \E t \in Threads : w \in {self[t], src[t]}

Init ==
  /\ open = {}
  /\ raw = {}
  /\ live = {}
  /\ fd_ = [w \in Wrappers |-> NoFd]
  /\ pc = [t \in Threads |-> "idle"]
  /\ self = [t \in Threads |-> NoObject]
  /\ src = [t \in Threads |-> NoObject]
  /\ local = [t \in Threads |-> NoFd]

\* Mutants of Steal: the source is left at 0 instead of -1; the two
\* assignments are made in the other order.
StealLeavesZero(w, v) == [fd_ EXCEPT ![w] = fd_[v], ![v] = 0]

StealSwapped(w, v) == [fd_ EXCEPT ![v] = NoFd, ![w] = fd_[v]]

(* Both moves: this->fd_ = other.fd_; other.fd_ = -1.  With w = v the
   wrapper ends up empty.                                                  *)
Steal(w, v) == [fd_ EXCEPT ![w] = fd_[v], ![v] = NoFd]

\* Mutant of CloseCurrent: the target's own descriptor is forgotten.
CloseNothing(w) == UNCHANGED open

(* What a move assignment does to the descriptor of its target.            *)
CloseCurrent(w) == IF valid(w) THEN close(fd_[w]) ELSE UNCHANGED open

\* Mutant of HandOver: the close() that release() has commented out.
HandOverClosed(w) ==
  /\ raw' = IF valid(w) THEN raw \cup {fd_[w]} ELSE raw
  /\ close(fd_[w])

(* release() makes its caller responsible for what it returns and leaves
   the kernel's table alone.                                               *)
HandOver(w) ==
  /\ raw' = IF valid(w) THEN raw \cup {fd_[w]} ELSE raw
  /\ UNCHANGED open

(* The operation thread t is in returns: its frame disappears.             *)
Return(t) ==
  /\ pc' = [pc EXCEPT ![t] = "idle"]
  /\ self' = [self EXCEPT ![t] = NoObject]
  /\ src' = [src EXCEPT ![t] = NoObject]
  /\ local' = [local EXCEPT ![t] = NoFd]

(***************************************************************************)
(* The client: open() and close() on raw descriptors.                      *)
(***************************************************************************)
OpenRaw(f) ==
  /\ f \notin open
  /\ open' = open \cup {f}
  /\ raw' = raw \cup {f}
  /\ UNCHANGED <<live, fd_, pc, self, src, local>>

CloseRaw(f) ==
  /\ f \in raw
  /\ close(f)
  /\ raw' = raw \ {f}
  /\ UNCHANGED <<live, fd_, pc, self, src, local>>

(***************************************************************************)
(* Construction, move construction and release(): one step each.           *)
(***************************************************************************)
Construct(t, w, f) ==
  /\ pc[t] = "idle"
  /\ w \notin live
  /\ f \in raw \cup {NoFd}
  /\ fd_' = [fd_ EXCEPT ![w] = f]
  /\ raw' = raw \ {f}
  /\ live' = live \cup {w}
  /\ UNCHANGED <<open, pc, self, src, local>>

MoveConstruct(t, w, v) ==
  /\ pc[t] = "idle"
  /\ w \notin live
  /\ v \in live
  /\ ~InUse(v)
  /\ fd_' = Steal(w, v)
  /\ live' = live \cup {w}
  /\ UNCHANGED <<open, raw, pc, self, src, local>>

Release(t, w) ==
  /\ pc[t] = "idle"
  /\ w \in live
  /\ ~InUse(w)
  /\ HandOver(w)
  /\ fd_' = [fd_ EXCEPT ![w] = NoFd]
  /\ UNCHANGED <<live, pc, self, src, local>>

(***************************************************************************)
(* ~ScopedFd: a valid wrapper is released into the local variable first,   *)
(* the local variable is closed second.                                    *)
(***************************************************************************)
Destroy(t, w) ==
  /\ pc[t] = "idle"
  /\ w \in live
  /\ ~InUse(w)
  /\ IF valid(w)
       THEN /\ local' = [local EXCEPT ![t] = fd_[w]]
            /\ fd_' = [fd_ EXCEPT ![w] = NoFd]
            /\ pc' = [pc EXCEPT ![t] = "closing"]
            /\ self' = [self EXCEPT ![t] = w]
            /\ UNCHANGED live
       ELSE /\ live' = live \ {w}
            /\ UNCHANGED <<local, fd_, pc, self>>
  /\ UNCHANGED <<open, raw, src>>

DestroyEnd(t) ==
  /\ pc[t] = "closing"
  /\ close(local[t])
  /\ live' = live \ {self[t]}
  /\ Return(t)
  /\ UNCHANGED <<raw, fd_>>

(***************************************************************************)
(* operator=(ScopedFd&&): the current descriptor is closed first, the      *)
(* source's number is stolen second.  Nothing excludes w = v.              *)
(***************************************************************************)
MoveAssign(t, w, v) ==
  /\ pc[t] = "idle"
  /\ {w, v} \subseteq live
  /\ ~InUse(w) /\ ~InUse(v)
  /\ CloseCurrent(w)
  /\ pc' = [pc EXCEPT ![t] = "stealing"]
  /\ self' = [self EXCEPT ![t] = w]
  /\ src' = [src EXCEPT ![t] = v]
  /\ UNCHANGED <<raw, live, fd_, local>>

MoveAssignEnd(t) ==
  /\ pc[t] = "stealing"
  /\ fd_' = Steal(self[t], src[t])
  /\ Return(t)
  /\ UNCHANGED <<open, raw, live>>

Next ==
  \/ \E f \in Fds : OpenRaw(f) \/ CloseRaw(f)
  \/ \E t \in Threads :
       \/ DestroyEnd(t)
       \/ MoveAssignEnd(t)
       \/ \E w \in Wrappers :
            \/ Release(t, w)
            \/ Destroy(t, w)
            \/ \E f \in Fds \cup {NoFd} : Construct(t, w, f)
            \/ \E v \in Wrappers : MoveConstruct(t, w, v) \/ MoveAssign(t, w, v)

Spec == Init /\ [][Next]_vars

----------------------------------------------------------------------------
TypeOK ==
  /\ open \subseteq Fds
  /\ raw \subseteq Fds
  /\ live \subseteq Wrappers
  /\ fd_ \in [Wrappers -> Fds \cup {NoFd}]
  /\ pc \in [Threads -> {"idle", "closing", "stealing"}]
  /\ self \in [Threads -> Wrappers \cup {NoObject}]
  /\ src \in [Threads -> Wrappers \cup {NoObject}]
  /\ local \in [Threads -> Fds \cup {NoFd}]

(* In the middle of a move assignment the target still shows the number it
   has just closed: that number is no longer its descriptor.               *)
Stale(w) == \E t \in Threads : pc[t] = "stealing" /\ self[t] = w

Owns(w) == w \in live /\ valid(w) /\ ~Stale(w)

(* What the frames of the running operations refer to: objects that are
   alive, and none that another thread works on (the client contract).     *)
Frames ==
  /\ \A t \in Threads :
       /\ pc[t] = "idle" => self[t] = NoObject
       /\ pc[t] # "idle" => self[t] \in live
       /\ pc[t] = "stealing" => src[t] \in live
       /\ pc[t] # "stealing" => src[t] = NoObject
       /\ pc[t] = "closing" => fd_[self[t]] = NoFd
  /\ \A t, u \in Threads : t # u =>
       /\ self[t] = self[u] => self[t] = NoObject
       /\ self[t] = src[u] => self[t] = NoObject
       /\ src[t] = src[u] => src[t] = NoObject

(***************************************************************************)
(* No descriptor has two owners, and whatever a wrapper, a running         *)
(* destructor or the client still has to close is open: so close() is      *)
(* never called twice for one open() (EBADF, or somebody else's file), in  *)
(* whatever order the threads run and whichever numbers the kernel reuses. *)
(***************************************************************************)
Exclusive ==
  /\ raw \subseteq open
  /\ \A w \in Wrappers : Owns(w) => fd_[w] \in open \ raw
  /\ \A w, v \in Wrappers : Owns(w) /\ Owns(v) /\ fd_[w] = fd_[v] => w = v
  /\ \A t \in Threads : pc[t] = "closing" =>
       /\ local[t] \in open \ raw
       /\ \A w \in Wrappers : Owns(w) => fd_[w] # local[t]
       /\ \A u \in Threads \ {t} : pc[u] = "closing" => local[u] # local[t]

(***************************************************************************)
(* No descriptor leaks: an open one is held by the client, by a wrapper,   *)
(* or by a destructor that is about to close it ("any resources it         *)
(* possessed have also been properly cleaned up", README.md of the         *)
(* exercise).                                                              *)
(***************************************************************************)
NoLeak ==
  \A f \in open :
    \/ f \in raw
    \/ \E w \in Wrappers : Owns(w) /\ fd_[w] = f
    \/ \E t \in Threads : pc[t] = "closing" /\ local[t] = f

(***************************************************************************)
(* Refinement.  The owner of f, with the three ways of having none or too  *)
(* many mapped outside of the abstract owners.                             *)
(***************************************************************************)
Holders(f) ==
  (IF f \in raw THEN {Client} ELSE {})
    \cup {w \in Wrappers : Owns(w) /\ fd_[w] = f}
    \cup {t \in Threads : pc[t] = "closing" /\ local[t] = f}

OwnerOf(f) ==
  IF f \notin open THEN IF Holders(f) = {} THEN "nobody" ELSE "dangling"
  ELSE IF Cardinality(Holders(f)) = 1
         THEN CHOOSE o \in Holders(f) : TRUE
         ELSE "leaked or shared"

Abstract ==
  INSTANCE Ownership WITH
    Resources <- Fds,
    Owners <- Wrappers \cup Threads \cup {Client},
    Nobody <- "nobody",
    owner <- [f \in Fds |-> OwnerOf(f)]

(***************************************************************************)
(* ScopedFd implements single ownership: every step acquires, hands over   *)
(* or closes at most one descriptor, and only its owner closes it.         *)
(***************************************************************************)
ImplementsOwnership == Abstract!Spec
=============================================================================
