----------------------------- MODULE ScopeGuard -----------------------------
(***************************************************************************)
(* ScopeGuard, 02-modern-cpp/exercises/ex1-raii-ownership/ownership.hpp,   *)
(* in a program that enters and leaves nested scopes, each with a guard,   *)
(* normally or by an exception.  The language destroys the guards from the *)
(* innermost scope outwards.  A cleanup that throws leaves a destructor,   *)
(* which is noexcept: std::terminate ends the program.                     *)
(***************************************************************************)
EXTENDS Naturals, Sequences, FiniteSets

CONSTANT MaxGuards \* bound on the guards ever constructed

ASSUME GuardsAssumption == MaxGuards \in Nat

VARIABLES
  guards,    \* the living guards, outermost first
  flow,      \* "normal", "unwinding" or "terminated"
  ran,       \* history: the guards whose cleanup was called, in order
  dismissed, \* history: the guards that were dismissed
  born       \* history: guards constructed so far

guardVars == <<guards, flow, ran, dismissed, born>>

GuardInit == guards = <<>> /\ flow = "normal" /\ ran = <<>> /\ dismissed = {} /\ born = 0

(* make_scope_guard: the guard is constructed in place, active.            *)
MakeGuard ==
  /\ flow = "normal"
  /\ born < MaxGuards
  /\ guards' = Append(guards, [id |-> born + 1, active_ |-> TRUE])
  /\ born' = born + 1
  /\ UNCHANGED <<flow, ran, dismissed>>

dismiss(j) ==
  /\ flow = "normal"
  /\ guards' = [guards EXCEPT ![j].active_ = FALSE]
  /\ dismissed' = dismissed \cup {guards[j].id}
  /\ UNCHANGED <<flow, ran, born>>

\* Mutant of Runs: the destructor does not look at active_.
RunsAlways(g) == TRUE

Runs(g) == g.active_

(* ~ScopeGuard of the innermost guard, at the end of its scope or while the
   stack is unwound.                                                       *)
DestroyGuard ==
  /\ flow # "terminated"
  /\ guards # <<>>
  /\ LET g == guards[Len(guards)]
     IN  /\ ran' = IF Runs(g) THEN Append(ran, g.id) ELSE ran
         /\ guards' = SubSeq(guards, 1, Len(guards) - 1)
         /\ flow' \in {flow} \cup (IF Runs(g) THEN {"terminated"} ELSE {})
  /\ UNCHANGED <<dismissed, born>>

(* An exception is thrown, and caught in some scope further out.           *)
Throw == flow = "normal" /\ flow' = "unwinding" /\ UNCHANGED <<guards, ran, dismissed, born>>

Catch == flow = "unwinding" /\ flow' = "normal" /\ UNCHANGED <<guards, ran, dismissed, born>>

Terminated == flow = "terminated" /\ UNCHANGED guardVars

GuardNext ==
  \/ MakeGuard \/ DestroyGuard \/ Throw \/ Catch \/ Terminated
  \/ \E j \in DOMAIN guards : dismiss(j)

GuardSpec == GuardInit /\ [][GuardNext]_guardVars

-----------------------------------------------------------------------------
(***************************************************************************)
(* A cleanup is called exactly once when its guard goes out of scope,      *)
(* unless the guard was dismissed, then never; not before that, and not    *)
(* again after any number of exceptions and nested scopes ("dismiss() sets *)
(* active_ = false so the cleanup is skipped.").                           *)
(***************************************************************************)
CleanupOnce ==
  LET gone == (1..born) \ {guards[j].id : j \in DOMAIN guards}
      called(g) == Cardinality({j \in DOMAIN ran : ran[j] = g})
  IN  \A g \in 1..born : called(g) = IF g \in gone \ dismissed THEN 1 ELSE 0
=============================================================================
