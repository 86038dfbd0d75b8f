----------------------------- MODULE MCCppParts -----------------------------
(***************************************************************************)
(* The instance for TLC of the single-threaded C++ parts that share no     *)
(* state: one part is chosen and runs, the others stay as they are.        *)
(***************************************************************************)
EXTENDS PoolAllocator, UniqueBuffer, ScopeGuard, Symbols, BenchStats, ContainerBench

VARIABLE part

allVars == <<part, vars, uniqueVars, guardVars, symbolVars, statVars, benchVars>>

MCSizes == 0..2
MCTable == << <<"A", "P">>, <<"M", "S">>, <<"G", "P", "S">>, <<"A", "M">>, <<"M">> >>

PartsInit ==
  /\ part \in {"pool", "unique", "guards", "symbols", "stats", "bench"}
  /\ Init /\ UniqueInit /\ GuardInit /\ SymbolInit /\ StatInit /\ BenchInit

PartsNext ==
  \/ part = "pool" /\ Next
     /\ UNCHANGED <<part, uniqueVars, guardVars, symbolVars, statVars, benchVars>>
  \/ part = "unique" /\ UniqueNext
     /\ UNCHANGED <<part, vars, guardVars, symbolVars, statVars, benchVars>>
  \/ part = "guards" /\ GuardNext
     /\ UNCHANGED <<part, vars, uniqueVars, symbolVars, statVars, benchVars>>
  \/ part = "symbols" /\ Lookup
     /\ UNCHANGED <<part, vars, uniqueVars, guardVars, statVars, benchVars>>
  \/ part = "stats" /\ StatNext
     /\ UNCHANGED <<part, vars, uniqueVars, guardVars, symbolVars, benchVars>>
  \/ part = "bench" /\ BenchNext
     /\ UNCHANGED <<part, vars, uniqueVars, guardVars, symbolVars, statVars>>

PartsSpec == PartsInit /\ [][PartsNext]_allVars
=============================================================================
