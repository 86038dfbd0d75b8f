------------------------------ MODULE Symbols -------------------------------
(***************************************************************************)
(* The symbol table of 02-modern-cpp/exercises/ex2-type-safe-primitives/   *)
(* primitives.hpp.  A name is the sequence of its characters, the end of   *)
(* the sequence being the terminating 0.                                   *)
(***************************************************************************)
EXTENDS Integers, SequencesExt

CONSTANTS
  SYMBOL_TABLE, \* the names, in the order of the table; ids count from 0
  Letters,      \* characters of names
  MaxNameLen    \* largest length of the names looked up

ASSUME TableAssumption == /\ SYMBOL_TABLE \in Seq(Seq(Letters) \ {<<>>})
                          /\ IsInjective(SYMBOL_TABLE)
ASSUME NameAssumption == MaxNameLen \in Nat

VARIABLES
  name, \* the argument of the last call
  id    \* its result

symbolVars == <<name, id>>

(* Iterations of the while loop: both strings go on and agree.             *)
Matched(ticker, rest) ==
  Max({k \in 0..Min({Len(ticker), Len(rest)}) : SubSeq(ticker, 1, k) = SubSeq(rest, 1, k)})

\* Mutant of Rewound: the pointer is not set back for the next entry.
RewoundNot(at) == at

(* name = start                                                            *)
Rewound(at) == 0

(* An entry of the table; at is how far the pointer name has been advanced. *)
Compare(found, ticker, row, s) ==
  LET rest == SubSeq(s, found.at + 1, Len(s))
      k    == Matched(ticker, rest)
  IN  [at |-> Rewound(found.at + k),
       id |-> IF k = Len(ticker) /\ k = Len(rest) THEN row - 1 ELSE -1]

symbol_id(s) ==
  LET Scan[row \in 0..Len(SYMBOL_TABLE)] ==
        IF row = 0 THEN [at |-> 0, id |-> -1]
        ELSE IF Scan[row - 1].id # -1 THEN Scan[row - 1]
        ELSE Compare(Scan[row - 1], SYMBOL_TABLE[row], row, s)
  IN  Scan[Len(SYMBOL_TABLE)].id

SymbolInit == name = <<>> /\ id = -1

Lookup ==
  /\ \E n \in BoundedSeq(Letters, MaxNameLen) : name' = n
  /\ id' = symbol_id(name')

SymbolSpec == SymbolInit /\ [][Lookup]_symbolVars

-----------------------------------------------------------------------------
(***************************************************************************)
(* symbol_id "returns the id, or -1 if unknown": a name that is the        *)
(* beginning of an entry, continues one or shares its first characters     *)
(* with several is unknown, wherever the comparison before it stopped.     *)
(***************************************************************************)
SymbolIdExact ==
  id = IF \E row \in DOMAIN SYMBOL_TABLE : SYMBOL_TABLE[row] = name
       THEN (CHOOSE row \in DOMAIN SYMBOL_TABLE : SYMBOL_TABLE[row] = name) - 1
       ELSE -1
=============================================================================
