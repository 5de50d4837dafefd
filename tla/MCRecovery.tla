----------------------------- MODULE MCRecovery -----------------------------
(* Small instances of Recovery for TLC. *)
EXTENDS Recovery, TLC

CONSTANTS s1, s2

OneSymbol  == {s1}
TwoSymbols == {s1, s2}

SymbolSymmetry == Permutations(Symbols)

=============================================================================
