--------------------------- MODULE MCLiveTrading ---------------------------
(* Small instances of LiveTrading for TLC. *)
EXTENDS LiveTrading, TLC

CONSTANTS g1, g2, b1

OneGeneric  == {g1}
TwoGenerics == {g1, g2}
OneBasket   == {b1}
NoSymbol    == {}
OnlyLong    == {"long"}
AnySignal   == Dirs

GenericSymmetry == Permutations(Generic)

=============================================================================
