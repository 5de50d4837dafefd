---------------------------- MODULE MCMakerEntry ----------------------------
(* Small instances of MakerEntry for TLC. *)
EXTENDS MakerEntry

=============================================================================
