------------------------- MODULE MCReleaseLedger -------------------------
(* ReleaseLedger with runs that differ in nothing but their names.         *)
EXTENDS ReleaseLedger, TLC

Symmetry == Permutations(Runs)

=============================================================================
