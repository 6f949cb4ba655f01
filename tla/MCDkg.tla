-------------------------------- MODULE MCDkg --------------------------------
(* Instances of Dkg for TLC; the constants are set in the .cfg files.       *)
EXTENDS Dkg, TLC

\* The calls are interchangeable.
Symmetry == Permutations(Calls)
=============================================================================
