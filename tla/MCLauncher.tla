---------------------------- MODULE MCLauncher -----------------------------
(* Launcher instantiated for TLC.                                            *)
EXTENDS Launcher, TLC
Symmetry == Permutations(Workers) \cup Permutations(Databases)
=============================================================================
