----------------------------- MODULE MCBgWorker -----------------------------
(* Instances of BgWorker.                                                    *)
EXTENDS BgWorker, TLC

Symmetry == Permutations(Slots)
=============================================================================
