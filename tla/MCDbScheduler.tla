--------------------------- MODULE MCDbScheduler ---------------------------
(* DbScheduler instantiated for TLC.                                         *)
EXTENDS DbScheduler, TLC
Symmetry ==
    UNION {Permutations(S) : S \in {JobIds, LogIds, Slots, NamedJobs,
                                    Names \ NamedJobs}}
=============================================================================
