------------------------------ MODULE MCLWLock ------------------------------
(* LWLock instantiated for TLC.                                              *)
EXTENDS LWLock, TLC
AllCalls == Call
FewCalls == {c \in Call : /\ c.mode = "S" => c.kind = "acquire"
                          /\ c.kind # "conditional" /\ c.old = 0}
Symmetry == Permutations(Procs)
=============================================================================
