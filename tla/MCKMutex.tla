------------------------------ MODULE MCKMutex ------------------------------
(* KMutex for TLC: contexts and CPUs are interchangeable, or each context has a CPU of its own. *)
EXTENDS KMutex, TLC

CONSTANTS c1, c2, c3, k1, k2, k3

AnyCPU == Contexts \X CPUs
Pinned == {<<c1, k1>>, <<c2, k2>>, <<c3, k3>>}
Symm == Permutations(Contexts) \cup Permutations(CPUs)
=============================================================================
