------------------------ MODULE MCProviderAdmission ------------------------
(* Three executions share a provider; they are interchangeable. *)
EXTENDS ProviderAdmission, TLC

Symmetry == Permutations(Sessions)
=============================================================================
