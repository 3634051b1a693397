------------------------ MODULE MCStreamPolicyManager ------------------------
(* Model checking of StreamPolicyManager.                                   *)
EXTENDS StreamPolicyManager, TLC

Symmetry == Permutations(Stream) \cup Permutations(ManagedName)
=============================================================================
