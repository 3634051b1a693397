------------------------ MODULE MCEventSystemLifetime ------------------------
(* Model checking of EventSystemLifetime: event systems that follow each      *)
(* other, or compete, at one path, with streams of the same name.             *)
EXTENDS EventSystemLifetime, TLC

Symmetry == Permutations(System) \cup Permutations(Stream)
=============================================================================
