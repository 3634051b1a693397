---------------------------- MODULE MCEventStream ----------------------------
(* Model checking of EventStream; without symmetry, since the run has a     *)
(* liveness property.                                                       *)
EXTENDS EventStream
=============================================================================
