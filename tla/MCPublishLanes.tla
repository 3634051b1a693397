---------------------------- MODULE MCPublishLanes ----------------------------
(* Model checking of PublishLanes with rings of two cells, so that they wrap  *)
(* and fill up.                                                              *)
EXTENDS PublishLanes, TLC

Symmetry == Permutations(LanePublisher) \cup Permutations(Subscriber)
=============================================================================
