-------------------------- MODULE MCStreamDiscovery --------------------------
(* Model checking of StreamFiles and StreamDiscovery, with queues of different *)
(* event types.                                                                *)
EXTENDS StreamDiscovery

MCTypeOf ==
    CHOOSE f \in [Queue -> Type] : \A t \in Type : \E q \in Queue : f[q] = t
=============================================================================
