-------------------------- MODULE MCSessionLayout --------------------------
(* Model checking of SessionLayout with 6-bit sizes and 4-bit counts.       *)
EXTENDS SessionLayout

\* All counts at and beyond their limits, with one queue at a time whose
\* capacity, or the allocator whose size, is at and beyond what can be
\* represented.
MCLogon ==
    {[worker_count |-> w, check_worker_count |-> c, simulate_worker_count |-> s,
      allocator_size |-> a, allocator_handles |-> h,
      queue |-> [q \in Queues |-> IF q = big THEN n ELSE 1]] :
        w \in {0, 1, 3, 4}, c \in {0, 1, 3, 4}, s \in {0, 1, 3, 4}, a \in {28, 29, 62},
        h \in {0, 1, 4, 5, 12, 15}, big \in Queues, n \in {1, 8, 9, 20}}
=============================================================================
