---------------------------- MODULE MCSanitizedView ----------------------------
(* Model checking of SanitizedView with u8 of two and u16 of three bits, so   *)
(* that every count can wrap; messages around the size limit; a plain, a      *)
(* reserved and the loader's key.                                             *)
EXTENDS SanitizedView

MCLookup ==
    {[writable |-> 0, readonly |-> 0], [writable |-> 1, readonly |-> 0],
     [writable |-> 0, readonly |-> 1], [writable |-> 3, readonly |-> 1]}
=============================================================================
