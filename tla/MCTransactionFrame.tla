-------------------------- MODULE MCTransactionFrame --------------------------
(* Model checking of TransactionFrame with bytes of two bits and fixed-size *)
(* items of one byte, so that v0 messages with instructions and lookups fit,  *)
(* and a u16 smaller than the longest buffer, so that offsets may not fit.    *)
EXTENDS TransactionFrame
=============================================================================
