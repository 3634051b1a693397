---------------------------- MODULE MCHandshake ----------------------------
(* Model checking of Handshake: c1 is a client that can succeed, c2 has other *)
(* versions, c3 an invalid logon.                                            *)
EXTENDS Handshake
=============================================================================
