---------------------------- MODULE MCStreamPolicy ----------------------------
(* Model checking of StreamPolicy: nested prefixes of three lengths, two of  *)
(* one length, and names that match none, some and all of a chain.           *)
EXTENDS StreamPolicy

MCPrefix == {<<>>, <<1>>, <<2>>, <<1, 2>>, <<1, 1>>}
MCStreamName == {<<1>>, <<2>>, <<3>>, <<1, 2>>, <<1, 1, 2>>, <<1, 2, 3>>, <<2, 1>>}
=============================================================================
