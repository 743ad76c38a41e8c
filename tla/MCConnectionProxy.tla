------------------------- MODULE MCConnectionProxy -------------------------
(* Model values for the runs of ConnectionProxy.                           *)
EXTENDS ConnectionProxy

CONSTANTS r1, r2
=============================================================================
