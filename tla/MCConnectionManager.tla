----------------------- MODULE MCConnectionManager -----------------------
(* Model values for the run of ConnectionManager.                          *)
EXTENDS ConnectionManager

CONSTANTS c1, c2, k1, k2
=============================================================================
