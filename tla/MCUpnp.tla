------------------------------ MODULE MCUpnp ------------------------------
(* Model values for the runs of Upnp.                                      *)
EXTENDS Upnp

CONSTANTS r1, r2, r3, p1, p2

ThreeRequests == {r1, r2, r3}
PathOf == [r \in Requests |-> IF r = r3 THEN p2 ELSE p1]
=============================================================================
