--------------------------- MODULE MCMessageLoop ---------------------------
(* Model values for the runs of MessageLoop.                               *)
EXTENDS MessageLoop

CONSTANTS r1, r2, t1, t2, t3

OneRef  == {r1}
TwoRefs == {r1, r2}
AllTimers == {t1, t2, t3}
JustSingleShot == {t2}
JustForeign == {t3}
NoTimer == {}
=============================================================================
