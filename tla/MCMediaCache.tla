---------------------------- MODULE MCMediaCache ----------------------------
(* Files for the run of MediaCache.                                        *)
EXTENDS MediaCache

\* Four files, two of them with the same contents.
Files == 1 .. 4
Hashes == <<1, 2, 1, 3>>
=============================================================================
