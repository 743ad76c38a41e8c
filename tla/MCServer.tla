------------------------------ MODULE MCServer ------------------------------
(* The run of Server: its constants are numbers.                           *)
EXTENDS Server
=============================================================================
