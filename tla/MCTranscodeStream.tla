------------------------- MODULE MCTranscodeStream -------------------------
(* The run of TranscodeStream: its constants are numbers.                  *)
EXTENDS TranscodeStream
=============================================================================
