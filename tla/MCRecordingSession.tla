------------------------- MODULE MCRecordingSession -------------------------
(* RecordingSession for TLC: the bounds are given in the configurations.    *)
EXTENDS RecordingSession
=============================================================================
