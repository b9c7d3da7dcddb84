---------------------------- MODULE MCRecording ----------------------------
(* Values of the constants for the model checking of RecordingSession. *)
EXTENDS RecordingSession

MCLatencies == {0, 1}
MCNoLatency == {0}
=============================================================================
