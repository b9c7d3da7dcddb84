------------------------- MODULE MCTracksLifecycle -------------------------
(* Values of the constants for the model checking of TracksLifecycle: a    *)
(* video and an audio stream.                                              *)
EXTENDS TracksLifecycle

MCKinds == {"video", "audio"}
=============================================================================
