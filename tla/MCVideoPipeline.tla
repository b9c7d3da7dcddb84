-------------------------- MODULE MCVideoPipeline --------------------------
(* Values of the constants for the model checking of VideoPipeline.        *)
EXTENDS VideoPipeline

MCKeyFrames == {0}
MCTargets == {1, 2}
=============================================================================
