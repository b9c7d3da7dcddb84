---------------------------- MODULE MCPlayback ----------------------------
(* Values of the constants for the model checking of Playback: a film of   *)
(* two pictures, whose sound begins late and goes on after the last one.   *)
EXTENDS Playback

Picture(t) == [stream |-> "video", time |-> t]
Sound(t) == [stream |-> "audio", time |-> t]

MCFile == <<Picture(0), Picture(1), Sound(1), Sound(2)>>
ASSUME SteadyFilmIsPlayed == SteadyFilm

MCTargets == {2}
MCmax_size == [s \in Streams |-> IF s = "video" THEN 2 ELSE 1]
===========================================================================
