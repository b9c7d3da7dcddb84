------------------------------ MODULE MCMuxer ------------------------------
(* TLC's instance of Muxer: three images and two sound buffers. *)
EXTENDS Muxer

MCMaxFed == [k \in Streams |-> IF k = "video" THEN 3 ELSE 2]
=============================================================================
