--------------------------- MODULE MCFrameQueue ---------------------------
(* Values of the constants for the model checking of FrameQueue: two kinds *)
(* of frames are enough to tell one slot's content from another's.         *)
EXTENDS FrameQueue

CONSTANTS f1, f2

MCFrame == {f1, f2}

\* A reader that polls sees three starts of the decoder, one that blocks only one.
MCMaxStarts == [b \in BOOLEAN |-> IF b THEN 1 ELSE 3]

\* A reader that blocks sees a second start.
MCReselect == [b \in BOOLEAN |-> IF b THEN 2 ELSE 0]
=============================================================================
