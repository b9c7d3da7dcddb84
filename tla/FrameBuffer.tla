---------------------------- MODULE FrameBuffer ----------------------------
(***************************************************************************)
(* What the frame queue promises to the decoder thread and to the thread   *)
(* that renders: a bounded fifo of frames.  With keep_last, the frame      *)
(* consumed last stays readable (it is on screen, or being resampled) and  *)
(* takes a place of the capacity until the next one is consumed.           *)
(***************************************************************************)
EXTENDS Naturals, Sequences

CONSTANTS
    Frame,      \* decoded frames
    NoFrame,    \* no frame shown
    max_size,   \* capacity
    keep_last   \* whether the frame consumed last is kept

VARIABLES pending, shown

vars == <<pending, shown>>

Kept == IF shown = NoFrame THEN 0 ELSE 1

Init == pending = <<>> /\ shown = NoFrame

Produce(f) ==
    /\ Len(pending) + Kept < max_size
    /\ pending' = Append(pending, f)
    /\ UNCHANGED shown

Consume ==
    /\ pending # <<>>
    /\ pending' = Tail(pending)
    /\ shown' = IF keep_last THEN Head(pending) ELSE NoFrame

Next == (\E f \in Frame : Produce(f)) \/ Consume

Spec == Init /\ [][Next]_vars
=============================================================================
