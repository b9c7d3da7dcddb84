------------------------------ MODULE MediaFile ------------------------------
(***************************************************************************)
(* What AVMuxer promises whoever feeds it: in the file, the frames of each *)
(* stream are frames that were fed, in the order they were fed and none    *)
(* twice, and nothing follows the trailer.  Frames may be missing.         *)
(***************************************************************************)
EXTENDS Integers, Sequences

CONSTANT Streams

VARIABLES
    fed,    \* [stream -> frames fed so far; they are numbered from 1]
    file,   \* [stream -> numbers of the frames in the file]
    closed  \* the trailer is written

MediaFileInit ==
    /\ fed = [k \in Streams |-> 0]
    /\ file = [k \in Streams |-> <<>>]
    /\ closed = FALSE

\* Also when it is too late.
FeedFrame(k) ==
    /\ fed' = [fed EXCEPT ![k] = @ + 1]
    /\ UNCHANGED <<file, closed>>

WriteFrame(k) ==
    /\ ~closed
    /\ \E n \in 1..fed[k] :
          /\ \A i \in 1..Len(file[k]) : file[k][i] < n
          /\ file' = [file EXCEPT ![k] = Append(@, n)]
    /\ UNCHANGED <<fed, closed>>

WriteTrailer ==
    /\ ~closed
    /\ closed' = TRUE
    /\ UNCHANGED <<fed, file>>

MediaFileNext == WriteTrailer \/ \E k \in Streams : FeedFrame(k) \/ WriteFrame(k)

MediaFileSpec == MediaFileInit /\ [][MediaFileNext]_<<fed, file, closed>>
=============================================================================
