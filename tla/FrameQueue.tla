---------------------------- MODULE FrameQueue ----------------------------
(***************************************************************************)
(* FFmpegFrameQueue: the ring of decoded frames between one decoder thread *)
(* (PeekWritable, fill the slot, Push) and one rendering thread (the       *)
(* display thread, or the audio thread: Peek or PeekReadable, Next).       *)
(*                                                                         *)
(* Only size is protected by the queue's mutex.  windex belongs to the     *)
(* writer, rindex and rindex_shown to the reader, and the slots are        *)
(* touched with no lock at all: the reader goes on using a slot after      *)
(* Next.  The steps of this module are therefore the accesses themselves:  *)
(* Push moves windex before it enters its critical section, and Next frees *)
(* the slot and moves rindex before it enters its own.                     *)
(*                                                                         *)
(* The ring is shown from Init on, through any number of the               *)
(* FFmpegDecoder::Start and FFmpegDecoder::Abort of its writer (SelectTrack *)
(* opening and closing the stream); the reader is created after the first  *)
(* Start and lives on through the others.                                  *)
(***************************************************************************)
EXTENDS Integers, Sequences

CONSTANTS
    Frame,      \* decoded frames
    NoFrame,    \* content of a slot that holds no reference to a frame
    max_size,   \* slots in use; 3 for video, 9 for audio, 16 for subtitles
    keep_last,  \* TRUE for video and audio, FALSE for subtitles
    MaxStarts   \* bound: [blocking -> times the decoder is started]

ASSUME RingAssumption ==
    /\ max_size \in Nat \ {0, 1}
    /\ keep_last \in BOOLEAN
    /\ MaxStarts \in [BOOLEAN -> Nat]
    /\ NoFrame \notin Frame

VARIABLES
    queue,          \* the slots
    windex,         \* next slot to write
    rindex,         \* slot of the oldest frame, the one shown last included
    rindex_shown,   \* 1 once the frame at rindex has been consumed and is kept
    size,           \* frames in the ring
    event,          \* the event of the queue's FFmpegCond; manual-reset
    abort_request,  \* of the packet queue (pktq) behind the ring
    writer,         \* decoder thread
    reader,         \* rendering thread
    ridx, held,     \* the slot the reader got from Peek, and what was in it
    blocking,       \* the reader may wait in PeekReadable, as for audio; never changes
    owner,          \* thread that starts and aborts the decoder
    starts          \* times it has started it

ring == <<queue, windex, rindex, rindex_shown, size>>
vars == <<ring, event, abort_request, writer, reader, ridx, held, owner, starts, blocking>>

Slots == 0..(max_size - 1)

\* Position i of the ring, for an i below 2 * max_size.
Wrap(i) == IF i >= max_size THEN i - max_size ELSE i

(***************************************************************************)
(* The threads, by what they are about to do.                              *)
(*   writer: "off" no thread; "decode" DecodeFrame; "test" the loop of     *)
(*           PeekWritable; "wait" in cond->wait; "recheck" out of it and   *)
(*           about to read abort_request again; "slot" may write           *)
(*           queue[windex]; "filled" may call Push; "moved" between the    *)
(*           two halves of Push; "done" has returned.                      *)
(*   reader: "off" no thread; "idle"; "test", "wait", "recheck" in PeekReadable; "peeked"   *)
(*           holds a slot it has not consumed; "moved" between the two     *)
(*           halves of Next; "using" uses the frame it consumed.           *)
(***************************************************************************)
WriterStates == {"off", "decode", "test", "wait", "recheck", "slot", "filled", "moved", "done"}
ReaderStates == {"off", "idle", "test", "wait", "recheck", "peeked", "moved", "using"}

Init ==
    /\ queue = [i \in Slots |-> NoFrame]
    /\ windex = 0 /\ rindex = 0 /\ rindex_shown = 0 /\ size = 0
    /\ event = FALSE
    /\ abort_request = TRUE
    /\ writer = "off"
    /\ reader = "off" /\ ridx = 0 /\ held = NoFrame
    /\ owner = "closed" /\ starts = 0
    /\ blocking \in BOOLEAN

Signal == event' = TRUE

(***************************************************************************)
(* The writer.                                                             *)
(***************************************************************************)
\* Mutant: PeekWritable lets the writer in while the ring is full.
FullOneLate == size > max_size

Full == size >= max_size

\* DecodeFrame delivered a frame.
Decoded ==
    /\ writer = "decode"
    /\ writer' = "test"
    /\ UNCHANGED <<ring, event, abort_request, reader, ridx, held, owner, starts, blocking>>

\* DecodeFrame returned -1: Get was aborted, or the loop saw abort_request.
DecodeAborted ==
    /\ writer = "decode"
    /\ abort_request
    /\ writer' = "done"
    /\ UNCHANGED <<ring, event, abort_request, reader, ridx, held, owner, starts, blocking>>

\* Mutant: the loop of PeekWritable does not look at abort_request.
WritableIgnoresAbort ==
    /\ writer = "test" \/ (writer = "wait" /\ event)
    /\ writer' = IF Full THEN "wait" ELSE "recheck"
    /\ UNCHANGED <<ring, event, abort_request, reader, ridx, held, owner, starts, blocking>>

\* One pass of the loop of PeekWritable, entered first or after the event.
WritableTest ==
    /\ writer = "test" \/ (writer = "wait" /\ event)
    /\ writer' = IF Full /\ ~abort_request THEN "wait" ELSE "recheck"
    /\ UNCHANGED <<ring, event, abort_request, reader, ridx, held, owner, starts, blocking>>

\* The second look at abort_request, after the mutex is released.
WritableRecheck ==
    /\ writer = "recheck"
    /\ writer' = IF abort_request THEN "done" ELSE "slot"
    /\ UNCHANGED <<ring, event, abort_request, reader, ridx, held, owner, starts, blocking>>

\* The decoder's thread function moves the decoded frame into the slot.
Fill ==
    /\ writer = "slot"
    /\ \E f \in Frame : queue' = [queue EXCEPT ![windex] = f]
    /\ writer' = "filled"
    /\ UNCHANGED <<windex, rindex, rindex_shown, size, event, abort_request,
                   reader, ridx, held, owner, starts, blocking>>

\* Mutant: a frame that is not played still moves the write index.
SkipAdvances ==
    /\ writer = "filled"
    /\ windex' = Wrap(windex + 1)
    /\ writer' = "decode"
    /\ UNCHANGED <<queue, rindex, rindex_shown, size, event, abort_request,
                   reader, ridx, held, owner, starts, blocking>>

\* audio_thread and subtitle_thread leave a frame that must not be played
\* (old serial, or before the target of a seek) in the slot without a Push.
Skip ==
    /\ writer = "filled"
    /\ writer' = "decode"
    /\ UNCHANGED <<ring, event, abort_request, reader, ridx, held, owner, starts, blocking>>

PushIndex ==
    /\ writer = "filled"
    /\ windex' = Wrap(windex + 1)
    /\ writer' = "moved"
    /\ UNCHANGED <<queue, rindex, rindex_shown, size, event, abort_request,
                   reader, ridx, held, owner, starts, blocking>>

\* Mutant: Push forgets to signal.
PushSilently ==
    /\ writer = "moved"
    /\ size' = size + 1
    /\ writer' = "decode"
    /\ UNCHANGED <<queue, windex, rindex, rindex_shown, event, abort_request,
                   reader, ridx, held, owner, starts, blocking>>

PushCount ==
    /\ writer = "moved"
    /\ size' = size + 1
    /\ Signal
    /\ writer' = "decode"
    /\ UNCHANGED <<queue, windex, rindex, rindex_shown, abort_request,
                   reader, ridx, held, owner, starts, blocking>>

Writer == \/ Decoded \/ DecodeAborted \/ WritableTest \/ WritableRecheck
          \/ Fill \/ Skip \/ PushIndex \/ PushCount

(***************************************************************************)
(* The reader.                                                             *)
(***************************************************************************)
\* NbRemaining: frames not consumed yet.
NbRemaining == size - rindex_shown

\* Mutant: Peek ignores that the frame at rindex was consumed.
PeekAtRindex == rindex

\* The slot Peek and PeekReadable return.
PeekIndex == Wrap(rindex + rindex_shown)

\* video_refresh polls: NbRemaining, then Peek.
PollPeek ==
    /\ reader = "idle"
    /\ NbRemaining > 0
    /\ ridx' = PeekIndex /\ held' = queue[PeekIndex]
    /\ reader' = "peeked"
    /\ UNCHANGED <<ring, event, abort_request, writer, owner, starts, blocking>>

\* audio_decode_frame calls PeekReadable, which waits for a frame.
CallReadable ==
    /\ blocking
    /\ reader = "idle"
    /\ reader' = "test"
    /\ UNCHANGED <<ring, event, abort_request, writer, ridx, held, owner, starts, blocking>>

ReadableTest ==
    /\ reader = "test" \/ (reader = "wait" /\ event)
    /\ reader' = IF NbRemaining <= 0 /\ ~abort_request THEN "wait" ELSE "recheck"
    /\ UNCHANGED <<ring, event, abort_request, writer, ridx, held, owner, starts, blocking>>

\* The second look at abort_request: give up, or return the slot.
ReadableRecheck ==
    /\ reader = "recheck"
    /\ \/ /\ abort_request
          /\ reader' = "idle"
          /\ UNCHANGED <<ridx, held>>
       \/ /\ ~abort_request
          /\ ridx' = PeekIndex /\ held' = queue[PeekIndex]
          /\ reader' = "peeked"
    /\ UNCHANGED <<ring, event, abort_request, writer, owner, starts, blocking>>

\* video_refresh may leave the frame where it is: paused, or not due yet.
PutOff ==
    /\ reader = "peeked"
    /\ reader' = "idle"
    /\ UNCHANGED <<ring, event, abort_request, writer, ridx, held, owner, starts, blocking>>

\* Next, the first time with keep_last: the frame consumed stays where it is.
NextKeeps ==
    /\ reader = "peeked"
    /\ keep_last /\ rindex_shown = 0
    /\ rindex_shown' = 1
    /\ reader' = "using"
    /\ UNCHANGED <<queue, windex, rindex, size, event, abort_request, writer,
                   ridx, held, owner, starts, blocking>>

\* Mutant: Next frees the frame it hands over instead of the one before it.
NextFreesPeeked ==
    /\ reader = "peeked"
    /\ ~(keep_last /\ rindex_shown = 0)
    /\ queue' = [queue EXCEPT ![ridx] = NoFrame]
    /\ held' = queue'[ridx]
    /\ rindex' = Wrap(rindex + 1)
    /\ reader' = "moved"
    /\ UNCHANGED <<windex, rindex_shown, size, event, abort_request, writer,
                   ridx, owner, starts, blocking>>

\* Next otherwise, up to its critical section: the frame at rindex is freed.
NextFrees ==
    /\ reader = "peeked"
    /\ ~(keep_last /\ rindex_shown = 0)
    /\ queue' = [queue EXCEPT ![rindex] = NoFrame]
    /\ held' = queue'[ridx]
    /\ rindex' = Wrap(rindex + 1)
    /\ reader' = "moved"
    /\ UNCHANGED <<windex, rindex_shown, size, event, abort_request, writer,
                   ridx, owner, starts, blocking>>

\* The critical section of Next.  With keep_last the reader goes on using the
\* frame it consumed; without, it is done with it.
NextCount ==
    /\ reader = "moved"
    /\ size' = size - 1
    /\ Signal
    /\ reader' = IF keep_last THEN "using" ELSE "idle"
    /\ UNCHANGED <<queue, windex, rindex, rindex_shown, abort_request, writer,
                   ridx, held, owner, starts, blocking>>

\* The picture is converted, or the samples resampled.
Used ==
    /\ reader = "using"
    /\ reader' = "idle"
    /\ UNCHANGED <<ring, event, abort_request, writer, ridx, held, owner, starts, blocking>>

Reader == \/ PollPeek \/ CallReadable \/ ReadableTest \/ ReadableRecheck
          \/ PutOff \/ NextKeeps \/ NextFrees \/ NextCount \/ Used

(***************************************************************************)
(* The owner: FFmpegDecoder::Start and FFmpegDecoder::Abort.               *)
(***************************************************************************)
DecoderStart ==
    /\ owner = "closed"
    /\ starts < MaxStarts[blocking]
    /\ starts' = starts + 1
    /\ abort_request' = FALSE
    /\ writer' = "decode"
    /\ owner' = "started"
    /\ UNCHANGED <<ring, event, reader, ridx, held, blocking>>

\* SelectTrack creates the rendering thread if it is not running yet.
CreateReader ==
    /\ owner = "started"
    /\ reader' = IF reader = "off" THEN "idle" ELSE reader
    /\ owner' = "open"
    /\ UNCHANGED <<ring, event, abort_request, writer, ridx, held, starts, blocking>>

\* queue->Abort(), under the mutex of the packet queue ...
AbortQueue ==
    /\ owner = "open"
    /\ abort_request' = TRUE
    /\ owner' = "aborted"
    /\ UNCHANGED <<ring, event, writer, reader, ridx, held, starts, blocking>>

\* ... then fq->Signal(), under the mutex of this queue ...
SignalRing ==
    /\ owner = "aborted"
    /\ Signal
    /\ owner' = "joining"
    /\ UNCHANGED <<ring, abort_request, writer, reader, ridx, held, starts, blocking>>

\* ... then the join of the decoder thread.
JoinDecoder ==
    /\ owner = "joining"
    /\ writer = "done"
    /\ writer' = "off"
    /\ owner' = "closed"
    /\ UNCHANGED <<ring, event, abort_request, reader, ridx, held, starts, blocking>>

Aborting == SignalRing \/ JoinDecoder

Owner == DecoderStart \/ CreateReader \/ AbortQueue \/ Aborting

Next == Writer \/ Reader \/ Owner

\* The threads run.  Of the reader only PeekReadable is held to it: whether the
\* player consumes frames is up to the user.
Spec ==
    /\ Init /\ [][Next]_vars
    /\ WF_vars(Writer)
    /\ WF_vars(ReadableTest) /\ WF_vars(ReadableRecheck)
    /\ WF_vars(Aborting)

-----------------------------------------------------------------------------
(***************************************************************************)
(* Properties.                                                             *)
(***************************************************************************)

\* The types of the variables.
TypeOK ==
    /\ queue \in [Slots -> Frame \cup {NoFrame}]
    /\ windex \in Slots /\ rindex \in Slots /\ ridx \in Slots
    /\ rindex_shown \in {0, 1}
    /\ size \in 0..max_size
    /\ event \in BOOLEAN /\ abort_request \in BOOLEAN
    /\ writer \in WriterStates /\ reader \in ReaderStates
    /\ held \in Frame \cup {NoFrame}
    /\ owner \in {"closed", "started", "open", "aborted", "joining"}
    /\ starts \in Nat /\ blocking \in BOOLEAN

\* The frames physically in the ring, from rindex on: size lags behind windex
\* inside Push and behind rindex inside Next.
Stored == size + (IF writer = "moved" THEN 1 ELSE 0) - (IF reader = "moved" THEN 1 ELSE 0)

\* The two indices and the count agree at every instant, although no lock spans
\* them: the ring neither overflows nor loses its place, and every position the
\* reader may look at holds a frame.
RingConsistent ==
    /\ Stored \in rindex_shown..max_size
    /\ windex = Wrap(rindex + Stored)
    /\ \A i \in 0..(Stored - 1) : queue[Wrap(rindex + i)] # NoFrame

Writing == writer \in {"slot", "filled"}
Reading == reader \in {"peeked", "using"}

\* The decoder thread never writes the slot the rendering thread is using,
\* although neither holds the mutex.
WriterAwayFromReader == Writing /\ Reading => windex # ridx

\* A frame the rendering thread got from Peek stays the same, and stays
\* referenced, until the thread is done with it, the Next in between included.
HeldFrameIntact == Reading => queue[ridx] = held /\ held # NoFrame

\* FFmpegDecoder::Abort always returns, whichever thread is blocked where.
AbortCompletes == owner = "aborted" ~> owner = "closed"

\* The audio thread does not stay blocked in PeekReadable once the decoder is
\* aborted or has pushed a frame.
ReaderReleased ==
    (reader = "wait" /\ (abort_request \/ NbRemaining > 0))
        ~> (reader # "wait" \/ (~abort_request /\ NbRemaining <= 0))

\* PeekReadable returns a slot only if there is a frame in it to read: "wait
\* until we have a readable a new frame" (FFmpegFrameQueue.cpp, PeekReadable).
ReadableIsReadable == reader = "peeked" => NbRemaining > 0

\* The ring implements a bounded fifo with its last frame kept.  A frame enters
\* when Push counts it and leaves when Next moves past it.
Buffer == INSTANCE FrameBuffer WITH
    pending <- [i \in 1..(size - (IF reader = "moved" THEN 1 ELSE 0) - rindex_shown)
                    |-> queue[Wrap(rindex + rindex_shown + i - 1)]],
    shown <- IF rindex_shown = 1 THEN queue[rindex] ELSE NoFrame

BufferSpec == Buffer!Spec
=============================================================================
