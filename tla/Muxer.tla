-------------------------------- MODULE Muxer --------------------------------
(***************************************************************************)
(* AVMuxer: images and sound buffers are fed from the render and the audio *)
(* thread into two SyncQueues, an encoder thread per stream takes them out *)
(* and writes packets into one file, and stop() has to end both threads    *)
(* before it writes the trailer.  This is one AVMuxer from start() to its  *)
(* stop(), after which Encode_Finish destroys it.                          *)
(*                                                                         *)
(* Both queues are made with capacity -1, which is the largest size_t, so  *)
(* write() never waits.  What an encoder makes of a frame is left out: a   *)
(* frame is its number, and a codec a fifo that holds some of them back.   *)
(***************************************************************************)
EXTENDS Integers, Sequences

CONSTANTS
    MaxFed,      \* bound: [stream -> frames fed]
    ImageTime,   \* what an image lasts, in a time base common to both streams
    BufferTime,  \* what a sound buffer lasts
    Delay,       \* frames an encoder may hold back
    WaitEnds     \* what stop() is called with: every caller in the code says FALSE

Streams == {"audio", "video"}

ASSUME MuxerAssumption ==
    /\ MaxFed \in [Streams -> Nat]
    /\ ImageTime \in Nat \ {0} /\ BufferTime \in Nat \ {0}
    /\ Delay \in Nat
    /\ WaitEnds \subseteq BOOLEAN

VARIABLES
    synced,      \* audio_enable_, and a protocol whose images wait for sound (FILE, RTSP)
    fed,         \* [stream -> frames fed so far]
    queue,       \* [stream -> q_ of its SyncQueue]
    ending,      \* [stream -> ending_ of its SyncQueue]
    pc,          \* [stream -> where its encoder thread is]
    exit,        \* [stream -> exit_ of its encoder thread]
    hand,        \* [stream -> frame its encoder thread has read, or 0]
    codec,       \* [stream -> frames its encoder holds]
    pts,         \* [stream -> next_pts, in frames]
    error_code,  \* error_code_ is not 0
    audio_eof,
    stop_pc,     \* where stop() is
    wait_end,    \* the argument of stop()
    file,        \* [stream -> frames in the file]
    closed       \* the trailer is written

threads == <<pc, exit, hand, codec, pts>>
stopping == <<audio_eof, stop_pc, wait_end, closed>>
vars == <<synced, fed, queue, ending, threads, error_code, stopping, file>>

\* After open() and start() succeeded.
Init ==
    /\ synced \in BOOLEAN
    /\ fed = [k \in Streams |-> 0]
    /\ queue = [k \in Streams |-> <<>>]
    /\ ending = [k \in Streams |-> FALSE]
    /\ pc = [k \in Streams |-> "loop"]
    /\ exit = [k \in Streams |-> FALSE]
    /\ hand = [k \in Streams |-> 0]
    /\ codec = [k \in Streams |-> <<>>]
    /\ pts = [k \in Streams |-> 0]
    /\ error_code = FALSE /\ audio_eof = FALSE
    /\ stop_pc = "idle" /\ wait_end = FALSE
    /\ file = [k \in Streams |-> <<>>]
    /\ closed = FALSE

\* notify_all on the queue of k: a reader that waits looks at the queue again.
Notify(k) == pc' = [pc EXCEPT ![k] = IF @ = "wait" THEN "read" ELSE @]

\* Mutant: write() wakes nobody.
FeedSilently(k) ==
    /\ stop_pc # "stopped"
    /\ fed[k] < MaxFed[k]
    /\ fed' = [fed EXCEPT ![k] = @ + 1]
    /\ queue' = [queue EXCEPT ![k] = Append(@, fed[k] + 1)]
    /\ UNCHANGED <<synced, ending, threads, error_code, stopping, file>>

\* feed_image, feed_audio.  The feeder's thread may have looked at the wrapper
\* before Encode_Finish got there, so that frames come in during stop() too.
Feed(k) ==
    /\ stop_pc # "stopped"
    /\ fed[k] < MaxFed[k]
    /\ fed' = [fed EXCEPT ![k] = @ + 1]
    /\ queue' = [queue EXCEPT ![k] = Append(@, fed[k] + 1)]
    /\ Notify(k)
    /\ UNCHANGED <<synced, ending, exit, hand, codec, pts, error_code, stopping, file>>

(***************************************************************************)
(* The two encoder threads: what they have in common.                      *)
(***************************************************************************)
Goto(k, place) == pc' = [pc EXCEPT ![k] = place]

\* read() finds a frame ...
Take(k) ==
    /\ pc[k] = "read"
    /\ queue[k] # <<>>
    /\ hand' = [hand EXCEPT ![k] = Head(queue[k])]
    /\ queue' = [queue EXCEPT ![k] = Tail(@)]
    /\ Goto(k, "encode")
    /\ UNCHANGED <<synced, fed, ending, exit, codec, pts, error_code, stopping, file>>

\* ... or waits for one.
Wait(k) ==
    /\ pc[k] = "read"
    /\ queue[k] = <<>>
    /\ ~ending[k]
    /\ Goto(k, "wait")
    /\ UNCHANGED <<synced, fed, queue, ending, exit, hand, codec, pts, error_code, stopping, file>>

\* The frame is converted and sent to the codec, and counted ...
Send(k) ==
    /\ pc[k] = "encode"
    /\ codec' = [codec EXCEPT ![k] = Append(@, hand[k])]
    /\ pts' = [pts EXCEPT ![k] = @ + 1]
    /\ hand' = [hand EXCEPT ![k] = 0]
    /\ Goto(k, "drain")
    /\ UNCHANGED <<synced, fed, queue, ending, exit, error_code, stopping, file>>

\* ... or cannot be converted, when only a sound buffer is counted ...
Skip(k) ==
    /\ pc[k] = "encode"
    /\ pts' = [pts EXCEPT ![k] = IF k = "audio" THEN @ + 1 ELSE @]
    /\ hand' = [hand EXCEPT ![k] = 0]
    /\ Goto(k, "loop")
    /\ UNCHANGED <<synced, fed, queue, ending, exit, codec, error_code, stopping, file>>

\* The thread leaves its loop.  Only the audio thread flushes its codec then.
Leave(k) == Goto(k, IF k = "audio" THEN "flush" ELSE "done")

\* ... or the codec refuses it.
SendFails(k) ==
    /\ pc[k] = "encode"
    /\ pts' = [pts EXCEPT ![k] = @ + 1]
    /\ hand' = [hand EXCEPT ![k] = 0]
    /\ error_code' = TRUE
    /\ Leave(k)
    /\ UNCHANGED <<synced, fed, queue, ending, exit, codec, stopping, file>>

\* avcodec_receive_packet and write_packet, under write_mtx_.
WritePacket(k) ==
    /\ pc[k] \in {"drain", "flushing"}
    /\ codec[k] # <<>>
    /\ file' = [file EXCEPT ![k] = Append(@, Head(codec[k]))]
    /\ codec' = [codec EXCEPT ![k] = Tail(@)]
    /\ UNCHANGED <<synced, fed, queue, ending, pc, exit, hand, pts, error_code, stopping>>

\* The packet cannot be written: it is lost.
WriteFails(k) ==
    /\ pc[k] \in {"drain", "flushing"}
    /\ codec[k] # <<>>
    /\ codec' = [codec EXCEPT ![k] = Tail(@)]
    /\ error_code' = TRUE
    /\ Goto(k, IF pc[k] = "flushing" THEN "done" ELSE "loop")
    /\ UNCHANGED <<synced, fed, queue, ending, exit, hand, pts, stopping, file>>

\* Mutant: the packets are not all taken out before the next frame.
DrainedEarly(k) ==
    /\ pc[k] \in {"drain", "flushing"}
    /\ Goto(k, IF pc[k] = "flushing" THEN "done" ELSE "loop")
    /\ UNCHANGED <<synced, fed, queue, ending, exit, hand, codec, pts, error_code, stopping, file>>

\* The codec has no more packets for now, or, flushed, none at all.
Drained(k) ==
    /\ pc[k] \in {"drain", "flushing"}
    /\ Len(codec[k]) <= IF pc[k] = "flushing" THEN 0 ELSE Delay
    /\ Goto(k, IF pc[k] = "flushing" THEN "done" ELSE "loop")
    /\ UNCHANGED <<synced, fed, queue, ending, exit, hand, codec, pts, error_code, stopping, file>>

\* A frame that is none is sent to the codec, which then gives all it holds ...
Flush(k) ==
    /\ pc[k] = "flush"
    /\ Goto(k, "flushing")
    /\ UNCHANGED <<synced, fed, queue, ending, exit, hand, codec, pts, error_code, stopping, file>>

\* ... or refuses it.
FlushFails(k) ==
    /\ pc[k] = "flush"
    /\ error_code' = TRUE
    /\ Goto(k, "done")
    /\ UNCHANGED <<synced, fed, queue, ending, exit, hand, codec, pts, stopping, file>>

Encoder(k) == \/ Take(k) \/ Wait(k) \/ Send(k) \/ Skip(k) \/ SendFails(k)
              \/ WritePacket(k) \/ WriteFails(k) \/ Drained(k)
              \/ Flush(k) \/ FlushFails(k)

(***************************************************************************)
(* The heads of the two loops, and what they do with the end of the queue. *)
(***************************************************************************)
MustLeave(k) == exit[k] \/ error_code

\* Mutant: the codec is not flushed.
AudioLeaveUnflushed ==
    /\ pc["audio"] = "loop"
    /\ MustLeave("audio")
    /\ Goto("audio", "done")
    /\ UNCHANGED <<synced, fed, queue, ending, exit, hand, codec, pts, error_code, stopping, file>>

\* Out of the loop, and back into it once with no frame, to flush the codec.
AudioLeave ==
    /\ pc["audio"] = "loop"
    /\ MustLeave("audio")
    /\ Leave("audio")
    /\ UNCHANGED <<synced, fed, queue, ending, exit, hand, codec, pts, error_code, stopping, file>>

AudioGoesOn ==
    /\ pc["audio"] = "loop"
    /\ ~MustLeave("audio")
    /\ Goto("audio", "read")
    /\ UNCHANGED <<synced, fed, queue, ending, exit, hand, codec, pts, error_code, stopping, file>>

\* The queue has ended: the audio thread sleeps and starts again.
AudioEnds ==
    /\ pc["audio"] = "read"
    /\ queue["audio"] = <<>>
    /\ ending["audio"]
    /\ Goto("audio", "loop")
    /\ UNCHANGED <<synced, fed, queue, ending, exit, hand, codec, pts, error_code, stopping, file>>

VideoLeave ==
    /\ pc["video"] = "loop"
    /\ MustLeave("video")
    /\ Leave("video")
    /\ UNCHANGED <<synced, fed, queue, ending, exit, hand, codec, pts, error_code, stopping, file>>

\* av_compare_ts of the two next_pts.
Ahead == pts["video"] * ImageTime > pts["audio"] * BufferTime

\* Mutant: the images do not wait for the sound.
VideoRushesOn ==
    /\ pc["video"] = "loop"
    /\ ~MustLeave("video")
    /\ Goto("video", "read")
    /\ UNCHANGED <<synced, fed, queue, ending, exit, hand, codec, pts, error_code, stopping, file>>

\* As long as it is ahead of the sound, the video thread sleeps 5 and starts again.
VideoGoesOn ==
    /\ pc["video"] = "loop"
    /\ ~MustLeave("video")
    /\ synced => ~Ahead \/ audio_eof
    /\ Goto("video", "read")
    /\ UNCHANGED <<synced, fed, queue, ending, exit, hand, codec, pts, error_code, stopping, file>>

\* The queue has ended: the codec is flushed, and the thread ends.
VideoEnds ==
    /\ pc["video"] = "read"
    /\ queue["video"] = <<>>
    /\ ending["video"]
    /\ Goto("video", "flush")
    /\ UNCHANGED <<synced, fed, queue, ending, exit, hand, codec, pts, error_code, stopping, file>>

AudioThread == AudioLeave \/ AudioGoesOn \/ AudioEnds \/ Encoder("audio")
VideoThread == VideoLeave \/ VideoGoesOn \/ VideoEnds \/ Encoder("video")

(***************************************************************************)
(* stop(), on the game thread.                                             *)
(***************************************************************************)
EndQueue(k) == ending' = [ending EXCEPT ![k] = TRUE] /\ Notify(k)

\* Mutant: force() wakes nobody.
StopSilently ==
    /\ stop_pc = "idle"
    /\ wait_end' \in WaitEnds
    /\ ending' = [ending EXCEPT !["audio"] = TRUE]
    /\ stop_pc' = "video"
    /\ UNCHANGED <<synced, fed, queue, threads, error_code, audio_eof, file, closed>>

\* MediaMuxer::stop ends the audio queue ...
StopBegins ==
    /\ stop_pc = "idle"
    /\ wait_end' \in WaitEnds
    /\ EndQueue("audio")
    /\ stop_pc' = "video"
    /\ UNCHANGED <<synced, fed, queue, exit, hand, codec, pts, error_code, audio_eof, file, closed>>

\* ... and the video queue, with wait_end once it is empty.
StopVideo ==
    /\ stop_pc = "video"
    /\ wait_end => queue["video"] = <<>>
    /\ EndQueue("video")
    /\ stop_pc' = "eof"
    /\ UNCHANGED <<synced, fed, queue, exit, hand, codec, pts, error_code, audio_eof, wait_end,
                   file, closed>>

\* AVMuxer::stop goes on: images no longer wait for sound ...
StopEof ==
    /\ stop_pc = "eof"
    /\ audio_eof' = TRUE
    /\ stop_pc' = "exit"
    /\ UNCHANGED <<synced, fed, queue, ending, threads, error_code, wait_end, file, closed>>

\* ... the audio thread is told to end ...
ExitAudio ==
    /\ stop_pc = "exit"
    /\ exit' = [exit EXCEPT !["audio"] = TRUE]
    /\ stop_pc' = "join_audio"
    /\ UNCHANGED <<synced, fed, queue, ending, pc, hand, codec, pts, error_code, audio_eof,
                   wait_end, file, closed>>

\* ... and waited for, then the video thread is told to end ...
JoinAudio ==
    /\ stop_pc = "join_audio"
    /\ pc["audio"] = "done"
    /\ exit' = [exit EXCEPT !["video"] = TRUE]
    /\ stop_pc' = "join_video"
    /\ UNCHANGED <<synced, fed, queue, ending, pc, hand, codec, pts, error_code, audio_eof,
                   wait_end, file, closed>>

\* Mutant: nobody waits for the video thread.
TrailerAtOnce ==
    /\ stop_pc = "join_video"
    /\ closed' = TRUE
    /\ stop_pc' = "trailer"
    /\ UNCHANGED <<synced, fed, queue, ending, threads, error_code, audio_eof, wait_end, file>>

\* ... and waited for, and the trailer is written ...
JoinVideo ==
    /\ stop_pc = "join_video"
    /\ pc["video"] = "done"
    /\ closed' = TRUE
    /\ stop_pc' = "trailer"
    /\ UNCHANGED <<synced, fed, queue, ending, threads, error_code, audio_eof, wait_end, file>>

\* ... and everything is freed and put back; the audio queue stays ended.
CleanupReset ==
    /\ stop_pc = "trailer"
    /\ synced' = FALSE
    /\ codec' = [k \in Streams |-> <<>>]
    /\ pts' = [k \in Streams |-> 0]
    /\ ending' = [ending EXCEPT !["video"] = FALSE]
    /\ error_code' = FALSE
    /\ audio_eof' = FALSE
    /\ stop_pc' = "stopped"
    /\ UNCHANGED <<fed, queue, pc, exit, hand, wait_end, file, closed>>

StopGoesOn == StopVideo \/ StopEof \/ ExitAudio \/ JoinAudio \/ JoinVideo \/ CleanupReset

Next == \/ \E k \in Streams : Feed(k)
        \/ AudioThread \/ VideoThread
        \/ StopBegins \/ StopGoesOn

\* The threads run and a called stop() goes on; nobody has to feed or to stop.
Spec == /\ Init /\ [][Next]_vars
        /\ WF_vars(AudioThread) /\ WF_vars(VideoThread) /\ WF_vars(StopGoesOn)

-----------------------------------------------------------------------------
(***************************************************************************)
(* Properties.                                                             *)
(***************************************************************************)
\* The types of the variables; a codec is left with no more than it may hold back.
TypeOK ==
    /\ synced \in BOOLEAN /\ error_code \in BOOLEAN /\ audio_eof \in BOOLEAN
    /\ closed \in BOOLEAN /\ wait_end \in BOOLEAN
    /\ stop_pc \in {"idle", "video", "eof", "exit", "join_audio", "join_video", "trailer", "stopped"}
    /\ ending \in [Streams -> BOOLEAN] /\ exit \in [Streams -> BOOLEAN]
    /\ pc \in [Streams -> {"loop", "read", "wait", "encode", "drain", "flush", "flushing", "done"}]
    /\ fed \in [Streams -> Nat] /\ pts \in [Streams -> Nat] /\ hand \in [Streams -> Nat]
    /\ queue \in [Streams -> Seq(Nat)]
    /\ codec \in [Streams -> Seq(Nat)]
    /\ file \in [Streams -> Seq(Nat)]
    /\ \A k \in Streams : /\ fed[k] <= MaxFed[k]
                          /\ pc[k] \in {"loop", "read", "wait", "encode"} => Len(codec[k]) <= Delay
                          /\ pc[k] = "drain" => Len(codec[k]) <= Delay + 1

\* The images in the file are never more than one ahead of the sound that was
\* taken, as long as there is sound: the comparison is made before read(), which
\* may wait, and the image is counted after it.
InSync ==
    (synced /\ ~audio_eof)
        => pts["video"] * ImageTime <= pts["audio"] * BufferTime + ImageTime

\* However the audio thread ends, its codec has been flushed, unless there was an
\* error.
AudioFlushed == (pc["audio"] = "done" /\ ~error_code) => codec["audio"] = <<>>

\* stop() returns: no encoder thread sleeps on its queue, or waits for the sound,
\* for ever.
StopReturns == stop_pc = "video" ~> stop_pc = "stopped"

\* Images are in the queue and nothing keeps them there.
ImagesWaiting ==
    queue["video"] # <<>> /\ ~(synced /\ Ahead) /\ ~error_code /\ stop_pc = "idle"

\* Until the end, images are left in the queue only while they wait for the sound:
\* the video thread never sleeps through a write().
ImagesTaken == ImagesWaiting ~> ~ImagesWaiting

\* The file is what MediaFile promises.
Promise == INSTANCE MediaFile
FileSpec == Promise!MediaFileSpec
=============================================================================
