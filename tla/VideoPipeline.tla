--------------------------- MODULE VideoPipeline ---------------------------
(***************************************************************************)
(* One video stream from the demuxer to the screen: the read thread, the   *)
(* packet queue, the decoder thread (FFmpegDecoder::DecodeFrame inside     *)
(* video_thread), the picture queue and the display thread, under seeks    *)
(* that arrive at any moment.                                              *)
(*                                                                         *)
(* The two queues are taken by what they promise (PacketStream and         *)
(* FrameBuffer, which PacketQueue and FrameQueue implement); everything    *)
(* else happens in the steps in which the threads touch shared state.      *)
(* None of the flags of a seek is protected by a lock.                     *)
(*                                                                         *)
(* Frame number i of the file is due at time i: a packet, a frame and its  *)
(* pts are the same number.                                                *)
(***************************************************************************)
EXTENDS Integers, Sequences

CONSTANTS
    LastFrame,  \* last frame of the file; frames are 0..LastFrame
    KeyFrames,  \* frames avformat_seek_file can go to; 0 is one
    Targets,    \* positions the user seeks to
    Delay,      \* frames the codec holds back until it gets more input
    MIN_FRAMES, \* packets that make the queue full
    max_size,   \* capacity of the picture queue
    MaxSerial   \* bound: no seek is requested once serial has got here

ASSUME PipelineAssumption ==
    /\ LastFrame \in Nat /\ Delay \in Nat /\ MIN_FRAMES \in Nat
    /\ max_size \in Nat \ {0, 1}
    /\ MaxSerial \in Nat \ {0}
    /\ KeyFrames \subseteq 0..LastFrame /\ 0 \in KeyFrames
    /\ Targets \subseteq 0..LastFrame

\* The null packet, and no frame.
Eof == -1
NoPicture == [pts |-> -1, serial |-> 0]

Pts == 0..LastFrame

VARIABLES
    \* the demuxer and the read thread
    read_pos,           \* next frame av_read_frame returns; LastFrame + 1 at the end
    eof,                \* the null packet has been queued
    read_pc,            \* where the read thread is in its loop
    seek_req, seek_pos, \* the seek requested by stream_seek
    accurate_seek_time, \* frames before it are not to be shown ...
    accurate_video_seek_flag,   \* ... while this is set
    \* the game thread
    paused,             \* playback is stopped at the end
    game_pc,            \* inside Seek: before or after stream_seek
    \* the packet queue
    contents, generation,
    \* the decoder thread
    dec_pc,             \* where it is
    pkt,                \* packet it got
    pkt_serial,         \* generation of that packet
    codec,              \* [held, draining]: state of the libavcodec context
    finished,           \* generation whose end has been decoded, or 0
    frame,              \* frame it got
    \* the picture queue and the display thread
    pending, shown,
    disp_pc,            \* where the display thread is in video_refresh
    vidclk_serial,      \* generation the video clock was last set for
    screen              \* picture handed to the engine last

reading == <<read_pos, eof, read_pc>>
seeking == <<seek_req, seek_pos, accurate_seek_time, accurate_video_seek_flag>>
game    == <<paused, game_pc>>
packets == <<contents, generation>>
decoder == <<dec_pc, pkt, pkt_serial, codec, finished, frame>>
pictures == <<pending, shown>>
display == <<disp_pc, vidclk_serial, screen>>
vars == <<reading, seeking, game, packets, decoder, pictures, display>>

Packets == INSTANCE PacketStream WITH AllPkt <- Pts \cup {Eof}, open <- TRUE

Pictures == INSTANCE FrameBuffer WITH
    Frame <- [pts : Pts, serial : Nat], NoFrame <- NoPicture, keep_last <- TRUE

FreshCodec == [held |-> <<>>, draining |-> FALSE]

\* The state after the stream is opened: Start has begun generation 1.
Init ==
    /\ read_pos = 0 /\ eof = FALSE /\ read_pc = "loop"
    /\ seek_req = FALSE /\ seek_pos = 0
    /\ accurate_seek_time = 0 /\ accurate_video_seek_flag = FALSE
    /\ paused = FALSE /\ game_pc = "idle"
    /\ contents = <<>> /\ generation = 1
    /\ dec_pc = "check" /\ pkt = Eof /\ pkt_serial = -1
    /\ codec = FreshCodec /\ finished = 0 /\ frame = 0
    /\ pending = <<>> /\ shown = NoPicture
    /\ disp_pc = "poll" /\ vidclk_serial = -1 /\ screen = NoPicture

-----------------------------------------------------------------------------
(***************************************************************************)
(* The game thread: FFFmpegMediaTracks::Seek.                              *)
(***************************************************************************)
\* Refused while a seek is requested; otherwise stream_seek stores it.  The
\* state is read after that, for the SetRate(1) that follows.
Seek(t) ==
    /\ game_pc = "idle"
    /\ ~seek_req
    /\ generation < MaxSerial
    /\ seek_pos' = t
    /\ seek_req' = TRUE
    /\ game_pc' = "requested"
    /\ UNCHANGED <<reading, accurate_seek_time, accurate_video_seek_flag, paused,
                   packets, decoder, pictures, display>>

\* "When stopped, a seek has to resume" ...
SeekResume ==
    /\ game_pc = "requested"
    /\ game_pc' = IF paused THEN "resumed" ELSE "idle"
    /\ paused' = FALSE
    /\ UNCHANGED <<reading, seeking, packets, decoder, pictures, display>>

\* ... with SetRate(1), which also asks for a seek to the start if eof is set.
SetRateEof ==
    /\ game_pc = "resumed"
    /\ game_pc' = "idle"
    /\ IF eof /\ ~seek_req
       THEN seek_pos' = 0 /\ seek_req' = TRUE
       ELSE UNCHANGED <<seek_pos, seek_req>>
    /\ UNCHANGED <<reading, accurate_seek_time, accurate_video_seek_flag, paused, packets,
                   decoder, pictures, display>>

(***************************************************************************)
(* The read thread.                                                        *)
(***************************************************************************)
\* k is the last key frame that is not after t.
KeyBefore(k, t) == k <= t /\ \A j \in KeyFrames : j <= t => j <= k

SeekFileFails ==
    /\ read_pc = "loop"
    /\ seek_req
    /\ read_pc' = "served"
    /\ UNCHANGED <<read_pos, eof, seeking, game, packets, decoder, pictures, display>>

\* avformat_seek_file with AVSEEK_FLAG_BACKWARD, then videoq.Flush().
SeekFlush ==
    /\ read_pc = "loop"
    /\ seek_req
    /\ \E k \in KeyFrames : KeyBefore(k, seek_pos) /\ read_pos' = k
    /\ Packets!Renew
    /\ read_pc' = "time"
    /\ UNCHANGED <<eof, seeking, game, decoder, pictures, display>>

SeekTime ==
    /\ read_pc = "time"
    /\ accurate_seek_time' = seek_pos
    /\ read_pc' = "flag"
    /\ UNCHANGED <<read_pos, eof, seek_req, seek_pos, accurate_video_seek_flag, game,
                   packets, decoder, pictures, display>>

SeekFlag ==
    /\ read_pc = "flag"
    /\ accurate_video_seek_flag' = TRUE
    /\ read_pc' = "served"
    /\ UNCHANGED <<read_pos, eof, seek_req, seek_pos, accurate_seek_time, game,
                   packets, decoder, pictures, display>>

SeekServed ==
    /\ read_pc = "served"
    /\ seek_req' = FALSE
    /\ read_pc' = "eof"
    /\ UNCHANGED <<read_pos, eof, seek_pos, accurate_seek_time, accurate_video_seek_flag,
                   game, packets, decoder, pictures, display>>

SeekEof ==
    /\ read_pc = "eof"
    /\ eof' = FALSE
    /\ read_pc' = "fill"
    /\ UNCHANGED <<read_pos, seeking, game, packets, decoder, pictures, display>>

NoSeek ==
    /\ read_pc = "loop"
    /\ ~seek_req
    /\ read_pc' = "fill"
    /\ UNCHANGED <<read_pos, eof, seeking, game, packets, decoder, pictures, display>>

EnoughPackets == Len(contents) > MIN_FRAMES

\* The queue is full: wait 10 microseconds, or for a signal, and start again.
QueueFull ==
    /\ read_pc = "fill"
    /\ EnoughPackets
    /\ read_pc' = "loop"
    /\ UNCHANGED <<read_pos, eof, seeking, game, packets, decoder, pictures, display>>

\* Mutant: the end is declared as soon as the decoder has finished.
EndIgnoresPictures == ~paused /\ finished = generation

\* Everything of this generation has been decoded and consumed.
Drained == ~paused /\ finished = generation /\ pending = <<>>

\* The end of the playback is looked for on every turn, before the next read.
DetectEnd ==
    /\ read_pc = "fill"
    /\ ~EnoughPackets
    /\ paused' = (paused \/ (Drained /\ eof))
    /\ read_pc' = "read"
    /\ UNCHANGED <<read_pos, eof, seeking, game_pc, packets, decoder, pictures, display>>

ReadFrame ==
    /\ read_pc = "read"
    /\ read_pos <= LastFrame
    /\ Packets!Enter(read_pos)
    /\ read_pos' = read_pos + 1
    /\ eof' = FALSE
    /\ read_pc' = "loop"
    /\ UNCHANGED <<seeking, game, decoder, pictures, display>>

\* Mutant: the null packet is not queued.
EofWithoutPacket ==
    /\ read_pc = "read"
    /\ read_pos > LastFrame
    /\ eof' = TRUE
    /\ read_pc' = "loop"
    /\ UNCHANGED <<read_pos, seeking, game, packets, decoder, pictures, display>>

\* av_read_frame has nothing more: one null packet, once.
ReadEof ==
    /\ read_pc = "read"
    /\ read_pos > LastFrame
    /\ IF eof THEN UNCHANGED packets ELSE Packets!Enter(Eof)
    /\ eof' = TRUE
    /\ read_pc' = "loop"
    /\ UNCHANGED <<read_pos, seeking, game, decoder, pictures, display>>

SeekSteps == \/ SeekFileFails \/ SeekFlush \/ SeekTime \/ SeekFlag
             \/ SeekServed \/ SeekEof

Reader == SeekSteps \/ NoSeek \/ QueueFull \/ DetectEnd \/ ReadFrame \/ ReadEof

(***************************************************************************)
(* libavcodec, as DecodeFrame uses it.                                     *)
(***************************************************************************)
HasOutput == Len(codec.held) > Delay \/ (codec.draining /\ codec.held # <<>>)
Exhausted == codec.draining /\ codec.held = <<>>

(***************************************************************************)
(* The decoder thread.                                                     *)
(***************************************************************************)
\* DecodeFrame receives from the codec only in the generation of its packet.
CheckSerial ==
    /\ dec_pc = "check"
    /\ dec_pc' = IF generation = pkt_serial THEN "receive" ELSE "get"
    /\ UNCHANGED <<reading, seeking, game, packets, pkt, pkt_serial, codec, finished,
                   frame, pictures, display>>

ReceivePicture ==
    /\ dec_pc = "receive"
    /\ HasOutput
    /\ frame' = Head(codec.held)
    /\ codec' = [codec EXCEPT !.held = Tail(@)]
    /\ dec_pc' = "got"
    /\ UNCHANGED <<reading, seeking, game, packets, pkt, pkt_serial, finished,
                   pictures, display>>

\* Mutant: the end of the stream is not noted.
EofNotNoted ==
    /\ dec_pc = "receive"
    /\ Exhausted
    /\ codec' = FreshCodec
    /\ dec_pc' = "check"
    /\ UNCHANGED <<reading, seeking, game, packets, pkt, pkt_serial, finished, frame,
                   pictures, display>>

ReceiveEof ==
    /\ dec_pc = "receive"
    /\ Exhausted
    /\ finished' = pkt_serial
    /\ codec' = FreshCodec
    /\ dec_pc' = "check"
    /\ UNCHANGED <<reading, seeking, game, packets, pkt, pkt_serial, frame,
                   pictures, display>>

ReceiveNothing ==
    /\ dec_pc = "receive"
    /\ ~HasOutput /\ ~Exhausted
    /\ dec_pc' = "get"
    /\ UNCHANGED <<reading, seeking, game, packets, pkt, pkt_serial, codec, finished,
                   frame, pictures, display>>

\* Mutant: the codec keeps the frames of the generation before.
GetKeepsCodec ==
    /\ dec_pc = "get"
    /\ Packets!Leave
    /\ pkt' = Head(contents)
    /\ pkt_serial' = generation
    /\ finished' = IF pkt_serial' # pkt_serial THEN 0 ELSE finished
    /\ dec_pc' = "compare"
    /\ UNCHANGED <<reading, seeking, game, codec, frame, pictures, display>>

\* queue->Get, which blocks while the queue is empty.  The first packet of a
\* new generation resets the codec and finished.
GetPacket ==
    /\ dec_pc = "get"
    /\ Packets!Leave
    /\ pkt' = Head(contents)
    /\ pkt_serial' = generation
    /\ IF pkt_serial' # pkt_serial
       THEN codec' = FreshCodec /\ finished' = 0
       ELSE UNCHANGED <<codec, finished>>
    /\ dec_pc' = "compare"
    /\ UNCHANGED <<reading, seeking, game, frame, pictures, display>>

\* A packet overtaken by a flush is dropped.
ComparePacket ==
    /\ dec_pc = "compare"
    /\ dec_pc' = IF generation = pkt_serial THEN "send" ELSE "get"
    /\ UNCHANGED <<reading, seeking, game, packets, pkt, pkt_serial, codec, finished,
                   frame, pictures, display>>

\* Mutant: the null packet is decoded like any other.
SendNullAsMedia ==
    /\ dec_pc = "send"
    /\ codec' = [codec EXCEPT !.held = Append(@, pkt)]
    /\ dec_pc' = "check"
    /\ UNCHANGED <<reading, seeking, game, packets, pkt, pkt_serial, finished, frame,
                   pictures, display>>

SendPacket ==
    /\ dec_pc = "send"
    /\ codec' = IF pkt = Eof THEN [codec EXCEPT !.draining = TRUE]
                             ELSE [codec EXCEPT !.held = Append(@, pkt)]
    /\ dec_pc' = "check"
    /\ UNCHANGED <<reading, seeking, game, packets, pkt, pkt_serial, finished, frame,
                   pictures, display>>

\* get_video_frame drops a frame that is late already, if more packets wait and
\* the video clock is of the same generation.
DropEarly ==
    /\ dec_pc = "got"
    /\ pkt_serial = vidclk_serial
    /\ contents # <<>>
    /\ dec_pc' = "check"
    /\ UNCHANGED <<reading, seeking, game, packets, pkt, pkt_serial, codec, finished,
                   frame, pictures, display>>

\* video_thread while a seek is being made exact: drop what is before the
\* target; the first frame at or after it ...
TestAccurate ==
    /\ dec_pc = "got"
    /\ dec_pc' = CASE ~accurate_video_seek_flag -> "queue"
                   [] accurate_video_seek_flag /\ frame < accurate_seek_time -> "check"
                   [] OTHER -> "clear"
    /\ UNCHANGED <<reading, seeking, game, packets, pkt, pkt_serial, codec, finished,
                   frame, pictures, display>>

\* ... ends it.
ClearAccurate ==
    /\ dec_pc = "clear"
    /\ accurate_video_seek_flag' = FALSE
    /\ dec_pc' = "queue"
    /\ UNCHANGED <<reading, seek_req, seek_pos, accurate_seek_time, game, packets, pkt,
                   pkt_serial, codec, finished, frame, pictures, display>>

\* Mutant: the frame is tagged with the generation of the queue, not its own.
QueueUnderCurrent ==
    /\ dec_pc = "queue"
    /\ Pictures!Produce([pts |-> frame, serial |-> generation])
    /\ dec_pc' = "check"
    /\ UNCHANGED <<reading, seeking, game, packets, pkt, pkt_serial, codec, finished,
                   frame, display>>

\* queue_picture: waits for room, then queues the frame under pkt_serial.
QueuePicture ==
    /\ dec_pc = "queue"
    /\ Pictures!Produce([pts |-> frame, serial |-> pkt_serial])
    /\ dec_pc' = "check"
    /\ UNCHANGED <<reading, seeking, game, packets, pkt, pkt_serial, codec, finished,
                   frame, display>>

Decode == \/ CheckSerial \/ ReceivePicture \/ ReceiveEof \/ ReceiveNothing \/ GetPacket
          \/ ComparePacket \/ SendPacket \/ DropEarly \/ TestAccurate \/ ClearAccurate
          \/ QueuePicture

(***************************************************************************)
(* The display thread: video_refresh while not paused.                     *)
(***************************************************************************)
\* A picture of an older generation is skipped.
SkipStale ==
    /\ disp_pc = "poll"
    /\ ~paused /\ pending # <<>>
    /\ Head(pending).serial # generation
    /\ Pictures!Consume
    /\ UNCHANGED <<reading, seeking, game, packets, decoder, display>>

\* The picture is of this generation and due: the video clock takes its pts.
PictureDue ==
    /\ disp_pc = "poll"
    /\ ~paused /\ pending # <<>>
    /\ Head(pending).serial = generation
    /\ vidclk_serial' = generation
    /\ disp_pc' = "due"
    /\ UNCHANGED <<reading, seeking, game, packets, decoder, pictures, screen>>

\* It is late, and there is another one: dropped.
DropLate ==
    /\ disp_pc = "due"
    /\ Len(pending) > 1
    /\ Pictures!Consume
    /\ disp_pc' = "poll"
    /\ UNCHANGED <<reading, seeking, game, packets, decoder, vidclk_serial, screen>>

\* Otherwise the picture leaves the queue ...
TakePicture ==
    /\ disp_pc = "due"
    /\ Pictures!Consume
    /\ disp_pc' = "show"
    /\ UNCHANGED <<reading, seeking, game, packets, decoder, vidclk_serial, screen>>

\* ... and video_display hands it to the engine.
ShowPicture ==
    /\ disp_pc = "show"
    /\ screen' = shown
    /\ disp_pc' = "poll"
    /\ UNCHANGED <<reading, seeking, game, packets, decoder, pictures, vidclk_serial>>

Display == SkipStale \/ PictureDue \/ DropLate \/ TakePicture \/ ShowPicture

-----------------------------------------------------------------------------
Next == (\E t \in Targets : Seek(t)) \/ SeekResume \/ SetRateEof \/ Reader \/ Decode \/ Display

\* The three threads loop for ever and a called Seek returns.  The demuxer may
\* fail a seek, but the user owes none.
Spec ==
    /\ Init /\ [][Next]_vars
    /\ WF_vars(SeekResume \/ SetRateEof)
    /\ WF_vars(Reader) /\ WF_vars(Decode) /\ WF_vars(Display)

-----------------------------------------------------------------------------
(***************************************************************************)
(* Properties.                                                             *)
(***************************************************************************)
Picture == [pts : Pts, serial : Nat]

\* The types of the variables.
TypeOK ==
    /\ read_pos \in 0..(LastFrame + 1) /\ eof \in BOOLEAN
    /\ read_pc \in {"loop", "time", "flag", "served", "eof", "fill", "read"}
    /\ seek_req \in BOOLEAN /\ seek_pos \in Pts
    /\ accurate_seek_time \in Pts /\ accurate_video_seek_flag \in BOOLEAN
    /\ paused \in BOOLEAN /\ game_pc \in {"idle", "requested", "resumed"}
    /\ contents \in Seq(Pts \cup {Eof}) /\ generation \in Nat
    /\ dec_pc \in {"check", "receive", "get", "compare", "send", "got", "clear", "queue"}
    /\ pkt \in Pts \cup {Eof} /\ pkt_serial \in Nat \cup {-1}
    /\ codec \in [held : Seq(Pts), draining : BOOLEAN]
    /\ finished \in Nat /\ frame \in Pts
    /\ pending \in Seq(Picture) /\ shown \in Picture \cup {NoPicture}
    /\ disp_pc \in {"poll", "due", "show"} /\ vidclk_serial \in Nat \cup {-1}
    /\ screen \in Picture \cup {NoPicture}

\* Frames of the current generation that have not got to the picture queue yet,
\* oldest first: with the decoder, in the codec, and in the packet queue.
InFlight ==
    (IF pkt_serial = generation
     THEN (IF dec_pc \in {"got", "clear", "queue"} THEN <<frame>> ELSE <<>>)
          \o codec.held
          \o (IF dec_pc \in {"compare", "send"} THEN <<pkt>> ELSE <<>>)
     ELSE <<>>)
    \o contents

Current == {i \in 1..Len(pending) : pending[i].serial = generation}

\* The frames of one generation never get out of order, are never duplicated,
\* and never mix with those of another, wherever they are on their way: what
\* the decoder still holds from before a seek is not taken for what it was
\* sent after it.
InOrder ==
    /\ \A i, j \in Current : i < j => pending[i].pts < pending[j].pts
    /\ \A i, j \in 1..Len(InFlight) :
          i < j => InFlight[j] = Eof \/ InFlight[i] < InFlight[j]
    /\ \A i \in Current, j \in 1..Len(InFlight) :
          InFlight[j] = Eof \/ pending[i].pts < InFlight[j]

\* Between two seeks the screen only goes forward in the file, and it never
\* goes back to a generation it has left.
ScreenForward ==
    [][screen' # screen =>
         \/ screen'.serial > screen.serial
         \/ screen'.serial = screen.serial /\ screen'.pts > screen.pts]_screen

\* The picture handed to the engine last, or the one the display thread has taken
\* from the queue to do that.
Displayed == IF disp_pc = "show" THEN shown ELSE screen

\* Playback is only ended when every frame read since the last seek has gone
\* through the decoder and has left the picture queue.  However many were late or
\* before the target of the seek, the last to leave is of this generation and was
\* not dropped: it is on the screen, or the display thread, which the test for
\* the end does not ask, is about to put it there.
EndIsTheEnd ==
    [][~paused /\ paused' =>
         /\ read_pos = LastFrame + 1
         /\ shown.serial = generation /\ Displayed = shown
         /\ Current = {}
         /\ \A i \in 1..Len(InFlight) : InFlight[i] = Eof]_vars

\* The end of the file is noticed: once the demuxer has nothing more, playback
\* ends, unless another seek comes.
EndNoticed == eof ~> (paused \/ seek_req)

\* A seek is served, and afterwards a picture of its generation reaches the
\* screen or playback ends.
SeekShows == seek_req ~> (~seek_req /\ (screen.serial = generation \/ paused))

\* An exact seek ("accurate_video_seek_flag": exact video seek) shows nothing
\* from before its target.
AccurateSeek ==
    [][screen' # screen /\ screen'.serial = generation /\ generation > 1
         => screen'.pts >= accurate_seek_time]_vars
=============================================================================
