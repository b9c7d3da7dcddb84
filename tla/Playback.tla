------------------------------ MODULE Playback ------------------------------
(***************************************************************************)
(* One open media played to its end: the read thread, the two decoders, the*)
(* audio thread, the display thread, and the game thread that pauses,      *)
(* resumes, seeks and loops meanwhile.  The state of the player is kept    *)
(* twice, in CurrentState (for the engine) and in paused (for the threads),*)
(* and the sound waits for the picture through last_audio_pts and          *)
(* last_video_pts; only the game thread holds CriticalSection when it      *)
(* writes any of this.                                                     *)
(*                                                                         *)
(* VideoPipeline shows how serials and exact seeks work inside one stream. *)
(* Here a frame only knows whether the packet queue was flushed since      *)
(* (fresh = FALSE: its serial is not the one of its queue), a seek goes    *)
(* straight to its target, and a decoder moves packets to frames.          *)
(***************************************************************************)
EXTENDS Integers, Sequences

CONSTANTS
    File,           \* the packets of the media in the order they are read
    Targets,        \* positions (indices of File) the user seeks to
    Gap,            \* how far the sound may be ahead of the picture: 3 / FrameRate
    EndZone,        \* length of the end where it does not wait: 0.5 s
    MIN_FRAMES,     \* packets that are enough for one queue
    MAX_QUEUE_SIZE, \* packets that are enough for both together
    max_size,       \* capacity of the frame queue of each stream
    MaxSamples,     \* capacity of the queue of audio samples
    MaxCalls        \* bound: calls of the game thread

Streams == {"audio", "video"}

\* The null packet that ends a stream.
Eof == -1

ASSUME PlaybackAssumption ==
    /\ File \in Seq([stream : Streams, time : Nat])
    /\ Targets \subseteq 1..Len(File)
    /\ Gap \in Nat /\ EndZone \in Nat
    /\ MIN_FRAMES \in Nat /\ MAX_QUEUE_SIZE \in Nat
    /\ max_size \in [Streams -> Nat \ {0}] /\ MaxSamples \in Nat \ {0}
    /\ MaxCalls \in Nat

NoFrame == [time |-> -1, fresh |-> FALSE]
Frames == [time : Nat, fresh : BOOLEAN]

VARIABLES
    \* the game thread, which holds CriticalSection unless it is idle
    game,               \* where it is in SetRate or Seek
    target,             \* argument of Seek
    calls,              \* calls it has begun (bounded by MaxCalls)
    CurrentState, paused, ShouldLoop,
    \* the seek requested by stream_seek
    seek_req, seek_pos,
    \* the read thread
    read_pc,            \* where it is in its loop
    read_pos,           \* next packet av_read_frame returns
    eof,                \* the null packets have been queued
    \* the streams
    packets, frames,    \* packet queue and frame queue of each
    finished,           \* the end of the stream has been decoded
    \* the audio and the display thread
    aud_pc, sound,      \* where it is, frame it took
    disp_pc, picture,
    last_audio_pts, last_video_pts,
    samples,            \* audio samples the engine has not fetched
    \* history: read by the properties only
    overlapped,         \* the last SetRate(1) overlapped the end of the playback
    heard,              \* the last sound taken since the last seek was handed over
    strayed             \* a frame of before the last seek was handed over after it

engine == <<game, target, calls>>
state == <<CurrentState, paused, ShouldLoop>>
seeking == <<seek_req, seek_pos>>
reading == <<read_pc, read_pos, eof>>
streams == <<packets, frames, finished>>
sync == <<last_audio_pts, last_video_pts, heard, strayed>>
audio == <<aud_pc, sound>>
display == <<disp_pc, picture>>
vars == <<engine, state, seeking, reading, streams, sync, audio, display, samples,
          overlapped>>

Duration ==
    LET Ends == {File[i].time + 1 : i \in 1..Len(File)}
    IN  CHOOSE d \in Ends \cup {0} : \A e \in Ends : e <= d

\* The threads have been started and the engine has answered MediaOpened with
\* SetRate(1).
Init ==
    /\ game = "idle" /\ target = 1 /\ calls = 0
    /\ CurrentState = "Playing" /\ paused = FALSE /\ ShouldLoop = FALSE
    /\ seek_req = FALSE /\ seek_pos = 1
    /\ read_pc = "top" /\ read_pos = 1 /\ eof = FALSE
    /\ packets = [s \in Streams |-> <<>>] /\ frames = [s \in Streams |-> <<>>]
    /\ finished = [s \in Streams |-> FALSE]
    /\ aud_pc = "poll" /\ sound = NoFrame
    /\ disp_pc = "poll" /\ picture = NoFrame
    /\ last_audio_pts = 0 /\ last_video_pts = 0
    /\ samples = 0
    /\ overlapped = FALSE /\ heard = FALSE /\ strayed = FALSE

-----------------------------------------------------------------------------
(***************************************************************************)
(* The game thread.                                                        *)
(***************************************************************************)
Begin == game = "idle" /\ calls < MaxCalls /\ calls' = calls + 1

\* SetRate(0): the state for the engine first ...
SetRatePause ==
    /\ Begin
    /\ CurrentState' = "Paused"
    /\ game' = "pause"
    /\ overlapped' = FALSE
    /\ UNCHANGED <<target, paused, ShouldLoop, seeking, reading, streams, sync, audio,
                   display, samples>>

\* ... then the one for the threads.
PauseThreads ==
    /\ game = "pause"
    /\ paused' = TRUE
    /\ game' = "idle"
    /\ UNCHANGED <<target, calls, CurrentState, ShouldLoop, seeking, reading, streams, sync, audio,
                   display, samples, overlapped>>

\* SetRate(1), in the same order.
StartPlaying ==
    /\ CurrentState' = "Playing"
    /\ game' = "resume"
    /\ overlapped' = (read_pc = "ending")
    /\ UNCHANGED <<target, paused, ShouldLoop, seeking, reading, streams, sync, audio,
                   display, samples>>

SetRateResume == Begin /\ StartPlaying

ResumeThreads ==
    /\ game = "resume"
    /\ paused' = FALSE
    /\ game' = "eof"
    /\ UNCHANGED <<target, calls, CurrentState, ShouldLoop, seeking, reading, streams, sync, audio,
                   display, samples, overlapped>>

\* With eof set it starts again from the beginning, unless a seek is requested.
SetRateEof ==
    /\ game = "eof"
    /\ game' = IF eof /\ ~seek_req THEN "rewind" ELSE "idle"
    /\ UNCHANGED <<target, calls, state, seeking, reading, streams, sync, audio, display, samples,
                   overlapped>>

\* stream_seek after its test of seek_req, which the read thread may make at
\* the same time.
RequestSeek(pos) == seek_pos' = pos /\ seek_req' = TRUE

SetRateRewind ==
    /\ game = "rewind"
    /\ RequestSeek(1)
    /\ game' = "idle"
    /\ UNCHANGED <<target, calls, state, reading, streams, sync, audio, display, samples, overlapped>>

\* Seek is refused while a seek is requested; otherwise the samples are flushed
\* and stream_seek tests seek_req once more ...
Seek(t) ==
    /\ Begin
    /\ ~seek_req
    /\ target' = t
    /\ samples' = 0
    /\ game' = "seek"
    /\ UNCHANGED <<state, seeking, reading, streams, sync, audio, display, overlapped>>

\* ... and stores the position.
SeekStore ==
    /\ game = "seek"
    /\ RequestSeek(target)
    /\ game' = "sought" /\ target' = 1
    /\ UNCHANGED <<calls, state, reading, streams, sync, audio, display, samples, overlapped>>

\* A seek in state Stopped resumes the playback.
SeekResume ==
    /\ game = "sought"
    /\ CurrentState = "Stopped"
    /\ StartPlaying
    /\ UNCHANGED calls

SeekReturn ==
    /\ game = "sought"
    /\ CurrentState # "Stopped"
    /\ game' = "idle"
    /\ UNCHANGED <<target, calls, state, seeking, reading, streams, sync, audio, display, samples,
                   overlapped>>

SetLooping ==
    /\ Begin
    /\ ShouldLoop' = ~ShouldLoop
    /\ UNCHANGED <<game, target, CurrentState, paused, seeking, reading, streams, sync, audio,
                   display, samples, overlapped>>

\* The steps a call that has begun takes until it returns.
Return == \/ PauseThreads \/ ResumeThreads \/ SetRateEof \/ SetRateRewind
          \/ SeekStore \/ SeekResume \/ SeekReturn

Call == SetRatePause \/ SetRateResume \/ SetLooping \/ (\E t \in Targets : Seek(t))

(***************************************************************************)
(* The read thread.                                                        *)
(***************************************************************************)
\* avformat_seek_file fails: only an error is logged.
SeekFileFails ==
    /\ read_pc = "top"
    /\ seek_req
    /\ read_pc' = "served"
    /\ UNCHANGED <<engine, state, seeking, read_pos, eof, streams, sync, audio, display,
                   samples, overlapped>>

Stale(f) == [time |-> f.time, fresh |-> FALSE]

\* The file is positioned and both packet queues are flushed: their packets
\* are gone and every frame made from them is stale, wherever it is.  The times
\* the sound and the picture have come to are reset.
SeekFlush ==
    /\ read_pc = "top"
    /\ seek_req
    /\ read_pos' = seek_pos
    /\ packets' = [s \in Streams |-> <<>>]
    /\ frames' = [s \in Streams |-> [i \in 1..Len(frames[s]) |-> Stale(frames[s][i])]]
    /\ finished' = [s \in Streams |-> FALSE]
    /\ sound' = Stale(sound) /\ picture' = Stale(picture)
    /\ last_audio_pts' = 0 /\ last_video_pts' = 0
    /\ heard' = FALSE /\ strayed' = FALSE
    /\ read_pc' = "served"
    /\ UNCHANGED <<engine, state, seeking, eof, aud_pc, disp_pc, samples, overlapped>>

SeekServed ==
    /\ read_pc = "served"
    /\ seek_req' = FALSE
    /\ read_pc' = "renew"
    /\ UNCHANGED <<engine, state, seek_pos, read_pos, eof, streams, sync, audio, display,
                   samples, overlapped>>

SeekEof ==
    /\ read_pc = "renew"
    /\ eof' = FALSE
    /\ read_pc' = "check"
    /\ UNCHANGED <<engine, state, seeking, read_pos, streams, sync, audio, display, samples,
                   overlapped>>

EnoughPackets ==
    \/ \A s \in Streams : Len(packets[s]) > MIN_FRAMES
    \/ Len(packets["audio"]) + Len(packets["video"]) > MAX_QUEUE_SIZE

\* Mutant: the decoders are not asked whether they have finished.
DrainedUnasked == ~paused /\ \A s \in Streams : frames[s] = <<>>

\* Both decoders have finished and their frames have been taken.
Drained == ~paused /\ \A s \in Streams : finished[s] /\ frames[s] = <<>>

\* The loop goes on after a seek, or when none is requested: with enough packets
\* it waits and starts again, else it looks for the end before it reads.
Turn == read_pc = "check" \/ (read_pc = "top" /\ ~seek_req)

QueueFull ==
    /\ Turn
    /\ EnoughPackets
    /\ read_pc' = "top"
    /\ UNCHANGED <<engine, state, seeking, read_pos, eof, streams, sync, audio, display,
                   samples, overlapped>>

DetectEnd ==
    /\ Turn
    /\ ~EnoughPackets /\ Drained
    /\ read_pc' = "drained"
    /\ UNCHANGED <<engine, state, seeking, read_pos, eof, streams, sync, audio, display,
                   samples, overlapped>>

\* Samples wait to be fetched (the master clock is the sound): start again.
WaitSamples ==
    /\ read_pc = "drained"
    /\ samples # 0
    /\ read_pc' = "top"
    /\ UNCHANGED <<engine, state, seeking, read_pos, eof, streams, sync, audio, display,
                   samples, overlapped>>

\* Looping: the samples are flushed, and stream_seek tests seek_req ...
LoopTest ==
    /\ read_pc = "drained"
    /\ samples = 0
    /\ ShouldLoop
    /\ read_pc' = IF seek_req THEN "read" ELSE "rewind"
    /\ UNCHANGED <<engine, state, seeking, read_pos, eof, streams, sync, audio, display,
                   samples, overlapped>>

\* ... and goes back to the start.
LoopRewind ==
    /\ read_pc = "rewind"
    /\ RequestSeek(1)
    /\ read_pc' = "read"
    /\ UNCHANGED <<engine, state, read_pos, eof, streams, sync, audio, display, samples,
                   overlapped>>

\* The end: the state for the engine first ...
Stop ==
    /\ read_pc = "drained"
    /\ samples = 0
    /\ ~ShouldLoop
    /\ IF eof
       THEN /\ CurrentState' = "Stopped"
            /\ read_pc' = "ending"
            /\ overlapped' = (game = "resume")
       ELSE /\ read_pc' = "read"
            /\ UNCHANGED <<CurrentState, overlapped>>
    /\ UNCHANGED <<engine, paused, ShouldLoop, seeking, read_pos, eof, streams, sync, audio,
                   display, samples>>

\* Mutant: the threads are not stopped.
StopEngineOnly ==
    /\ read_pc = "ending"
    /\ read_pc' = "read"
    /\ UNCHANGED <<engine, state, seeking, read_pos, eof, streams, sync,
                   audio, display, samples, overlapped>>

\* ... then the one for the threads.
StopThreads ==
    /\ read_pc = "ending"
    /\ paused' = TRUE
    /\ read_pc' = "read"
    /\ UNCHANGED <<engine, CurrentState, ShouldLoop, seeking, read_pos, eof, streams, sync,
                   audio, display, samples, overlapped>>

\* Mutant: with enough packets the turn goes on to the read.
ReadsAnyway == read_pc = "read" \/ (Turn /\ ~Drained)

\* av_read_frame comes at the end of the turn.
Reads == read_pc = "read" \/ (Turn /\ ~EnoughPackets /\ ~Drained)

ReadPacket ==
    /\ Reads
    /\ read_pos <= Len(File)
    /\ packets' = [packets EXCEPT ![File[read_pos].stream] = Append(@, File[read_pos].time)]
    /\ read_pos' = read_pos + 1
    /\ eof' = FALSE
    /\ read_pc' = "top"
    /\ UNCHANGED <<engine, state, seeking, frames, finished, sync, audio, display, samples,
                   overlapped>>

\* Nothing more to read: one null packet for each stream, once.
ReadEof ==
    /\ Reads
    /\ read_pos > Len(File)
    /\ packets' = IF eof THEN packets ELSE [s \in Streams |-> Append(packets[s], Eof)]
    /\ eof' = TRUE
    /\ read_pc' = "top"
    /\ UNCHANGED <<engine, state, seeking, read_pos, frames, finished, sync, audio, display,
                   samples, overlapped>>

Reader == \/ SeekFileFails \/ SeekFlush \/ SeekServed \/ SeekEof \/ QueueFull \/ DetectEnd \/ WaitSamples
          \/ LoopTest \/ LoopRewind \/ Stop \/ StopThreads \/ ReadPacket \/ ReadEof

(***************************************************************************)
(* The decoder thread of a stream.                                         *)
(***************************************************************************)
DecodeFrame(s) ==
    /\ packets[s] # <<>>
    /\ Head(packets[s]) # Eof
    /\ Len(frames[s]) < max_size[s]
    /\ frames' = [frames EXCEPT ![s] = Append(@, [time |-> Head(packets[s]), fresh |-> TRUE])]
    /\ packets' = [packets EXCEPT ![s] = Tail(@)]
    /\ UNCHANGED <<engine, state, seeking, reading, finished, sync, audio, display, samples,
                   overlapped>>

DecodeEof(s) ==
    /\ packets[s] # <<>>
    /\ Head(packets[s]) = Eof
    /\ finished' = [finished EXCEPT ![s] = TRUE]
    /\ packets' = [packets EXCEPT ![s] = Tail(@)]
    /\ UNCHANGED <<engine, state, seeking, reading, frames, sync, audio, display, samples,
                   overlapped>>

Decode(s) == DecodeFrame(s) \/ DecodeEof(s)

(***************************************************************************)
(* The audio thread: AudioRenderThread, RenderAudio, audio_decode_frame.   *)
(***************************************************************************)
\* Mutant: the sound does not wait for the picture.
GateAlwaysOpen == TRUE

\* Mutant: it waits for the picture even at the end.
GateToTheEnd == last_audio_pts - last_video_pts < Gap

\* The picture is not too far behind, or it has come to the end.
GateIsOpen == \/ last_audio_pts - last_video_pts < Gap
              \/ last_video_pts + EndZone > Duration

Silent == CurrentState \in {"Paused", "Stopped"}

\* Mutant: the queue of samples is not asked for room.
EnterWithoutRoom ==
    /\ aud_pc = "poll"
    /\ ~paused /\ ~Silent
    /\ GateIsOpen
    /\ aud_pc' = "take"
    /\ UNCHANGED <<engine, state, seeking, reading, streams, sync, sound, display, samples,
                   overlapped>>

\* AudioRenderThread tests paused and the gate, audio_decode_frame both states.
AudioEnter ==
    /\ aud_pc = "poll"
    /\ ~paused /\ ~Silent
    /\ samples < MaxSamples
    /\ GateIsOpen
    /\ aud_pc' = "take"
    /\ UNCHANGED <<engine, state, seeking, reading, streams, sync, sound, display, samples,
                   overlapped>>

\* It waits for a frame that is not stale, whatever happens meanwhile.
AudioTake ==
    /\ aud_pc = "take"
    /\ frames["audio"] # <<>>
    /\ frames' = [frames EXCEPT !["audio"] = Tail(@)]
    /\ IF Head(frames["audio"]).fresh
       THEN sound' = Head(frames["audio"]) /\ aud_pc' = "taken"
       ELSE UNCHANGED audio
    /\ UNCHANGED <<engine, state, seeking, reading, packets, finished, sync, display, samples,
                   overlapped>>

\* Taken, but "ignore the frame": playback is paused or stopped by now.
AudioIgnore ==
    /\ aud_pc = "taken"
    /\ Silent
    /\ aud_pc' = "poll" /\ sound' = NoFrame
    /\ heard' = FALSE
    /\ UNCHANGED <<engine, state, seeking, reading, streams, last_audio_pts, last_video_pts,
                   strayed, display, samples, overlapped>>

AudioKeep ==
    /\ aud_pc = "taken"
    /\ ~Silent
    /\ aud_pc' = "add"
    /\ UNCHANGED <<engine, state, seeking, reading, streams, sync, sound, display, samples,
                   overlapped>>

\* With CriticalSection held.  The time of a sound is the one of its end.
AddAudio ==
    /\ aud_pc = "add"
    /\ game = "idle"
    /\ last_audio_pts' = sound.time + 1
    /\ heard' = sound.fresh
    /\ strayed' = (strayed \/ ~sound.fresh)
    /\ samples' = samples + 1
    /\ aud_pc' = "poll" /\ sound' = NoFrame
    /\ UNCHANGED <<engine, state, seeking, reading, streams, last_video_pts, display,
                   overlapped>>

AudioThread == AudioEnter \/ AudioTake \/ AudioIgnore \/ AudioKeep

(***************************************************************************)
(* The display thread: video_refresh and upload_texture.  The waits of     *)
(* video_refresh end by the clock of the machine.                          *)
(***************************************************************************)
TakePicture ==
    /\ disp_pc = "poll"
    /\ ~paused
    /\ frames["video"] # <<>>
    /\ frames' = [frames EXCEPT !["video"] = Tail(@)]

\* A stale picture is skipped.
SkipStale ==
    /\ TakePicture
    /\ ~Head(frames["video"]).fresh
    /\ UNCHANGED <<engine, state, seeking, reading, packets, finished, sync, audio, display,
                   samples, overlapped>>

\* A late one too, if there is another.
DropLate ==
    /\ TakePicture
    /\ Head(frames["video"]).fresh
    /\ Len(frames["video"]) > 1
    /\ UNCHANGED <<engine, state, seeking, reading, packets, finished, sync, audio, display,
                   samples, overlapped>>

ShowPicture ==
    /\ TakePicture
    /\ Head(frames["video"]).fresh
    /\ picture' = Head(frames["video"])
    /\ disp_pc' = "upload"
    /\ UNCHANGED <<engine, state, seeking, reading, packets, finished, sync, audio, samples,
                   overlapped>>

\* With CriticalSection held.
AddVideo ==
    /\ disp_pc = "upload"
    /\ game = "idle"
    /\ last_video_pts' = picture.time
    /\ strayed' = (strayed \/ ~picture.fresh)
    /\ disp_pc' = "poll" /\ picture' = NoFrame
    /\ UNCHANGED <<engine, state, seeking, reading, streams, last_audio_pts, heard, audio,
                   samples, overlapped>>

DisplayThread == SkipStale \/ DropLate \/ ShowPicture

\* The engine fetches a sample of the sound (and takes pictures as they come).
FetchAudio ==
    /\ samples > 0
    /\ samples' = samples - 1
    /\ UNCHANGED <<engine, state, seeking, reading, streams, sync, audio, display, overlapped>>

-----------------------------------------------------------------------------
Next == \/ Call \/ Return \/ Reader \/ (\E s \in Streams : Decode(s))
        \/ AudioThread \/ AddAudio \/ DisplayThread \/ AddVideo \/ FetchAudio

\* The threads loop for ever, a call of the game thread returns, and whoever
\* waits for CriticalSection gets it: the game thread holds it for moments.
Fairness == /\ WF_vars(Return) /\ WF_vars(Reader)
            /\ \A s \in Streams : WF_vars(Decode(s))
            /\ WF_vars(AudioThread) /\ SF_vars(AddAudio)
            /\ WF_vars(DisplayThread) /\ SF_vars(AddVideo)
            /\ WF_vars(FetchAudio)

Spec == Init /\ [][Next]_vars /\ Fairness

-----------------------------------------------------------------------------
\* Types: the values every variable keeps.
TypeOK ==
    /\ calls \in 0..MaxCalls
    /\ game \in {"idle", "pause", "resume", "eof", "rewind", "seek", "sought"}
    /\ target \in 1..(Len(File) + 1) /\ seek_pos \in 1..(Len(File) + 1)
    /\ CurrentState \in {"Playing", "Paused", "Stopped"}
    /\ paused \in BOOLEAN /\ ShouldLoop \in BOOLEAN /\ seek_req \in BOOLEAN
    /\ read_pc \in {"top", "served", "renew", "check", "drained", "rewind", "ending", "read"}
    /\ read_pos \in 1..(Len(File) + 1) /\ eof \in BOOLEAN
    /\ packets \in [Streams -> Seq(Nat \cup {Eof})]
    /\ frames \in [Streams -> Seq(Frames)]
    /\ finished \in [Streams -> BOOLEAN]
    /\ aud_pc \in {"poll", "take", "taken", "add"} /\ sound \in Frames \cup {NoFrame}
    /\ disp_pc \in {"poll", "upload"} /\ picture \in Frames \cup {NoFrame}
    /\ last_audio_pts \in Nat /\ last_video_pts \in Nat
    /\ samples \in 0..MaxSamples
    /\ overlapped \in BOOLEAN /\ heard \in BOOLEAN /\ strayed \in BOOLEAN

\* The two states of the player agree whenever neither thread is between its
\* two writes, unless the last SetRate(1) ran while the read thread was
\* stopping the playback (nothing excludes that: then the player can end up
\* Playing but paused, or Stopped but running).
InStep ==
    (game \notin {"pause", "resume"} /\ read_pc # "ending" /\ ~overlapped)
        => (paused <=> CurrentState \in {"Paused", "Stopped"})

\* When the read thread declares the end, the whole file has been read, both
\* streams are decoded, and no frame is left in a queue.
EndDrained ==
    [][read_pc # "ending" /\ read_pc' = "ending" =>
         /\ read_pos > Len(File)
         /\ \A s \in Streams : frames[s] = <<>> /\ \A i \in 1..Len(packets[s]) : packets[s][i] = Eof
      ]_vars

\* Both queues together never hold more than one packet, or the two null
\* packets of the end, beyond what is enough: the read thread tests this before
\* it looks for the end of the playback and reads some steps later, and no turn
\* of its loop reads without a test of its own.
QueuesBounded == Len(packets["audio"]) + Len(packets["video"]) <= MAX_QUEUE_SIZE + 2

\* A film as demuxers deliver it: the pictures go forward in time, and a sound
\* begins no later than the one before it ends (a sound takes one unit).
SteadyFilm ==
    \A i, j \in 1..Len(File) :
        i < j /\ File[i].stream = File[j].stream =>
            /\ File[i].stream = "video" => File[i].time <= File[j].time
            /\ File[i].stream = "audio"
               /\ (\A k \in (i + 1)..(j - 1) : File[k].stream # "audio")
                   => File[j].time <= File[i].time + 1

\* A sound that follows the one before it is handed over at most Gap ahead of
\* the picture, or in the end zone, as long as no frame of before a seek has
\* slipped through after it (and the film is a SteadyFilm).
LipSync ==
    [][(heard /\ heard' /\ ~strayed' /\ last_audio_pts' # last_audio_pts) =>
         \/ last_audio_pts' - last_video_pts <= Gap
         \/ last_video_pts + EndZone > Duration]_vars

\* A player that runs comes to its end (or goes back to the start, when it
\* loops): the sound, which waits for the picture, and the reader, which waits
\* for both, do not wait for each other for ever.
PlaysToTheEnd == (~paused /\ ~overlapped) ~> (paused \/ seek_req \/ overlapped)
=============================================================================
