--------------------------- MODULE PlaybackProofs ---------------------------
(***************************************************************************)
(* Theorems about Playback, for any file, any targets, any size of the     *)
(* queues and any number of calls.                                         *)
(***************************************************************************)
EXTENDS Playback, Induction, TLAPS

\* The steps of each thread, grouped by what they change.
GameSteps == Call \/ Return

(***************************************************************************)
(* Types.                                                                  *)
(***************************************************************************)
\* TypeOK in two parts.
Flags ==
    /\ paused \in BOOLEAN /\ ShouldLoop \in BOOLEAN /\ seek_req \in BOOLEAN /\ eof \in BOOLEAN
    /\ finished \in [Streams -> BOOLEAN]
    /\ overlapped \in BOOLEAN /\ heard \in BOOLEAN /\ strayed \in BOOLEAN

Places ==
    /\ calls \in 0..MaxCalls
    /\ game \in {"idle", "pause", "resume", "eof", "rewind", "seek", "sought"}
    /\ target \in 1..(Len(File) + 1) /\ seek_pos \in 1..(Len(File) + 1)
    /\ CurrentState \in {"Playing", "Paused", "Stopped"}
    /\ read_pc \in {"top", "served", "renew", "check", "drained", "rewind", "ending", "read"}
    /\ read_pos \in 1..(Len(File) + 1)
    /\ packets \in [Streams -> Seq(Nat \cup {Eof})]
    /\ frames \in [Streams -> Seq(Frames)]
    /\ aud_pc \in {"poll", "take", "taken", "add"} /\ sound \in Frames \cup {NoFrame}
    /\ disp_pc \in {"poll", "upload"} /\ picture \in Frames \cup {NoFrame}
    /\ last_audio_pts \in Nat /\ last_video_pts \in Nat
    /\ samples \in 0..MaxSamples

LEMMA TwoParts == TypeOK <=> Flags /\ Places
  BY Zenon DEF TypeOK, Flags, Places

LEMMA Positions ==
    /\ Len(File) \in Nat
    /\ 1 \in 1..(Len(File) + 1)
    /\ Targets \subseteq 1..(Len(File) + 1)
    /\ \A i \in 1..Len(File) : File[i].stream \in Streams /\ File[i].time \in Nat
  <1> DEFINE Packet == [stream : Streams, time : Nat]
  <1>1. File \in Seq(Packet) /\ Targets \subseteq 1..Len(File)
    BY PlaybackAssumption DEF PlaybackAssumption
  <1>2. \A i \in 1..Len(File) : File[i] \in Packet
    <2> HIDE DEF Packet
    <2> QED BY <1>1
  <1>3. Len(File) \in Nat
    <2> HIDE DEF Packet
    <2> QED BY <1>1
  <1> QED
    BY <1>1, <1>2, <1>3

LEMMA StaleType ==
    ASSUME NEW f \in Frames \cup {NoFrame}
    PROVE  Stale(f) \in Frames \cup {NoFrame} /\ (f \in Frames => Stale(f) \in Frames)
  <1>1. ASSUME f \in Frames PROVE Stale(f) \in Frames
    BY <1>1 DEF Stale, Frames
  <1>2. Stale(NoFrame) = NoFrame
    <2>1. NoFrame.time = -1
      BY DEF NoFrame
    <2> QED
      BY <2>1, Zenon DEF Stale, NoFrame
  <1> QED
    BY <1>1, <1>2

LEMMA FlagsInit == Init => Flags
  <1>1. [s \in Streams |-> FALSE] \in [Streams -> BOOLEAN]
    OBVIOUS
  <1> QED
    BY <1>1, Zenon DEF Init, Flags

LEMMA FinishedType ==
    ASSUME NEW f \in [Streams -> BOOLEAN], NEW s \in Streams
    PROVE  [f EXCEPT ![s] = TRUE] \in [Streams -> BOOLEAN]
  OBVIOUS

LEMMA FreshType == ASSUME NEW f \in Frames \cup {NoFrame} PROVE f.fresh \in BOOLEAN
  <1>1. CASE f \in Frames
    BY <1>1 DEF Frames
  <1>2. NoFrame.fresh = FALSE
    BY DEF NoFrame
  <1> QED
    BY <1>1, <1>2

LEMMA FlagsStep == Flags /\ Places /\ [Next]_vars => Flags'
  <1> SUFFICES ASSUME Flags, Places, [Next]_vars PROVE Flags'
    OBVIOUS
  <1> USE DEF Flags, vars, engine, state, seeking, reading, streams, sync, audio, display
  <1>1. CASE SetRatePause
    BY <1>1, Zenon DEF SetRatePause
  <1>2. CASE SetRateResume
    BY <1>2, Zenon DEF SetRateResume, StartPlaying
  <1>3. CASE SetLooping
    BY <1>3, Zenon DEF SetLooping
  <1>4. CASE PauseThreads
    BY <1>4, Zenon DEF PauseThreads
  <1>5. CASE ResumeThreads
    BY <1>5, Zenon DEF ResumeThreads
  <1>6. CASE SetRateEof
    BY <1>6, Zenon DEF SetRateEof
  <1>7. CASE SetRateRewind
    BY <1>7, Zenon DEF SetRateRewind, RequestSeek
  <1>8. CASE SeekStore
    BY <1>8, Zenon DEF SeekStore, RequestSeek
  <1>9. CASE SeekResume
    BY <1>9, Zenon DEF SeekResume, StartPlaying
  <1>10. CASE SeekReturn
    BY <1>10, Zenon DEF SeekReturn
  <1>11. CASE SeekFileFails
    BY <1>11, Zenon DEF SeekFileFails
  <1>12. CASE SeekFlush
    BY <1>12, Zenon DEF SeekFlush
  <1>13. CASE SeekServed
    BY <1>13, Zenon DEF SeekServed
  <1>14. CASE SeekEof
    BY <1>14, Zenon DEF SeekEof
  <1>15. CASE QueueFull
    BY <1>15, Zenon DEF QueueFull
  <1>16. CASE DetectEnd
    BY <1>16, Zenon DEF DetectEnd
  <1>17. CASE WaitSamples
    BY <1>17, Zenon DEF WaitSamples
  <1>18. CASE LoopTest
    BY <1>18, Zenon DEF LoopTest
  <1>19. CASE LoopRewind
    BY <1>19, Zenon DEF LoopRewind, RequestSeek
  <1>20. CASE Stop
    BY <1>20, Zenon DEF Stop
  <1>21. CASE StopThreads
    BY <1>21, Zenon DEF StopThreads
  <1>22. CASE ReadPacket
    BY <1>22, Zenon DEF ReadPacket
  <1>23. CASE ReadEof
    BY <1>23, Zenon DEF ReadEof
  <1>24. CASE AudioEnter
    BY <1>24, Zenon DEF AudioEnter
  <1>25. CASE AudioTake
    BY <1>25, Zenon DEF AudioTake
  <1>26. CASE AudioIgnore
    BY <1>26, Zenon DEF AudioIgnore
  <1>27. CASE AudioKeep
    BY <1>27, Zenon DEF AudioKeep
  <1>28. CASE AddAudio
    <2>1. sound.fresh \in BOOLEAN
      BY FreshType DEF Places
    <2> QED
      BY <1>28, <2>1, Zenon DEF AddAudio
  <1>29. CASE SkipStale
    BY <1>29, Zenon DEF SkipStale, TakePicture
  <1>30. CASE DropLate
    BY <1>30, Zenon DEF DropLate, TakePicture
  <1>31. CASE ShowPicture
    BY <1>31, Zenon DEF ShowPicture, TakePicture
  <1>32. CASE AddVideo
    BY <1>32, Zenon DEF AddVideo
  <1>33. CASE FetchAudio
    BY <1>33, Zenon DEF FetchAudio
  <1>34. ASSUME NEW t \in Targets, Seek(t) PROVE Flags'
    BY <1>34, Zenon DEF Seek
  <1>35. ASSUME NEW s \in Streams, Decode(s) PROVE Flags'
    BY <1>35, FinishedType, Zenon DEF Decode, DecodeFrame, DecodeEof
  <1>36. CASE UNCHANGED vars
    BY <1>36, Zenon
  <1> QED
    BY <1>1, <1>2, <1>3, <1>4, <1>5, <1>6, <1>7, <1>8, <1>9, <1>10, <1>11, <1>12, <1>13, <1>14, <1>15, <1>16, <1>17, <1>18, <1>19, <1>20, <1>21, <1>22, <1>23, <1>24, <1>25, <1>26, <1>27, <1>28, <1>29, <1>30, <1>31, <1>32, <1>33, <1>34, <1>35, <1>36, Zenon
       DEF Next, Call, Return, Reader, AudioThread, DisplayThread
LEMMA PlacesInit == Init => Places
  <1> SUFFICES ASSUME Init PROVE Places
    OBVIOUS
  <1>1. packets \in [Streams -> Seq(Nat \cup {Eof})] /\ frames \in [Streams -> Seq(Frames)]
    BY DEF Init
  <1>2. MaxCalls \in Nat /\ MaxSamples \in Nat
    BY PlaybackAssumption DEF PlaybackAssumption
  <1> QED
    BY <1>1, <1>2, Positions DEF Init, Places, NoFrame, Frames

LEMMA PlacesGame == Places /\ GameSteps => Places'
  <1> SUFFICES ASSUME Places, GameSteps PROVE Places'
    OBVIOUS
  <1> USE DEF Places, engine, state, seeking, reading, streams, sync, audio, display
  <1>1. CASE SetRatePause
    <2>1. overlapped' \in BOOLEAN
      BY <1>1 DEF SetRatePause
    <2>2. calls' \in 0..MaxCalls
      BY <1>1, PlaybackAssumption DEF SetRatePause, Begin, PlaybackAssumption
    <2> QED
      BY <1>1, <2>1, <2>2 DEF SetRatePause
  <1>2. CASE SetRateResume
    BY <1>2, PlaybackAssumption DEF SetRateResume, StartPlaying, Begin, PlaybackAssumption
  <1>3. CASE SetLooping
    BY <1>3, PlaybackAssumption DEF SetLooping, Begin, PlaybackAssumption
  <1>4. ASSUME NEW t \in Targets, Seek(t) PROVE Places'
    <2>1. samples' \in 0..MaxSamples
      BY <1>4, PlaybackAssumption DEF Seek, PlaybackAssumption
    <2>2. calls' \in 0..MaxCalls
      BY <1>4, PlaybackAssumption DEF Seek, Begin, PlaybackAssumption
    <2>3. target' \in 1..(Len(File) + 1)
      BY <1>4, Positions DEF Seek
    <2> QED
      BY <1>4, <2>1, <2>2, <2>3 DEF Seek
  <1>5. CASE PauseThreads
    BY <1>5 DEF PauseThreads
  <1>6. CASE ResumeThreads
    <2>1. paused' \in BOOLEAN
      BY <1>6 DEF ResumeThreads
    <2> QED
      BY <1>6, <2>1 DEF ResumeThreads
  <1>7. CASE SetRateEof
    BY <1>7 DEF SetRateEof
  <1>8. CASE SetRateRewind
    BY <1>8, Positions DEF SetRateRewind, RequestSeek
  <1>9. CASE SeekStore
    BY <1>9, Positions DEF SeekStore, RequestSeek
  <1>10. CASE SeekResume
    BY <1>10 DEF SeekResume, StartPlaying
  <1>11. CASE SeekReturn
    BY <1>11 DEF SeekReturn
  <1> QED
    BY <1>1, <1>2, <1>3, <1>4, <1>5, <1>6, <1>7, <1>8, <1>9, <1>10, <1>11
       DEF GameSteps, Call, Return

LEMMA PlacesReader == Places /\ Reader => Places'
  <1> SUFFICES ASSUME Places, Reader PROVE Places'
    OBVIOUS
  <1> USE DEF Places, engine, state, seeking, reading, streams, sync, audio, display
  <1>1. CASE SeekFileFails
    BY <1>1 DEF SeekFileFails
  <1>2. CASE SeekFlush
    <2>1. packets' \in [Streams -> Seq(Nat \cup {Eof})]
      BY <1>2 DEF SeekFlush
    <2>2. frames' \in [Streams -> Seq(Frames)]
      <3>1. ASSUME NEW s \in Streams
            PROVE  [i \in 1..Len(frames[s]) |-> Stale(frames[s][i])] \in Seq(Frames)
        <4>1. frames[s] \in Seq(Frames)
          BY <3>1
        <4>2. \A i \in 1..Len(frames[s]) : Stale(frames[s][i]) \in Frames
          BY <4>1, StaleType
        <4> QED
          BY <4>1, <4>2
      <3> QED
        BY <1>2, <3>1 DEF SeekFlush
    <2>3. sound' \in Frames \cup {NoFrame} /\ picture' \in Frames \cup {NoFrame}
      BY <1>2, StaleType DEF SeekFlush
    <2>4. UNCHANGED <<game, target, calls, CurrentState, paused, ShouldLoop, seek_req, seek_pos,
                      eof, aud_pc, disp_pc, samples, overlapped>>
          /\ read_pos' = seek_pos /\ read_pc' = "served"
          /\ last_audio_pts' = 0 /\ last_video_pts' = 0 /\ heard' = FALSE /\ strayed' = FALSE
      BY <1>2 DEF SeekFlush
    <2> QED
      BY <2>1, <2>2, <2>3, <2>4
  <1>3. CASE SeekServed
    BY <1>3 DEF SeekServed
  <1>4. CASE SeekEof
    BY <1>4 DEF SeekEof
  <1>5. CASE QueueFull \/ DetectEnd
    BY <1>5 DEF QueueFull, DetectEnd
  <1>6. CASE WaitSamples \/ LoopTest
    BY <1>6 DEF WaitSamples, LoopTest
  <1>7. CASE LoopRewind
    BY <1>7, Positions DEF LoopRewind, RequestSeek
  <1>8. CASE Stop
    BY <1>8 DEF Stop
  <1>9. CASE StopThreads
    BY <1>9 DEF StopThreads
  <1>10. CASE ReadPacket
    <2>1. read_pos \in 1..Len(File) /\ read_pos' \in 1..(Len(File) + 1)
      BY <1>10, Positions DEF ReadPacket
    <2>2. File[read_pos].stream \in Streams /\ File[read_pos].time \in Nat
      BY <2>1, Positions
    <2>3. packets' \in [Streams -> Seq(Nat \cup {Eof})]
      <3>1. ASSUME NEW s \in Streams
            PROVE  Append(packets[s], File[read_pos].time) \in Seq(Nat \cup {Eof})
        BY <2>2
      <3>2. packets' = [packets EXCEPT ![File[read_pos].stream] =
                          Append(packets[File[read_pos].stream], File[read_pos].time)]
        BY <1>10 DEF ReadPacket
      <3> QED
        BY <2>2, <3>1, <3>2
    <2> QED
      BY <1>10, <2>1, <2>3 DEF ReadPacket
  <1>11. CASE ReadEof
    <2>1. packets' \in [Streams -> Seq(Nat \cup {Eof})]
      BY <1>11 DEF ReadEof
    <2> QED
      BY <1>11, <2>1 DEF ReadEof
  <1> QED
    BY <1>1, <1>2, <1>3, <1>4, <1>5, <1>6, <1>7, <1>8, <1>9, <1>10, <1>11 DEF Reader

LEMMA PlacesDecode == ASSUME Places, NEW s \in Streams, Decode(s) PROVE Places'
  <1> USE DEF Places, engine, state, seeking, reading, streams, sync, audio, display
  <1>0. packets[s] # <<>> /\ packets[s] \in Seq(Nat \cup {Eof}) /\ frames[s] \in Seq(Frames)
    BY DEF Decode, DecodeFrame, DecodeEof
  <1>1. Tail(packets[s]) \in Seq(Nat \cup {Eof}) /\ Head(packets[s]) \in Nat \cup {Eof}
    BY <1>0
  <1>2. CASE DecodeFrame(s)
    <2>1. [time |-> Head(packets[s]), fresh |-> TRUE] \in Frames
      BY <1>1, <1>2 DEF DecodeFrame, Frames
    <2>2. frames' \in [Streams -> Seq(Frames)]
      BY <1>0, <1>2, <2>1 DEF DecodeFrame
    <2>3. packets' \in [Streams -> Seq(Nat \cup {Eof})]
      <3>1. packets' = [packets EXCEPT ![s] = Tail(@)] /\ packets \in [Streams -> Seq(Nat \cup {Eof})]
        BY <1>2 DEF DecodeFrame
      <3> QED
        BY ONLY <1>1, <3>1
    <2> QED
      BY <1>2, <2>2, <2>3 DEF DecodeFrame
  <1>3. CASE DecodeEof(s)
    <2>1. packets' \in [Streams -> Seq(Nat \cup {Eof})]
      BY <1>1, <1>3 DEF DecodeEof
    <2> QED
      BY <1>3, <2>1 DEF DecodeEof
  <1> QED
    BY <1>2, <1>3 DEF Decode

LEMMA PlacesThreads == Places /\ (AudioThread \/ DisplayThread) => Places'
  <1> SUFFICES ASSUME Places, AudioThread \/ DisplayThread PROVE Places'
    OBVIOUS
  <1> USE DEF Places, engine, state, seeking, reading, streams, sync, audio, display
  <1>1. CASE AudioEnter
    BY <1>1 DEF AudioEnter
  <1>2. ASSUME NEW s \in Streams, frames[s] # <<>>
        PROVE  /\ [frames EXCEPT ![s] = Tail(@)] \in [Streams -> Seq(Frames)]
               /\ Head(frames[s]) \in Frames
    BY <1>2
  <1>3. CASE AudioTake
    <2>1. frames' \in [Streams -> Seq(Frames)] /\ sound' \in Frames \cup {NoFrame}
          /\ aud_pc' \in {"take", "taken"}
      BY <1>2, <1>3 DEF AudioTake, Streams
    <2> QED
      BY <1>3, <2>1 DEF AudioTake
  <1>4. CASE AudioIgnore
    BY <1>4 DEF AudioIgnore
  <1>5. CASE AudioKeep
    BY <1>5 DEF AudioKeep
  <1>6. CASE DisplayThread
    <2>1. frames' \in [Streams -> Seq(Frames)] /\ Head(frames["video"]) \in Frames
      BY <1>2, <1>6 DEF DisplayThread, SkipStale, DropLate, ShowPicture, TakePicture, Streams
    <2>2. CASE SkipStale
      BY <2>1, <2>2 DEF SkipStale
    <2>3. CASE DropLate
      BY <2>1, <2>3 DEF DropLate
    <2>4. CASE ShowPicture
      BY <2>1, <2>4 DEF ShowPicture
    <2> QED
      BY <1>6, <2>2, <2>3, <2>4 DEF DisplayThread
  <1> QED
    BY <1>1, <1>3, <1>4, <1>5, <1>6 DEF AudioThread

\* The audio thread is past its test of the room for a sample.
Carrying == aud_pc \in {"take", "taken", "add"} => samples < MaxSamples

LEMMA CarriedStep == Places /\ Carrying /\ [Next]_vars => Carrying'
  <1> SUFFICES ASSUME Places, Carrying, [Next]_vars PROVE Carrying'
    OBVIOUS
  <1> USE PlaybackAssumption
      DEF PlaybackAssumption, Places, Carrying, engine, state, seeking, reading, streams, sync,
          audio, display
  <1>1. CASE Call \/ Return
    <2>1. aud_pc' = aud_pc /\ (samples' = samples \/ samples' = 0)
      BY <1>1 DEF Call, Return, SetRatePause, SetRateResume, StartPlaying, SetLooping, Seek,
                  PauseThreads, ResumeThreads, SetRateEof, SetRateRewind, SeekStore, SeekResume,
                  SeekReturn
    <2> QED
      BY <2>1
  <1>2. CASE Reader
    <2>1. aud_pc' = aud_pc /\ samples' = samples
      BY <1>2 DEF Reader, SeekFileFails, SeekFlush, SeekServed, SeekEof, QueueFull, DetectEnd,
                  WaitSamples, LoopTest, LoopRewind, Stop, StopThreads, ReadPacket, ReadEof
    <2> QED
      BY <2>1
  <1>3. ASSUME NEW s \in Streams, Decode(s) PROVE Carrying'
    BY <1>3 DEF Decode, DecodeFrame, DecodeEof
  <1>4. CASE AudioThread
    BY <1>4 DEF AudioThread, AudioEnter, AudioTake, AudioIgnore, AudioKeep
  <1>5. CASE AddAudio
    BY <1>5 DEF AddAudio
  <1>6. CASE DisplayThread \/ AddVideo
    BY <1>6 DEF DisplayThread, SkipStale, DropLate, ShowPicture, TakePicture, AddVideo
  <1>7. CASE FetchAudio
    BY <1>7 DEF FetchAudio
  <1>8. CASE UNCHANGED vars
    BY <1>8 DEF vars
  <1> QED
    BY <1>1, <1>2, <1>3, <1>4, <1>5, <1>6, <1>7, <1>8 DEF Next

\* AddAudio and AddVideo take a frame, never NoFrame.
Holding ==
    /\ aud_pc \in {"taken", "add"} => sound \in Frames
    /\ disp_pc = "upload" => picture \in Frames

\* What the two threads hold when a step is not theirs.
LEMMA HeldOver ==
    ASSUME Places, Holding, UNCHANGED <<aud_pc, sound, disp_pc, picture>>
    PROVE  Holding'
  BY DEF Holding

LEMMA HoldingStep == Places /\ Holding /\ [Next]_vars => Holding'
  <1> SUFFICES ASSUME Places, Holding, [Next]_vars PROVE Holding'
    OBVIOUS
  <1> USE DEF engine, state, seeking, reading, streams, sync, audio, display
  <1>1. CASE Call \/ Return
    BY <1>1, HeldOver
       DEF Call, Return, SetRatePause, SetRateResume, StartPlaying, SetLooping, Seek,
           PauseThreads, ResumeThreads, SetRateEof, SetRateRewind, SeekStore, SeekResume,
           SeekReturn
  <1>2. CASE SeekFlush
    <2>1. sound' = Stale(sound) /\ picture' = Stale(picture) /\ aud_pc' = aud_pc
          /\ disp_pc' = disp_pc
      BY <1>2 DEF SeekFlush
    <2>2. (sound \in Frames => sound' \in Frames) /\ (picture \in Frames => picture' \in Frames)
      BY <2>1, StaleType DEF Places
    <2> QED
      BY <2>1, <2>2 DEF Holding
  <1>3. CASE Reader /\ ~SeekFlush
    BY <1>3, HeldOver
       DEF Reader, SeekFileFails, SeekServed, SeekEof, QueueFull, DetectEnd, WaitSamples,
           LoopTest, LoopRewind, Stop, StopThreads, ReadPacket, ReadEof
  <1>4. ASSUME NEW s \in Streams, Decode(s) PROVE Holding'
    BY <1>4, HeldOver DEF Decode, DecodeFrame, DecodeEof
  <1>5. ASSUME NEW s \in Streams, frames[s] # <<>> PROVE Head(frames[s]) \in Frames
    BY <1>5 DEF Places
  <1>6. CASE AudioThread
    BY <1>5, <1>6
       DEF Holding, Streams, AudioThread, AudioEnter, AudioTake, AudioIgnore, AudioKeep
  <1>7. CASE AddAudio
    BY <1>7 DEF AddAudio, Holding
  <1>8. CASE DisplayThread
    BY <1>5, <1>8
       DEF Holding, Streams, DisplayThread, SkipStale, DropLate, ShowPicture, TakePicture
  <1>9. CASE AddVideo
    BY <1>9 DEF AddVideo, Holding
  <1>10. CASE FetchAudio
    BY <1>10, HeldOver DEF FetchAudio
  <1>11. CASE UNCHANGED vars
    BY <1>11, HeldOver DEF vars
  <1> QED
    BY <1>1, <1>2, <1>3, <1>4, <1>6, <1>7, <1>8, <1>9, <1>10, <1>11 DEF Next

LEMMA PlacesAdd == Places /\ Carrying /\ Holding /\ (AddAudio \/ AddVideo \/ FetchAudio) => Places'
  <1> SUFFICES ASSUME Places, Carrying, Holding, AddAudio \/ AddVideo \/ FetchAudio PROVE Places'
    OBVIOUS
  <1> USE DEF Places, engine, state, seeking, reading, streams, sync, audio, display
  <1>1. CASE AddAudio
    <2>1. last_audio_pts' \in Nat
      BY <1>1 DEF AddAudio, Holding, Frames
    <2>2. samples' \in 0..MaxSamples
      BY <1>1, PlaybackAssumption DEF AddAudio, Carrying, PlaybackAssumption
    <2> QED
      BY <1>1, <2>1, <2>2 DEF AddAudio
  <1>2. CASE AddVideo
    <2>1. last_video_pts' \in Nat
      BY <1>2 DEF AddVideo, Holding, Frames
    <2> QED
      BY <1>2, <2>1 DEF AddVideo
  <1>3. CASE FetchAudio
    BY <1>3, PlaybackAssumption DEF FetchAudio, PlaybackAssumption
  <1> QED
    BY <1>1, <1>2, <1>3

Typed == Flags /\ Places /\ Carrying /\ Holding

LEMMA TypedInit == Init => Typed
  <1>1. Init => Carrying /\ Holding
    BY DEF Init, Carrying, Holding
  <1> QED
    BY <1>1, FlagsInit, PlacesInit DEF Typed

LEMMA TypedStep == Typed /\ [Next]_vars => Typed'
  <1> SUFFICES ASSUME Flags, Places, Carrying, Holding, [Next]_vars PROVE Typed'
    BY DEF Typed
  <1>1. Flags' /\ Carrying' /\ Holding'
    BY FlagsStep, CarriedStep, HoldingStep
  <1>2. Places'
    <2>1. CASE UNCHANGED vars
      BY <2>1 DEF vars, engine, state, seeking, reading, streams, sync, audio, display, Places
    <2>2. ASSUME NEW s \in Streams, Decode(s) PROVE Places'
      BY <2>2, PlacesDecode
    <2> QED
      BY <2>1, <2>2, PlacesGame, PlacesReader, PlacesThreads, PlacesAdd DEF Next, GameSteps
  <1> QED
    BY <1>1, <1>2 DEF Typed

\* Every variable keeps its type; the queue of samples never takes more than
\* MaxSamples, though the audio thread tests for room long before it adds.
THEOREM PlaybackTypes == Spec => []TypeOK
  <1>1. Init => Typed
    BY TypedInit
  <1>2. Typed /\ [Next]_vars => Typed'
    BY TypedStep
  <1>3. Typed => TypeOK
    BY TwoParts DEF Typed
  <1> QED
    BY <1>1, <1>2, <1>3, PTL DEF Spec

-----------------------------------------------------------------------------
(***************************************************************************)
(* The two states.  InStep says nothing of a thread that has written only  *)
(* one of them; the invariant says what each writer has found and will     *)
(* leave, as long as the other was not writing too.                        *)
(***************************************************************************)
Off == CurrentState \in {"Paused", "Stopped"}

SInv ==
    /\ game = "resume" /\ ~overlapped => CurrentState = "Playing" /\ read_pc # "ending"
    /\ game = "pause" => Off /\ ~overlapped
    /\ read_pc = "ending" /\ ~overlapped => Off
    /\ InStep

LEMMA SInit == Init => SInv
  BY DEF Init, SInv, InStep, Off

\* Steps of threads that write neither state, and are not in the way of those
\* that do.
LEMMA SFrame ==
    ASSUME SInv, UNCHANGED <<CurrentState, paused, overlapped>>,
           game' = game \/ {game, game'} \cap {"pause", "resume"} = {},
           read_pc' = read_pc \/ (read_pc # "ending" /\ read_pc' # "ending")
    PROVE  SInv'
  BY DEF SInv, InStep, Off

LEMMA SGame == SInv /\ GameSteps => SInv'
  <1> SUFFICES ASSUME SInv, GameSteps PROVE SInv'
    OBVIOUS
  <1> USE DEF engine, state, seeking, reading
  <1>1. CASE SetRatePause
    BY <1>1 DEF SetRatePause, SInv, InStep, Off
  <1>2. CASE PauseThreads
    BY <1>2 DEF PauseThreads, SInv, InStep, Off
  <1>3. CASE SetRateResume \/ SeekResume
    BY <1>3 DEF SetRateResume, SeekResume, StartPlaying, SInv, InStep, Off
  <1>4. CASE ResumeThreads
    BY <1>4 DEF ResumeThreads, SInv, InStep, Off
  <1>5. CASE SetLooping
    BY <1>5, SFrame DEF SetLooping
  <1>6. ASSUME NEW t \in Targets, Seek(t) PROVE SInv'
    BY <1>6, SFrame DEF Seek, Begin
  <1>7. CASE SetRateEof
    BY <1>7, SFrame DEF SetRateEof
  <1>8. CASE SetRateRewind \/ SeekStore \/ SeekReturn
    BY <1>8, SFrame DEF SetRateRewind, SeekStore, SeekReturn
  <1> QED
    BY <1>1, <1>2, <1>3, <1>4, <1>5, <1>6, <1>7, <1>8 DEF GameSteps, Call, Return

LEMMA SReader == SInv /\ Reader => SInv'
  <1> SUFFICES ASSUME SInv, Reader PROVE SInv'
    OBVIOUS
  <1> USE DEF engine, state, seeking, reading
  <1>1. CASE Stop
    BY <1>1 DEF Stop, SInv, InStep, Off
  <1>2. CASE StopThreads
    BY <1>2 DEF StopThreads, SInv, InStep, Off
  <1>3. CASE Reader /\ ~Stop /\ ~StopThreads
    BY <1>3, SFrame
       DEF Reader, SeekFileFails, SeekFlush, SeekServed, SeekEof, QueueFull, DetectEnd, Turn,
           WaitSamples, LoopTest, LoopRewind, ReadPacket, ReadEof, Reads
  <1> QED
    BY <1>1, <1>2, <1>3

LEMMA SStep == SInv /\ [Next]_vars => SInv'
  <1> SUFFICES ASSUME SInv, [Next]_vars PROVE SInv'
    OBVIOUS
  <1> USE DEF engine, state, seeking, reading
  <1>1. ASSUME NEW s \in Streams, Decode(s) PROVE SInv'
    BY <1>1, SFrame DEF Decode, DecodeFrame, DecodeEof
  <1>2. CASE AudioThread \/ AddAudio \/ FetchAudio
    BY <1>2, SFrame
       DEF AudioThread, AudioEnter, AudioTake, AudioIgnore, AudioKeep, AddAudio, FetchAudio
  <1>3. CASE DisplayThread \/ AddVideo
    BY <1>3, SFrame DEF DisplayThread, SkipStale, DropLate, ShowPicture, TakePicture, AddVideo
  <1>4. CASE UNCHANGED vars
    BY <1>4, SFrame DEF vars
  <1> QED
    BY <1>1, <1>2, <1>3, <1>4, SGame, SReader DEF Next, GameSteps

\* CurrentState and paused, written one after the other by two threads without
\* a common lock, agree whenever nobody is between the two writes, unless the
\* last SetRate(1) overlapped the end of the playback: no other pair of calls,
\* in any order, can bring them out of step.
THEOREM StatesInStep == Spec => []InStep
  <1>1. SInv => InStep
    BY DEF SInv
  <1> QED
    BY <1>1, SInit, SStep, PTL DEF Spec

-----------------------------------------------------------------------------
(***************************************************************************)
(* The end.  Drained is found in one step and the end declared in a later  *)
(* one: what was found has to last.  It does because a null packet is the  *)
(* last of its queue, so a decoder that has finished has nothing left, and *)
(* only the read thread itself could give it more.                         *)
(***************************************************************************)
AllRead == read_pos > Len(File)
OnlyNull(s) == \A i \in 1..Len(packets[s]) : packets[s][i] = Eof

NullsLast(s) ==
    /\ \A i \in 1..Len(packets[s]) : packets[s][i] = Eof => AllRead
    /\ \A i, j \in 1..Len(packets[s]) : i < j /\ packets[s][i] = Eof => packets[s][j] = Eof

EndOf(s) ==
    /\ NullsLast(s)
    /\ finished[s] => AllRead /\ OnlyNull(s)
    /\ read_pc = "drained" => finished[s] /\ frames[s] = <<>>

EInv == \A s \in Streams : EndOf(s)

LEMMA EInit == Init => EInv
  BY DEF Init, EInv, EndOf, NullsLast, OnlyNull

\* Steps that touch no packets, no frames and not the place of the read thread.
LEMMA EFrame ==
    ASSUME EInv, UNCHANGED <<packets, finished, read_pos>>,
           read_pc' = read_pc \/ read_pc' # "drained",
           \A s \in Streams : frames[s] = <<>> => frames'[s] = <<>>
    PROVE  EInv'
  BY DEF EInv, EndOf, NullsLast, OnlyNull, AllRead

LEMMA EReader == Typed /\ EInv /\ Reader => EInv'
  <1> SUFFICES ASSUME Places, Flags, EInv, Reader PROVE EInv'
    BY DEF Typed
  <1> USE DEF engine, state, seeking, reading, streams
  <1>1. CASE SeekFlush
    <2>1. /\ packets' = [s \in Streams |-> <<>>]
          /\ finished' = [s \in Streams |-> FALSE] /\ read_pc' = "served"
      BY <1>1 DEF SeekFlush
    <2> QED
      BY <2>1 DEF EInv, EndOf, NullsLast, OnlyNull
  <1>2. CASE DetectEnd
    <2>1. \A s \in Streams : finished[s] /\ frames[s] = <<>>
      BY <1>2 DEF DetectEnd, Drained
    <2>2. UNCHANGED <<packets, finished, read_pos, frames>>
      BY <1>2 DEF DetectEnd
    <2> QED
      BY <2>1, <2>2 DEF EInv, EndOf, NullsLast, OnlyNull, AllRead
  <1>3. CASE ReadPacket
    <2> DEFINE q == File[read_pos].stream
    <2>1. /\ read_pos \in 1..Len(File) /\ q \in Streams /\ File[read_pos].time \in Nat
          /\ read_pc' = "top" /\ UNCHANGED <<finished, frames>>
          /\ packets' = [packets EXCEPT ![q] = Append(@, File[read_pos].time)]
      BY <1>3, Positions DEF ReadPacket, Places
    <2>2. ~AllRead
      BY <2>1, Positions DEF AllRead
    <2>3. ASSUME NEW s \in Streams PROVE ~finished[s] /\ \A i \in 1..Len(packets[s]) : packets[s][i] # Eof
      BY <2>2 DEF EInv, EndOf, NullsLast
    <2>4. ASSUME NEW s \in Streams PROVE \A i \in 1..Len(packets'[s]) : packets'[s][i] # Eof
      <3>1. packets[s] \in Seq(Nat \cup {Eof})
        BY DEF Places
      <3>2. File[read_pos].time # Eof
        BY <2>1 DEF Eof
      <3>3. packets \in [Streams -> Seq(Nat \cup {Eof})]
        BY DEF Places
      <3>4. packets'[s] = packets[s] \/ packets'[s] = Append(packets[s], File[read_pos].time)
        BY <2>1, <3>3
      <3>5. \A i \in 1..Len(packets[s]) : packets[s][i] # Eof
        BY <2>3
      <3> QED
        <4>1. CASE packets'[s] = packets[s]
          BY <3>5, <4>1
        <4>2. CASE packets'[s] = Append(packets[s], File[read_pos].time)
          BY <3>1, <3>2, <3>5, <4>2
        <4> QED
          BY <3>4, <4>1, <4>2
    <2> QED
      BY <2>1, <2>3, <2>4 DEF EInv, EndOf, NullsLast
  <1>4. CASE ReadEof
    <2>1. /\ AllRead /\ AllRead' /\ read_pc' = "top" /\ UNCHANGED <<finished, frames>>
          /\ packets' = IF eof THEN packets ELSE [s \in Streams |-> Append(packets[s], Eof)]
      BY <1>4 DEF ReadEof, AllRead
    <2>2. ASSUME NEW s \in Streams PROVE EndOf(s)'
      <3>1. CASE packets' = packets
        BY <2>1, <3>1 DEF EInv, EndOf, NullsLast, OnlyNull
      <3>2. CASE packets'[s] = Append(packets[s], Eof)
        <4>1. packets[s] \in Seq(Nat \cup {Eof})
          BY DEF Places
        <4>2. /\ Len(packets'[s]) = Len(packets[s]) + 1 /\ Len(packets[s]) \in Nat
              /\ \A i \in 1..Len(packets[s]) : packets'[s][i] = packets[s][i]
              /\ packets'[s][Len(packets[s]) + 1] = Eof
          BY <3>2, <4>1
        <4>3. NullsLast(s)'
          BY <2>1, <4>2 DEF EInv, EndOf, NullsLast
        <4>4. finished'[s] => OnlyNull(s)'
          BY <2>1, <4>2 DEF EInv, EndOf, OnlyNull
        <4> QED
          BY <2>1, <4>3, <4>4 DEF EndOf
      <3> QED
        BY <2>1, <3>1, <3>2
    <2> QED
      BY <2>2 DEF EInv
  <1>5. CASE Reader /\ ~SeekFlush /\ ~DetectEnd /\ ~ReadPacket /\ ~ReadEof
    <2>1. UNCHANGED <<packets, finished, read_pos, frames>> /\ read_pc' # "drained"
      BY <1>5 DEF Reader, SeekFileFails, SeekServed, SeekEof, QueueFull, WaitSamples, LoopTest,
                  LoopRewind, Stop, StopThreads
    <2> QED
      BY <2>1, EFrame
  <1> QED
    BY <1>1, <1>2, <1>3, <1>4, <1>5

LEMMA EDecode == ASSUME Typed, EInv, NEW s \in Streams, Decode(s) PROVE EInv'
  <1> USE DEF engine, state, seeking, reading
  <1>1. /\ packets[s] # <<>> /\ packets[s] \in Seq(Nat \cup {Eof})
        /\ packets' = [packets EXCEPT ![s] = Tail(@)]
        /\ packets \in [Streams -> Seq(Nat \cup {Eof})]
        /\ UNCHANGED <<read_pos, read_pc>>
    BY DEF Decode, DecodeFrame, DecodeEof, Typed, Places
  <1>2. /\ Len(packets[s]) \in Nat \ {0} /\ Head(packets[s]) = packets[s][1]
        /\ packets'[s] = Tail(packets[s]) /\ Len(packets'[s]) = Len(packets[s]) - 1
        /\ \A i \in 1..Len(packets'[s]) : packets'[s][i] = packets[s][i + 1]
    BY <1>1
  <1>3. NullsLast(s)' /\ (OnlyNull(s) => OnlyNull(s)')
    <2>1. NullsLast(s) /\ AllRead' = AllRead
      BY <1>1 DEF EInv, EndOf, AllRead
    <2> QED
      BY ONLY <1>2, <2>1 DEF NullsLast, OnlyNull
  <1>4. CASE DecodeFrame(s)
    <2>1. ~OnlyNull(s)
      BY <1>2, <1>4 DEF DecodeFrame, OnlyNull
    <2>2. ~finished[s] /\ read_pc # "drained" /\ finished' = finished
      BY <1>4, <2>1 DEF DecodeFrame, EInv, EndOf
    <2>3. ASSUME NEW q \in Streams, q # s PROVE EndOf(q)'
      <3>1. packets'[q] = packets[q]
        BY <1>1, <2>3
      <3> QED
        BY <1>1, <2>2, <3>1 DEF EInv, EndOf, NullsLast, OnlyNull, AllRead
    <2> QED
      BY <1>1, <1>3, <2>2, <2>3 DEF EInv, EndOf
  <1>5. CASE DecodeEof(s)
    <2>1. Flags /\ frames' = frames /\ finished' = [finished EXCEPT ![s] = TRUE]
      BY <1>5 DEF DecodeEof, Typed
    <2>2. AllRead /\ OnlyNull(s)
      <3>1. packets[s][1] = Eof
        BY <1>2, <1>5 DEF DecodeEof
      <3>2. NullsLast(s)
        BY DEF EInv, EndOf
      <3> QED
        BY <1>2, <3>1, <3>2 DEF NullsLast, OnlyNull
    <2>3. ASSUME NEW q \in Streams, q # s PROVE EndOf(q)'
      <3>1. packets'[q] = packets[q] /\ finished'[q] = finished[q]
        BY <1>1, <2>1, <2>3 DEF Flags
      <3> QED
        BY <1>1, <2>1, <3>1 DEF EInv, EndOf, NullsLast, OnlyNull, AllRead
    <2>4. EndOf(s)'
      <3>1. finished'[s]
        BY <2>1 DEF Flags
      <3>2. AllRead'
        BY <1>1, <2>2 DEF AllRead
      <3> QED
        BY <1>1, <1>3, <2>1, <2>2, <3>1, <3>2 DEF EInv, EndOf
    <2> QED
      BY <2>3, <2>4 DEF EInv
  <1> QED
    BY <1>4, <1>5 DEF Decode

LEMMA EStep == Typed /\ EInv /\ [Next]_vars => EInv'
  <1> SUFFICES ASSUME Typed, EInv, [Next]_vars PROVE EInv'
    OBVIOUS
  <1> USE DEF engine, state, seeking, reading, streams
  <1>1. CASE GameSteps
    BY <1>1, EFrame
       DEF GameSteps, Call, Return, SetRatePause, SetRateResume, StartPlaying, SetLooping, Seek,
           PauseThreads, ResumeThreads, SetRateEof, SetRateRewind, SeekStore, SeekResume,
           SeekReturn
  <1>2. frames \in [Streams -> Seq(Frames)]
    BY DEF Typed, Places
  <1>3. CASE AudioThread \/ AddAudio \/ FetchAudio
    <2>1. CASE AudioTake
      BY <1>2, <2>1, EFrame DEF AudioTake
    <2>2. CASE AudioEnter \/ AudioIgnore \/ AudioKeep \/ AddAudio \/ FetchAudio
      BY <2>2, EFrame DEF AudioEnter, AudioIgnore, AudioKeep, AddAudio, FetchAudio
    <2> QED
      BY <1>3, <2>1, <2>2 DEF AudioThread
  <1>4. CASE DisplayThread \/ AddVideo
    <2>1. CASE DisplayThread
      BY <1>2, <2>1, EFrame DEF DisplayThread, SkipStale, DropLate, ShowPicture, TakePicture
    <2>2. CASE AddVideo
      BY <2>2, EFrame DEF AddVideo
    <2> QED
      BY <1>4, <2>1, <2>2
  <1>5. CASE UNCHANGED vars
    BY <1>5, EFrame DEF vars
  <1> QED
    BY <1>1, <1>3, <1>4, <1>5, EReader, EDecode DEF Next, GameSteps

EndStep == read_pc # "ending" /\ read_pc' = "ending" =>
              /\ read_pos > Len(File)
              /\ \A s \in Streams : frames[s] = <<>> /\ \A i \in 1..Len(packets[s]) : packets[s][i] = Eof

LEMMA EndSound == EInv /\ [Next]_vars => EndStep
  <1> SUFFICES ASSUME EInv, [Next]_vars, read_pc # "ending", read_pc' = "ending"
               PROVE  EndStep
    BY DEF EndStep
  <1> USE DEF engine, state, seeking, reading
  <1>1. Reader
    BY DEF Next, Call, Return, SetRatePause, SetRateResume, StartPlaying, SetLooping, Seek,
           PauseThreads, ResumeThreads, SetRateEof, SetRateRewind, SeekStore, SeekResume,
           SeekReturn, Decode, DecodeFrame, DecodeEof, AudioThread, AudioEnter, AudioTake,
           AudioIgnore, AudioKeep, AddAudio, DisplayThread, SkipStale, DropLate, ShowPicture,
           TakePicture, AddVideo, FetchAudio, vars
  <1>2. read_pc = "drained"
    BY <1>1 DEF Reader, SeekFileFails, SeekFlush, SeekServed, SeekEof, QueueFull, DetectEnd,
                WaitSamples, LoopTest, LoopRewind, Stop, StopThreads, ReadPacket, ReadEof
  <1>3. \A s \in Streams : frames[s] = <<>> /\ AllRead /\ OnlyNull(s)
    BY <1>2 DEF EInv, EndOf
  <1>4. "audio" \in Streams
    BY DEF Streams
  <1> QED
    BY <1>3, <1>4 DEF EndStep, AllRead, OnlyNull

\* The end of the playback is declared only when the file has been read to its
\* end and nothing is left of it in the queues, although the read thread looks
\* for the end some steps before it declares it, and decoders and consumers run
\* on meanwhile.
THEOREM PlaybackEndsDrained == Spec => EndDrained
  <1>1. Typed /\ EInv /\ [Next]_vars => (Typed /\ EInv)'
    BY TypedStep, EStep
  <1>2. EInv /\ [Next]_vars => [EndStep]_vars
    BY EndSound
  <1>3. Init => Typed /\ EInv
    BY TypedInit, EInit
  <1>4. EndDrained <=> [][EndStep]_vars
    BY PTL DEF EndDrained, EndStep
  <1> QED
    BY <1>1, <1>2, <1>3, <1>4, PTL DEF Spec
-----------------------------------------------------------------------------
(***************************************************************************)
(* The sound and the picture.  The gate is tested when the audio thread    *)
(* begins a sound, and the sound is handed over some steps later; what was *)
(* tested has to last, and the sound that comes has to be the next one.    *)
(* The first holds because the pictures that can still be shown are later  *)
(* ones, as long as none of before a seek slips in; the second because the *)
(* sounds on their way form one line without a gap, from the one last      *)
(* handed over to the one av_read_frame returns next.                      *)
(***************************************************************************)
IsSound(i) == File[i].stream = "audio"
IsPicture(i) == File[i].stream = "video"

\* The first sound read from position p on begins by time t.
ReadBy(t, p) ==
    \A i \in p..Len(File) :
        IsSound(i) /\ (\A j \in p..(i - 1) : ~IsSound(j)) => File[i].time <= t

\* The same of the first sound decoded from a queue of packets q, and of the
\* first one taken from a queue of frames f before it.
DecodedBy(t, q, p) ==
    IF q = <<>> THEN ReadBy(t, p) ELSE q[1] # Eof => q[1] <= t

TakenBy(t, f, q, p) ==
    IF f = <<>> THEN DecodedBy(t, q, p) ELSE f[1].fresh /\ f[1].time <= t

\* The sounds on their way follow each other.
PacketsFollow(q, p) ==
    \A i \in 1..Len(q) :
        q[i] # Eof => IF i = Len(q) THEN ReadBy(q[i] + 1, p)
                      ELSE q[i + 1] # Eof => q[i + 1] <= q[i] + 1

FramesFollow(f, q, p) ==
    \A i \in 1..Len(f) :
        f[i].fresh => IF i = Len(f) THEN DecodedBy(f[i].time + 1, q, p)
                      ELSE f[i + 1].fresh /\ f[i + 1].time <= f[i].time + 1

InHand == aud_pc \in {"taken", "add"}
NextBy(t) == TakenBy(t, frames["audio"], packets["audio"], read_pos)

SoundLine ==
    /\ PacketsFollow(packets["audio"], read_pos)
    /\ FramesFollow(frames["audio"], packets["audio"], read_pos)
    /\ InHand /\ sound.fresh => NextBy(sound.time + 1)
    /\ InHand /\ heard => sound.fresh /\ sound.time <= last_audio_pts
    /\ ~InHand /\ heard => NextBy(last_audio_pts)

\* The sounds of a steady film, from one position to the next.
LEMMA ReadOn ==
    ASSUME NEW p \in 1..Len(File), NEW t \in Int, ReadBy(t, p)
    PROVE  /\ IsSound(p) => File[p].time <= t
           /\ ~IsSound(p) => ReadBy(t, p + 1)
  <1>1. ASSUME IsSound(p) PROVE File[p].time <= t
    <2>1. p \in p..Len(File) /\ \A j \in p..(p - 1) : ~IsSound(j)
      BY Positions
    <2> QED
      BY <1>1, <2>1 DEF ReadBy
  <1>2. ASSUME ~IsSound(p), NEW i \in (p + 1)..Len(File), IsSound(i),
               \A j \in (p + 1)..(i - 1) : ~IsSound(j)
        PROVE  File[i].time <= t
    <2>1. i \in p..Len(File) /\ \A j \in p..(i - 1) : ~IsSound(j)
      <3>1. \A j \in p..(i - 1) : j = p \/ j \in (p + 1)..(i - 1)
        BY Positions
      <3>2. i \in p..Len(File)
        BY Positions
      <3> QED
        BY <1>2, <3>1, <3>2
    <2> QED
      BY <1>2, <2>1 DEF ReadBy
  <1> QED
    BY <1>1, <1>2 DEF ReadBy

LEMMA ReadNext ==
    ASSUME SteadyFilm, NEW p \in 1..Len(File), IsSound(p)
    PROVE  ReadBy(File[p].time + 1, p + 1)
  <1> SUFFICES ASSUME NEW i \in (p + 1)..Len(File), IsSound(i),
                      \A j \in (p + 1)..(i - 1) : ~IsSound(j)
               PROVE  File[i].time <= File[p].time + 1
    BY DEF ReadBy
  <1>1. i \in 1..Len(File) /\ p < i
    BY Positions
  <1> QED
    BY <1>1 DEF SteadyFilm, IsSound

LEMMA NothingToRead ==
    ASSUME NEW p \in Int, p > Len(File), NEW t
    PROVE  ReadBy(t, p)
  BY Positions DEF ReadBy

-----------------------------------------------------------------------------
\* A packet queue q and the file from p on, when a packet enters or leaves.
PacketQueues == Seq(Nat \cup {Eof})

\* A sound is read.
LEMMA SoundEnters ==
    ASSUME SteadyFilm, NEW q \in PacketQueues, NEW p \in 1..Len(File), PacketsFollow(q, p),
           IsSound(p), \A i \in 1..Len(q) : q[i] # Eof
    PROVE  /\ PacketsFollow(Append(q, File[p].time), p + 1)
           /\ \A t \in Int : DecodedBy(t, q, p) => DecodedBy(t, Append(q, File[p].time), p + 1)
  <1> DEFINE r == Append(q, File[p].time)
  <1>1. File[p].time \in Nat /\ \A i \in 1..Len(q) : q[i] \in Nat
    BY Positions DEF PacketQueues
  <1>2. /\ Len(r) = Len(q) + 1 /\ Len(q) \in Nat /\ r # <<>>
        /\ \A i \in 1..Len(q) : r[i] = q[i]
        /\ r[Len(q) + 1] = File[p].time
    BY <1>1 DEF PacketQueues
  <1> HIDE DEF r
  <1>3. ReadBy(File[p].time + 1, p + 1)
    BY ReadNext
  <1>4. ASSUME NEW i \in 1..Len(r)
        PROVE  IF i = Len(r) THEN ReadBy(r[i] + 1, p + 1) ELSE r[i + 1] <= r[i] + 1
    <2>1. CASE i = Len(q) + 1
      BY <1>2, <1>3, <2>1
    <2>2. CASE i = Len(q)
      <3>1. ReadBy(q[i] + 1, p) /\ q[i] + 1 \in Int
        BY <1>1, <1>4, <2>2 DEF PacketsFollow
      <3>2. File[p].time <= q[i] + 1
        BY <3>1, ReadOn
      <3> QED
        BY <1>2, <1>4, <2>2, <3>2
    <2>3. CASE i # Len(q) + 1 /\ i # Len(q)
      <3>1. i \in 1..Len(q) /\ i + 1 \in 1..Len(q) /\ i # Len(r)
        BY <1>2, <1>4, <2>3
      <3>2. q[i + 1] <= q[i] + 1
        BY <2>3, <3>1 DEF PacketsFollow
      <3>3. r[i] = q[i] /\ r[i + 1] = q[i + 1]
        BY <1>2, <3>1
      <3> QED
        BY <3>1, <3>2, <3>3
    <2> QED
      BY <2>1, <2>2, <2>3
  <1>5. ASSUME NEW t \in Int, DecodedBy(t, q, p) PROVE DecodedBy(t, r, p + 1)
    <2>1. CASE q = <<>>
      <3>1. r[1] = File[p].time
        BY <1>2, <2>1
      <3>2. File[p].time <= t
        BY <1>5, <2>1, ReadOn DEF DecodedBy
      <3> QED
        BY <1>2, <3>1, <3>2 DEF DecodedBy
    <2>2. CASE q # <<>>
      <3>1. 1 \in 1..Len(q)
        BY <2>2 DEF PacketQueues
      <3>2. r[1] = q[1]
        BY <1>2, <3>1
      <3> QED
        BY <1>2, <1>5, <2>2, <3>2 DEF DecodedBy
    <2> QED
      BY <2>1, <2>2
  <1> QED
    BY <1>4, <1>5 DEF PacketsFollow, r

\* A picture is read.
LEMMA PicturePasses ==
    ASSUME NEW q \in PacketQueues, NEW p \in 1..Len(File), PacketsFollow(q, p), ~IsSound(p)
    PROVE  /\ PacketsFollow(q, p + 1)
           /\ \A t \in Int : DecodedBy(t, q, p) => DecodedBy(t, q, p + 1)
  <1>1. \A t \in Int : ReadBy(t, p) => ReadBy(t, p + 1)
    BY ReadOn
  <1>2. \A i \in 1..Len(q) : q[i] + 1 \in Int
    BY DEF PacketQueues, Eof
  <1> QED
    BY <1>1, <1>2 DEF PacketsFollow, DecodedBy

\* A null packet is queued.
LEMMA NullEnters ==
    ASSUME NEW q \in PacketQueues, NEW p \in Int, PacketsFollow(q, p)
    PROVE  /\ PacketsFollow(Append(q, Eof), p)
           /\ \A t \in Int : DecodedBy(t, q, p) => DecodedBy(t, Append(q, Eof), p)
  <1> DEFINE r == Append(q, Eof)
  <1>1. /\ Len(r) = Len(q) + 1 /\ Len(q) \in Nat /\ r # <<>>
        /\ \A i \in 1..Len(q) : r[i] = q[i]
        /\ r[Len(q) + 1] = Eof
    BY DEF PacketQueues
  <1> HIDE DEF r
  <1>2. ASSUME NEW i \in 1..Len(r), r[i] # Eof
        PROVE  i # Len(r) /\ (r[i + 1] # Eof => r[i + 1] <= r[i] + 1)
    <2>1. i \in 1..Len(q) /\ i # Len(r) /\ r[i] = q[i]
      BY <1>1, <1>2
    <2>2. CASE i = Len(q)
      BY <1>1, <2>1, <2>2
    <2>3. CASE i # Len(q)
      <3>1. i + 1 \in 1..Len(q)
        BY <1>1, <2>1, <2>3
      <3>2. r[i + 1] = q[i + 1]
        BY <1>1, <3>1
      <3> QED
        BY <1>2, <2>1, <2>3, <3>2 DEF PacketsFollow
    <2> QED
      BY <2>2, <2>3
  <1>3. ASSUME NEW t \in Int, DecodedBy(t, q, p) PROVE DecodedBy(t, r, p)
    <2>1. q = <<>> => r[1] = Eof
      BY <1>1
    <2>2. q # <<>> => r[1] = q[1]
      <3>1. q # <<>> => 1 \in 1..Len(q)
        BY DEF PacketQueues
      <3> QED
        BY <1>1, <3>1
    <2> QED
      BY <1>1, <1>3, <2>1, <2>2 DEF DecodedBy
  <1> QED
    BY <1>2, <1>3 DEF PacketsFollow, r

\* A packet is decoded: the next one, or the next one read, follows it.
LEMMA PacketLeaves ==
    ASSUME NEW q \in PacketQueues, q # <<>>, NEW p \in Int, PacketsFollow(q, p)
    PROVE  /\ PacketsFollow(Tail(q), p)
           /\ q[1] # Eof => DecodedBy(q[1] + 1, Tail(q), p)
  <1> DEFINE r == Tail(q)
  <1>1. /\ Len(q) \in Nat \ {0} /\ Len(r) = Len(q) - 1 /\ Len(r) \in Nat
        /\ \A i \in 1..Len(r) : r[i] = q[i + 1]
    BY DEF PacketQueues
  <1>2. r \in PacketQueues
    BY DEF PacketQueues
  <1> HIDE DEF r
  <1>3. r # <<>> => Len(r) # 0
    BY <1>2 DEF PacketQueues
  <1>4. ASSUME NEW i \in 1..Len(r), r[i] # Eof
        PROVE  IF i = Len(r) THEN ReadBy(r[i] + 1, p)
               ELSE r[i + 1] # Eof => r[i + 1] <= r[i] + 1
    <2>1. i + 1 \in 1..Len(q) /\ r[i] = q[i + 1] /\ (i = Len(r) <=> i + 1 = Len(q))
      BY <1>1, <1>4
    <2>2. CASE i = Len(r)
      BY <1>4, <2>1, <2>2 DEF PacketsFollow
    <2>3. CASE i # Len(r)
      <3>1. i + 1 \in 1..Len(r)
        BY <1>1, <1>4, <2>3
      <3>2. r[i + 1] = q[(i + 1) + 1]
        BY <1>1, <3>1
      <3> QED
        BY <1>4, <2>1, <2>3, <3>2 DEF PacketsFollow
    <2> QED
      BY <2>2, <2>3
  <1>5. ASSUME q[1] # Eof PROVE DecodedBy(q[1] + 1, r, p)
    <2>1. CASE r = <<>>
      <3>1. 1 \in 1..Len(q) /\ 1 = Len(q)
        BY <1>1, <2>1
      <3>2. ReadBy(q[1] + 1, p)
        BY <1>5, <3>1 DEF PacketsFollow
      <3> QED
        BY <2>1, <3>2 DEF DecodedBy
    <2>2. CASE r # <<>>
      <3>1. 1 \in 1..Len(q) /\ 1 # Len(q) /\ 1 \in 1..Len(r)
        BY <1>1, <1>3, <2>2
      <3>2. r[1] = q[1 + 1]
        BY <1>1, <3>1
      <3>3. q[1 + 1] # Eof => q[1 + 1] <= q[1] + 1
        BY <1>5, <3>1 DEF PacketsFollow
      <3> QED
        BY <2>2, <3>2, <3>3 DEF DecodedBy
    <2> QED
      BY <2>1, <2>2
  <1> QED
    BY <1>4, <1>5 DEF PacketsFollow, r

\* A null packet is decoded: there is nothing after it.
LEMMA NullLeaves ==
    ASSUME NEW q \in PacketQueues, q # <<>>, NEW p \in Int, p > Len(File),
           \A i \in 1..Len(q) : q[i] = Eof
    PROVE  \A t \in Int : DecodedBy(t, Tail(q), p)
  <1> SUFFICES ASSUME NEW t \in Int PROVE DecodedBy(t, Tail(q), p)
    OBVIOUS
  <1>1. Tail(q) # <<>> => Tail(q)[1] = q[1 + 1] /\ 1 + 1 \in 1..Len(q)
    BY DEF PacketQueues
  <1> QED
    BY <1>1, NothingToRead DEF DecodedBy

\* A queue of frames f, when the packets after it change ...
LEMMA FramesStay ==
    ASSUME NEW f \in Seq(Frames), NEW q, NEW p, NEW r, NEW n, FramesFollow(f, q, p),
           \A t \in Int : DecodedBy(t, q, p) => DecodedBy(t, r, n)
    PROVE  /\ FramesFollow(f, r, n)
           /\ \A t \in Int : TakenBy(t, f, q, p) => TakenBy(t, f, r, n)
  <1>1. \A i \in 1..Len(f) : f[i].time + 1 \in Int
    <2> TAKE i \in 1..Len(f)
    <2>1. f[i] \in Frames
      OBVIOUS
    <2> QED
      BY <2>1 DEF Frames
  <1> QED
    BY <1>1 DEF FramesFollow, TakenBy

\* ... when a frame enters ...
LEMMA FrameEnters ==
    ASSUME NEW f \in Seq(Frames), NEW e \in Frames, e.fresh, NEW q, NEW p, NEW r, NEW n,
           FramesFollow(f, q, p),
           \A t \in Int : DecodedBy(t, q, p) => e.time <= t,
           DecodedBy(e.time + 1, r, n)
    PROVE  /\ FramesFollow(Append(f, e), r, n)
           /\ \A t \in Int : TakenBy(t, f, q, p) => TakenBy(t, Append(f, e), r, n)
  <1> DEFINE g == Append(f, e)
  <1>1. /\ Len(g) = Len(f) + 1 /\ Len(f) \in Nat /\ g # <<>>
        /\ \A i \in 1..Len(f) : g[i] = f[i]
        /\ g[Len(f) + 1] = e
    OBVIOUS
  <1> HIDE DEF g
  <1>2. ASSUME NEW i \in 1..Len(g), g[i].fresh
        PROVE  IF i = Len(g) THEN DecodedBy(g[i].time + 1, r, n)
               ELSE g[i + 1].fresh /\ g[i + 1].time <= g[i].time + 1
    <2>1. CASE i = Len(f) + 1
      BY <1>1, <2>1
    <2>2. CASE i = Len(f)
      <3>1. i \in 1..Len(f) /\ g[i] = f[i] /\ g[i + 1] = e /\ i # Len(g)
        BY <1>1, <1>2, <2>2
      <3>2. f[i] \in Frames
        BY <3>1
      <3>3. f[i].time + 1 \in Int
        BY <3>2 DEF Frames
      <3>4. DecodedBy(f[i].time + 1, q, p)
        BY <1>2, <2>2, <3>1 DEF FramesFollow
      <3> QED
        BY <3>1, <3>3, <3>4
    <2>3. CASE i # Len(f) + 1 /\ i # Len(f)
      <3>1. i \in 1..Len(f) /\ i + 1 \in 1..Len(f) /\ i # Len(g)
        BY <1>1, <1>2, <2>3
      <3>2. g[i] = f[i] /\ g[i + 1] = f[i + 1]
        BY <1>1, <3>1
      <3> QED
        BY <1>2, <2>3, <3>1, <3>2 DEF FramesFollow
    <2> QED
      BY <2>1, <2>2, <2>3
  <1>3. ASSUME NEW t \in Int, TakenBy(t, f, q, p) PROVE TakenBy(t, g, r, n)
    <2>1. CASE f = <<>>
      <3>1. g[1] = e
        BY <1>1, <2>1
      <3>2. e.time <= t
        BY <1>3, <2>1 DEF TakenBy
      <3> QED
        BY <1>1, <3>1, <3>2 DEF TakenBy
    <2>2. CASE f # <<>>
      <3>1. 1 \in 1..Len(f)
        BY <2>2
      <3>2. g[1] = f[1]
        BY <1>1, <3>1
      <3> QED
        BY <1>1, <1>3, <2>2, <3>2 DEF TakenBy
    <2> QED
      BY <2>1, <2>2
  <1> QED
    BY <1>2, <1>3 DEF FramesFollow, g

\* ... and when one is taken: what comes next follows it.
LEMMA FrameLeaves ==
    ASSUME NEW f \in Seq(Frames), f # <<>>, NEW q, NEW p, FramesFollow(f, q, p)
    PROVE  /\ FramesFollow(Tail(f), q, p)
           /\ Head(f).fresh => TakenBy(Head(f).time + 1, Tail(f), q, p)
  <1> DEFINE g == Tail(f)
  <1>1. /\ Len(f) \in Nat \ {0} /\ Len(g) = Len(f) - 1 /\ Len(g) \in Nat /\ Head(f) = f[1]
        /\ \A i \in 1..Len(g) : g[i] = f[i + 1]
    OBVIOUS
  <1>2. g # <<>> => Len(g) # 0
    <2>1. g \in Seq(Frames)
      OBVIOUS
    <2> HIDE DEF g
    <2> QED
      BY <2>1
  <1> HIDE DEF g
  <1>3. ASSUME NEW i \in 1..Len(g), g[i].fresh
        PROVE  IF i = Len(g) THEN DecodedBy(g[i].time + 1, q, p)
               ELSE g[i + 1].fresh /\ g[i + 1].time <= g[i].time + 1
    <2>1. i + 1 \in 1..Len(f) /\ g[i] = f[i + 1] /\ (i = Len(g) <=> i + 1 = Len(f))
      BY <1>1, <1>3
    <2>2. CASE i = Len(g)
      BY <1>3, <2>1, <2>2 DEF FramesFollow
    <2>3. CASE i # Len(g)
      <3>1. i + 1 \in 1..Len(g)
        BY <1>1, <1>3, <2>3
      <3>2. g[i + 1] = f[(i + 1) + 1]
        BY <1>1, <3>1
      <3> QED
        BY <1>3, <2>1, <2>3, <3>2 DEF FramesFollow
    <2> QED
      BY <2>2, <2>3
  <1>4. ASSUME f[1].fresh PROVE TakenBy(f[1].time + 1, g, q, p)
    <2>1. CASE g = <<>>
      <3>1. 1 \in 1..Len(f) /\ 1 = Len(f)
        BY <1>1, <2>1
      <3>2. DecodedBy(f[1].time + 1, q, p)
        BY <1>4, <3>1 DEF FramesFollow
      <3> QED
        BY <2>1, <3>2 DEF TakenBy
    <2>2. CASE g # <<>>
      <3>1. 1 \in 1..Len(f) /\ 1 # Len(f) /\ 1 \in 1..Len(g)
        BY <1>1, <1>2, <2>2
      <3>2. g[1] = f[1 + 1]
        BY <1>1, <3>1
      <3>3. f[1 + 1].fresh /\ f[1 + 1].time <= f[1].time + 1
        BY <1>4, <3>1 DEF FramesFollow
      <3> QED
        BY <2>2, <3>2, <3>3 DEF TakenBy
    <2> QED
      BY <2>1, <2>2
  <1> QED
    BY <1>1, <1>3, <1>4 DEF FramesFollow, g

-----------------------------------------------------------------------------
\* The line, step by step.  A step that does not touch the sounds:
LEMMA LineFrame ==
    ASSUME SoundLine, packets'["audio"] = packets["audio"], frames'["audio"] = frames["audio"],
           UNCHANGED <<read_pos, aud_pc, sound, heard, last_audio_pts>>
    PROVE  SoundLine'
  BY DEF SoundLine, InHand, NextBy

\* Whatever a step does to the queues, what the audio thread holds keeps its
\* place in the line if the next sound still comes in time.
LEMMA LineKept ==
    ASSUME Places, Holding, SoundLine, UNCHANGED <<aud_pc, sound, heard, last_audio_pts>>,
           PacketsFollow(packets'["audio"], read_pos'),
           FramesFollow(frames'["audio"], packets'["audio"], read_pos'),
           \A t \in Int : TakenBy(t, frames["audio"], packets["audio"], read_pos)
                            => TakenBy(t, frames'["audio"], packets'["audio"], read_pos')
    PROVE  SoundLine'
  <1>1. last_audio_pts \in Int /\ (InHand => sound.time + 1 \in Int)
    BY DEF Places, InHand, Holding, Frames
  <1> QED
    BY <1>1 DEF SoundLine, InHand, NextBy

LEMMA LineReader == Typed /\ EInv /\ SteadyFilm /\ SoundLine /\ Reader => SoundLine'
  <1> SUFFICES ASSUME Places, Holding, EInv, SteadyFilm, SoundLine, Reader PROVE SoundLine'
    BY DEF Typed
  <1> DEFINE q == packets["audio"]
             f == frames["audio"]
  <1>1. /\ q \in PacketQueues /\ f \in Seq(Frames) /\ read_pos \in 1..(Len(File) + 1)
        /\ read_pos \in Int /\ "audio" \in Streams
        /\ PacketsFollow(q, read_pos) /\ FramesFollow(f, q, read_pos)
    BY Positions DEF Places, Streams, PacketQueues, SoundLine
  <1>2. CASE SeekFlush
    <2>1. /\ packets'["audio"] = <<>> /\ ~sound'.fresh /\ ~heard'
          /\ frames'["audio"] = [i \in 1..Len(f) |-> Stale(f[i])]
      BY <1>1, <1>2 DEF SeekFlush, Stale
    <2>2. Len(frames'["audio"]) = Len(f) /\ \A i \in 1..Len(f) : ~frames'["audio"][i].fresh
      BY <1>1, <2>1 DEF Stale
    <2>3. PacketsFollow(packets'["audio"], read_pos')
      BY <2>1 DEF PacketsFollow
    <2>4. FramesFollow(frames'["audio"], packets'["audio"], read_pos')
      BY <2>2 DEF FramesFollow
    <2> QED
      BY <2>1, <2>3, <2>4 DEF SoundLine
  <1>3. CASE ReadPacket
    <2>1. /\ read_pos \in 1..Len(File) /\ read_pos' = read_pos + 1 /\ frames' = frames
          /\ UNCHANGED <<aud_pc, sound, heard, last_audio_pts>>
          /\ packets' = [packets EXCEPT ![File[read_pos].stream] = Append(@, File[read_pos].time)]
      BY <1>1, <1>3, Positions DEF ReadPacket, sync, audio
    <2>2. \A i \in 1..Len(q) : q[i] # Eof
      <3>1. ~AllRead
        BY <2>1, Positions DEF AllRead
      <3> QED
        BY <1>1, <3>1 DEF EInv, EndOf, NullsLast
    <2>3. packets'["audio"] = IF IsSound(read_pos) THEN Append(q, File[read_pos].time) ELSE q
      BY <1>1, <2>1 DEF IsSound, Places
    <2>4. /\ PacketsFollow(packets'["audio"], read_pos + 1)
          /\ \A t \in Int : DecodedBy(t, q, read_pos)
                              => DecodedBy(t, packets'["audio"], read_pos + 1)
      <3>1. CASE IsSound(read_pos)
        BY <1>1, <2>1, <2>2, <2>3, <3>1, SoundEnters
      <3>2. CASE ~IsSound(read_pos)
        BY <1>1, <2>1, <2>3, <3>2, PicturePasses
      <3> QED
        BY <3>1, <3>2
    <2>5. /\ FramesFollow(f, packets'["audio"], read_pos + 1)
          /\ \A t \in Int : TakenBy(t, f, q, read_pos)
                              => TakenBy(t, f, packets'["audio"], read_pos + 1)
      BY <1>1, <2>4, FramesStay
    <2> QED
      BY <2>1, <2>4, <2>5, LineKept
  <1>4. CASE ReadEof
    <2>1. /\ read_pos' = read_pos /\ frames' = frames
          /\ UNCHANGED <<aud_pc, sound, heard, last_audio_pts>>
          /\ packets'["audio"] = q \/ packets'["audio"] = Append(q, Eof)
      BY <1>1, <1>4 DEF ReadEof, sync, audio
    <2>2. CASE packets'["audio"] = q
      BY <2>1, <2>2, LineFrame
    <2>3. CASE packets'["audio"] = Append(q, Eof)
      <3>1. /\ PacketsFollow(packets'["audio"], read_pos)
            /\ \A t \in Int : DecodedBy(t, q, read_pos) => DecodedBy(t, packets'["audio"], read_pos)
        BY <1>1, <2>3, NullEnters
      <3>2. /\ FramesFollow(f, packets'["audio"], read_pos)
            /\ \A t \in Int : TakenBy(t, f, q, read_pos)
                                => TakenBy(t, f, packets'["audio"], read_pos)
        BY <1>1, <3>1, FramesStay
      <3> QED
        BY <2>1, <3>1, <3>2, LineKept
    <2> QED
      BY <2>1, <2>2, <2>3
  <1>5. CASE Reader /\ ~SeekFlush /\ ~ReadPacket /\ ~ReadEof
    <2>1. UNCHANGED <<packets, frames, read_pos, aud_pc, sound, heard, last_audio_pts>>
      BY <1>5 DEF Reader, SeekFileFails, SeekServed, SeekEof, QueueFull, DetectEnd, WaitSamples,
                  LoopTest, LoopRewind, Stop, StopThreads, streams, sync, audio
    <2> QED
      BY <2>1, LineFrame
  <1> QED
    BY <1>2, <1>3, <1>4, <1>5

LEMMA LineDecode == ASSUME Typed, EInv, SoundLine, NEW s \in Streams, Decode(s) PROVE SoundLine'
  <1> USE DEF Typed
  <1> DEFINE q == packets["audio"]
             f == frames["audio"]
  <1>0. /\ q \in PacketQueues /\ f \in Seq(Frames) /\ read_pos \in Int /\ "audio" \in Streams
        /\ PacketsFollow(q, read_pos) /\ FramesFollow(f, q, read_pos)
        /\ packets \in [Streams -> PacketQueues] /\ frames \in [Streams -> Seq(Frames)]
    BY DEF Places, Streams, PacketQueues, SoundLine
  <1>1. UNCHANGED <<read_pos, aud_pc, sound, heard, last_audio_pts>>
    BY DEF Decode, DecodeFrame, DecodeEof, reading, sync, audio
  <1>2. CASE s = "video"
    <2>1. packets'["audio"] = q /\ frames'["audio"] = f
      BY <1>0, <1>2 DEF Decode, DecodeFrame, DecodeEof, Streams
    <2> QED
      BY <1>1, <2>1, LineFrame
  <1>3. CASE s = "audio" /\ DecodeEof(s)
    <2>1. q # <<>> /\ Head(q) = Eof /\ packets'["audio"] = Tail(q) /\ frames' = frames
      BY <1>0, <1>3 DEF DecodeEof
    <2>2. q[1] = Eof /\ 1 \in 1..Len(q)
      BY <1>0, <2>1 DEF PacketQueues
    <2>3. AllRead /\ NullsLast("audio")
      BY <1>0, <2>2 DEF EInv, EndOf, NullsLast
    <2>4. \A i \in 1..Len(q) : q[i] = Eof
      BY <2>2, <2>3 DEF NullsLast
    <2>5. \A t \in Int : DecodedBy(t, Tail(q), read_pos)
      BY <1>0, <2>1, <2>3, <2>4, NullLeaves DEF AllRead
    <2>6. PacketsFollow(Tail(q), read_pos)
      BY <1>0, <2>1, PacketLeaves
    <2>7. /\ FramesFollow(f, Tail(q), read_pos)
          /\ \A t \in Int : TakenBy(t, f, q, read_pos) => TakenBy(t, f, Tail(q), read_pos)
      BY <1>0, <2>5, FramesStay
    <2> QED
      BY <1>1, <2>1, <2>6, <2>7, LineKept
  <1>4. CASE s = "audio" /\ DecodeFrame(s)
    <2> DEFINE e == [time |-> Head(q), fresh |-> TRUE]
    <2>1. /\ q # <<>> /\ Head(q) # Eof /\ packets'["audio"] = Tail(q)
          /\ frames'["audio"] = Append(f, e)
      BY <1>0, <1>4 DEF DecodeFrame
    <2>2. Head(q) = q[1] /\ q[1] \in Nat
      BY <1>0, <2>1 DEF PacketQueues
    <2>3. e \in Frames /\ e.fresh /\ e.time = q[1]
      BY <2>2 DEF Frames
    <2> HIDE DEF e
    <2>4. PacketsFollow(Tail(q), read_pos) /\ DecodedBy(e.time + 1, Tail(q), read_pos)
      BY <1>0, <2>1, <2>2, <2>3, PacketLeaves
    <2>5. \A t \in Int : DecodedBy(t, q, read_pos) => e.time <= t
      BY <2>1, <2>2, <2>3 DEF DecodedBy
    <2>6. /\ FramesFollow(Append(f, e), Tail(q), read_pos)
          /\ \A t \in Int : TakenBy(t, f, q, read_pos)
                              => TakenBy(t, Append(f, e), Tail(q), read_pos)
      BY <1>0, <2>3, <2>4, <2>5, FrameEnters
    <2> QED
      BY <1>1, <2>1, <2>4, <2>6, LineKept
  <1> QED
    BY <1>2, <1>3, <1>4 DEF Streams, Decode

LEMMA LineAudio == Typed /\ SoundLine /\ (AudioThread \/ AddAudio) => SoundLine'
  <1> SUFFICES ASSUME Places, Holding, SoundLine, AudioThread \/ AddAudio PROVE SoundLine'
    BY DEF Typed
  <1> DEFINE f == frames["audio"]
  <1>0. /\ f \in Seq(Frames) /\ "audio" \in Streams
        /\ packets' = packets /\ read_pos' = read_pos
    BY DEF Places, Streams, AudioThread, AudioEnter, AudioTake, AudioIgnore, AudioKeep, AddAudio,
           streams, reading
  <1>1. CASE AudioEnter
    <2>1. aud_pc = "poll" /\ aud_pc' = "take"
          /\ UNCHANGED <<frames, sound, heard, last_audio_pts>>
      BY <1>1 DEF AudioEnter, streams, sync
    <2> QED
      BY <1>0, <2>1 DEF SoundLine, InHand, NextBy
  <1>2. CASE AudioKeep
    <2>1. aud_pc = "taken" /\ aud_pc' = "add"
          /\ UNCHANGED <<frames, sound, heard, last_audio_pts>>
      BY <1>2 DEF AudioKeep, streams, sync
    <2> QED
      BY <1>0, <2>1 DEF SoundLine, InHand, NextBy
  <1>3. CASE AudioIgnore
    <2>1. aud_pc' = "poll" /\ ~heard' /\ frames' = frames
      BY <1>3 DEF AudioIgnore, streams
    <2> QED
      BY <1>0, <2>1 DEF SoundLine, InHand
  <1>4. CASE AudioTake
    <2>1. /\ aud_pc = "take" /\ f # <<>> /\ frames'["audio"] = Tail(f)
          /\ UNCHANGED <<heard, last_audio_pts>>
          /\ IF Head(f).fresh THEN sound' = Head(f) /\ aud_pc' = "taken" ELSE UNCHANGED <<aud_pc, sound>>
      BY <1>0, <1>4 DEF AudioTake, Places, sync, audio
    <2>2. /\ FramesFollow(Tail(f), packets["audio"], read_pos)
          /\ Head(f).fresh => TakenBy(Head(f).time + 1, Tail(f), packets["audio"], read_pos)
      BY <1>0, <2>1, FrameLeaves DEF SoundLine
    <2>3. heard => Head(f).fresh /\ Head(f).time <= last_audio_pts
      <3>1. Head(f) = f[1]
        BY <1>0, <2>1
      <3> QED
        BY <2>1, <3>1 DEF SoundLine, InHand, NextBy, TakenBy
    <2> QED
      BY <1>0, <2>1, <2>2, <2>3 DEF SoundLine, InHand, NextBy
  <1>5. CASE AddAudio
    <2>1. aud_pc = "add" /\ aud_pc' = "poll" /\ frames' = frames
          /\ heard' = sound.fresh /\ last_audio_pts' = sound.time + 1
      BY <1>5 DEF AddAudio, streams
    <2> QED
      BY <1>0, <2>1 DEF SoundLine, InHand, NextBy
  <1> QED
    BY <1>1, <1>2, <1>3, <1>4, <1>5 DEF AudioThread

LEMMA LineStep == Typed /\ EInv /\ SteadyFilm /\ SoundLine /\ [Next]_vars => SoundLine'
  <1> SUFFICES ASSUME Typed, EInv, SteadyFilm, SoundLine, [Next]_vars PROVE SoundLine'
    OBVIOUS
  <1>1. CASE GameSteps \/ FetchAudio \/ AddVideo \/ UNCHANGED vars
    <2>1. UNCHANGED <<packets, frames, read_pos, aud_pc, sound, heard, last_audio_pts>>
      BY <1>1 DEF GameSteps, Call, Return, SetRatePause, SetRateResume, StartPlaying, SetLooping,
                  Seek, PauseThreads, ResumeThreads, SetRateEof, SetRateRewind, SeekStore,
                  SeekResume, SeekReturn, FetchAudio, AddVideo, vars, streams, reading, sync, audio
    <2> QED
      BY <2>1, LineFrame
  <1>2. CASE DisplayThread
    <2>1. /\ UNCHANGED <<packets, read_pos, aud_pc, sound, heard, last_audio_pts>>
          /\ frames' = [frames EXCEPT !["video"] = Tail(@)]
      BY <1>2 DEF DisplayThread, SkipStale, DropLate, ShowPicture, TakePicture, reading, sync, audio
    <2>2. frames'["audio"] = frames["audio"]
      BY <2>1 DEF Typed, Places, Streams
    <2> QED
      BY <2>1, <2>2, LineFrame
  <1> QED
    BY <1>1, <1>2, LineReader, LineDecode, LineAudio DEF Next, GameSteps

LEMMA LineInit == Init => SoundLine
  BY DEF Init, SoundLine, PacketsFollow, FramesFollow, InHand, Streams

-----------------------------------------------------------------------------
\* The pictures: everything read from position p on, decoded from a queue q and
\* taken from a queue f before it, is of time t or later.
StillRead(t, p) == \A i \in p..Len(File) : IsPicture(i) => t <= File[i].time
StillDecoded(t, q, p) ==
    /\ \A i \in 1..Len(q) : q[i] # Eof => t <= q[i]
    /\ StillRead(t, p)
StillTaken(t, f, q, p) ==
    /\ \A i \in 1..Len(f) : f[i].fresh => t <= f[i].time
    /\ StillDecoded(t, q, p)

PacketsRise(q, p) ==
    \A i \in 1..Len(q) :
        q[i] # Eof => /\ StillRead(q[i], p)
                      /\ \A j \in (i + 1)..Len(q) : q[j] # Eof => q[i] <= q[j]

FramesRise(f, q, p) ==
    \A i \in 1..Len(f) :
        f[i].fresh => /\ StillDecoded(f[i].time, q, p)
                      /\ \A j \in (i + 1)..Len(f) : f[j].fresh => f[i].time <= f[j].time

Uploads == disp_pc = "upload" /\ picture.fresh
StillComes(t) == StillTaken(t, frames["video"], packets["video"], read_pos)

PictureLine ==
    /\ PacketsRise(packets["video"], read_pos)
    /\ FramesRise(frames["video"], packets["video"], read_pos)
    /\ Uploads => StillComes(picture.time)
    /\ ~strayed => StillComes(last_video_pts) /\ (Uploads => last_video_pts <= picture.time)

\* A packet x is queued: a picture, or the null packet.
LEMMA PictureEnters ==
    ASSUME NEW q \in PacketQueues, NEW x \in Nat \cup {Eof}, NEW p, NEW n, PacketsRise(q, p),
           x # Eof => StillRead(x, n),
           \A t : StillRead(t, p) => StillRead(t, n) /\ (x # Eof => t <= x)
    PROVE  /\ PacketsRise(Append(q, x), n)
           /\ \A t : StillDecoded(t, q, p) => StillDecoded(t, Append(q, x), n)
  <1> DEFINE r == Append(q, x)
  <1>1. /\ Len(r) = Len(q) + 1 /\ Len(q) \in Nat
        /\ \A i \in 1..Len(q) : r[i] = q[i]
        /\ r[Len(q) + 1] = x
    BY DEF PacketQueues
  <1> HIDE DEF r
  <1>2. ASSUME NEW i \in 1..Len(r), r[i] # Eof
        PROVE  StillRead(r[i], n) /\ \A j \in (i + 1)..Len(r) : r[j] # Eof => r[i] <= r[j]
    <2>1. CASE i = Len(q) + 1
      BY <1>1, <1>2, <2>1
    <2>2. CASE i # Len(q) + 1
      <3>1. i \in 1..Len(q) /\ r[i] = q[i] /\ StillRead(q[i], p)
        BY <1>1, <1>2, <2>2 DEF PacketsRise
      <3>2. ASSUME NEW j \in (i + 1)..Len(r), r[j] # Eof PROVE r[i] <= r[j]
        <4>1. CASE j = Len(q) + 1
          BY <1>1, <3>1, <3>2, <4>1
        <4>2. CASE j # Len(q) + 1
          <5>1. j \in (i + 1)..Len(q) /\ j \in 1..Len(q) /\ r[j] = q[j]
            BY <1>1, <3>1, <3>2, <4>2
          <5> QED
            BY <1>2, <3>1, <3>2, <5>1 DEF PacketsRise
        <4> QED
          BY <4>1, <4>2
      <3> QED
        BY <3>1, <3>2
    <2> QED
      BY <2>1, <2>2
  <1>3. ASSUME NEW t, StillDecoded(t, q, p) PROVE StillDecoded(t, r, n)
    <2> SUFFICES ASSUME NEW i \in 1..Len(r), r[i] # Eof PROVE t <= r[i]
      BY <1>3 DEF StillDecoded
    <2>1. CASE i = Len(q) + 1
      BY <1>1, <1>3, <2>1 DEF StillDecoded
    <2>2. CASE i # Len(q) + 1
      <3>1. i \in 1..Len(q) /\ r[i] = q[i]
        BY <1>1, <2>2
      <3> QED
        BY <1>3, <3>1 DEF StillDecoded
    <2> QED
      BY <2>1, <2>2
  <1> QED
    BY <1>2, <1>3 DEF PacketsRise, r

\* A sound is read: nothing new comes to the pictures.
LEMMA SoundPasses ==
    ASSUME NEW q \in PacketQueues, NEW p \in Int, PacketsRise(q, p)
    PROVE  /\ PacketsRise(q, p + 1)
           /\ \A t : StillDecoded(t, q, p) => StillDecoded(t, q, p + 1)
  <1>1. \A t : StillRead(t, p) => StillRead(t, p + 1)
    <2>1. \A i \in (p + 1)..Len(File) : i \in p..Len(File)
      BY Positions
    <2> QED
      BY <2>1 DEF StillRead
  <1> QED
    BY <1>1 DEF PacketsRise, StillDecoded

\* A packet is decoded.
LEMMA PictureLeaves ==
    ASSUME NEW q \in PacketQueues, q # <<>>, NEW p, PacketsRise(q, p)
    PROVE  /\ PacketsRise(Tail(q), p)
           /\ \A t : StillDecoded(t, q, p) =>
                        StillDecoded(t, Tail(q), p) /\ (q[1] # Eof => t <= q[1])
           /\ q[1] # Eof => StillDecoded(q[1], Tail(q), p)
  <1> DEFINE r == Tail(q)
  <1>1. /\ Len(q) \in Nat \ {0} /\ Len(r) = Len(q) - 1 /\ Len(r) \in Nat
        /\ \A i \in 1..Len(r) : r[i] = q[i + 1]
    BY DEF PacketQueues
  <1> HIDE DEF r
  <1>2. 1 \in 1..Len(q) /\ \A i \in 1..Len(r) : i + 1 \in 1..Len(q) /\ i + 1 \in (1 + 1)..Len(q)
    BY <1>1
  <1>3. ASSUME NEW i \in 1..Len(r), r[i] # Eof
        PROVE  StillRead(r[i], p) /\ \A j \in (i + 1)..Len(r) : r[j] # Eof => r[i] <= r[j]
    <2>1. r[i] = q[i + 1] /\ StillRead(q[i + 1], p)
      BY <1>1, <1>2, <1>3 DEF PacketsRise
    <2>2. ASSUME NEW j \in (i + 1)..Len(r), r[j] # Eof PROVE r[i] <= r[j]
      <3>1. j \in 1..Len(r) /\ j + 1 \in ((i + 1) + 1)..Len(q)
        BY <1>1
      <3>2. r[j] = q[j + 1]
        BY <1>1, <3>1
      <3> QED
        BY <1>2, <1>3, <2>1, <2>2, <3>1, <3>2 DEF PacketsRise
    <2> QED
      BY <2>1, <2>2
  <1>4. ASSUME NEW t, StillDecoded(t, q, p)
        PROVE  StillDecoded(t, r, p) /\ (q[1] # Eof => t <= q[1])
    BY <1>1, <1>2, <1>4 DEF StillDecoded
  <1>5. q[1] # Eof => StillDecoded(q[1], r, p)
    BY <1>1, <1>2 DEF PacketsRise, StillDecoded
  <1> QED
    BY <1>3, <1>4, <1>5 DEF PacketsRise, r

\* A queue of frames f, when the packets after it change ...
LEMMA PicturesStay ==
    ASSUME NEW f, NEW q, NEW p, NEW r, NEW n, FramesRise(f, q, p),
           \A t : StillDecoded(t, q, p) => StillDecoded(t, r, n)
    PROVE  /\ FramesRise(f, r, n)
           /\ \A t : StillTaken(t, f, q, p) => StillTaken(t, f, r, n)
  BY DEF FramesRise, StillTaken

\* ... when a frame enters ...
LEMMA PictureJoins ==
    ASSUME NEW f \in Seq(Frames), NEW e \in Frames, NEW q, NEW p, NEW r, NEW n,
           FramesRise(f, q, p), StillDecoded(e.time, r, n),
           \A t : StillDecoded(t, q, p) => StillDecoded(t, r, n) /\ t <= e.time
    PROVE  /\ FramesRise(Append(f, e), r, n)
           /\ \A t : StillTaken(t, f, q, p) => StillTaken(t, Append(f, e), r, n)
  <1> DEFINE g == Append(f, e)
  <1>1. /\ Len(g) = Len(f) + 1 /\ Len(f) \in Nat
        /\ \A i \in 1..Len(f) : g[i] = f[i]
        /\ g[Len(f) + 1] = e
    OBVIOUS
  <1> HIDE DEF g
  <1>2. ASSUME NEW i \in 1..Len(g), g[i].fresh
        PROVE  /\ StillDecoded(g[i].time, r, n)
               /\ \A j \in (i + 1)..Len(g) : g[j].fresh => g[i].time <= g[j].time
    <2>1. CASE i = Len(f) + 1
      BY <1>1, <2>1
    <2>2. CASE i # Len(f) + 1
      <3>1. i \in 1..Len(f) /\ g[i] = f[i] /\ StillDecoded(f[i].time, q, p)
        BY <1>1, <1>2, <2>2 DEF FramesRise
      <3>2. ASSUME NEW j \in (i + 1)..Len(g), g[j].fresh PROVE g[i].time <= g[j].time
        <4>1. CASE j = Len(f) + 1
          BY <1>1, <3>1, <4>1
        <4>2. CASE j # Len(f) + 1
          <5>1. j \in (i + 1)..Len(f) /\ j \in 1..Len(f) /\ g[j] = f[j]
            BY <1>1, <3>1, <3>2, <4>2
          <5> QED
            BY <1>2, <3>1, <3>2, <5>1 DEF FramesRise
        <4> QED
          BY <4>1, <4>2
      <3> QED
        BY <3>1, <3>2
    <2> QED
      BY <2>1, <2>2
  <1>3. ASSUME NEW t, StillTaken(t, f, q, p) PROVE StillTaken(t, g, r, n)
    <2>1. StillDecoded(t, r, n) /\ t <= e.time
      BY <1>3 DEF StillTaken
    <2>2. ASSUME NEW i \in 1..Len(g), g[i].fresh PROVE t <= g[i].time
      <3>1. CASE i = Len(f) + 1
        BY <1>1, <2>1, <3>1
      <3>2. CASE i # Len(f) + 1
        <4>1. i \in 1..Len(f) /\ g[i] = f[i]
          BY <1>1, <3>2
        <4> QED
          BY <1>3, <2>2, <4>1 DEF StillTaken
      <3> QED
        BY <3>1, <3>2
    <2> QED
      BY <2>1, <2>2 DEF StillTaken
  <1> QED
    BY <1>2, <1>3 DEF FramesRise, g

\* ... and when one is taken.
LEMMA PictureGoes ==
    ASSUME NEW f \in Seq(Frames), f # <<>>, NEW q, NEW p, FramesRise(f, q, p)
    PROVE  /\ FramesRise(Tail(f), q, p)
           /\ \A t : StillTaken(t, f, q, p) =>
                        StillTaken(t, Tail(f), q, p) /\ (Head(f).fresh => t <= Head(f).time)
           /\ Head(f).fresh => StillTaken(Head(f).time, Tail(f), q, p)
  <1> DEFINE g == Tail(f)
  <1>1. /\ Len(f) \in Nat \ {0} /\ Len(g) = Len(f) - 1 /\ Len(g) \in Nat /\ Head(f) = f[1]
        /\ \A i \in 1..Len(g) : g[i] = f[i + 1]
    OBVIOUS
  <1> HIDE DEF g
  <1>2. 1 \in 1..Len(f) /\ \A i \in 1..Len(g) : i + 1 \in 1..Len(f) /\ i + 1 \in (1 + 1)..Len(f)
    BY <1>1
  <1>3. ASSUME NEW i \in 1..Len(g), g[i].fresh
        PROVE  /\ StillDecoded(g[i].time, q, p)
               /\ \A j \in (i + 1)..Len(g) : g[j].fresh => g[i].time <= g[j].time
    <2>1. g[i] = f[i + 1] /\ StillDecoded(f[i + 1].time, q, p)
      BY <1>1, <1>2, <1>3 DEF FramesRise
    <2>2. ASSUME NEW j \in (i + 1)..Len(g), g[j].fresh PROVE g[i].time <= g[j].time
      <3>1. j \in 1..Len(g) /\ j + 1 \in ((i + 1) + 1)..Len(f)
        BY <1>1
      <3>2. g[j] = f[j + 1]
        BY <1>1, <3>1
      <3> QED
        BY <1>2, <1>3, <2>1, <2>2, <3>1, <3>2 DEF FramesRise
    <2> QED
      BY <2>1, <2>2
  <1>4. ASSUME NEW t, StillTaken(t, f, q, p)
        PROVE  StillTaken(t, g, q, p) /\ (f[1].fresh => t <= f[1].time)
    BY <1>1, <1>2, <1>4 DEF StillTaken
  <1>5. f[1].fresh => StillTaken(f[1].time, g, q, p)
    BY <1>1, <1>2 DEF FramesRise, StillTaken
  <1> QED
    BY <1>1, <1>3, <1>4, <1>5 DEF FramesRise, g

\* The pictures, step by step.
LEMMA PicturesFrame ==
    ASSUME PictureLine, packets'["video"] = packets["video"], frames'["video"] = frames["video"],
           UNCHANGED <<read_pos, disp_pc, picture, last_video_pts>>, strayed => strayed'
    PROVE  PictureLine'
  BY DEF PictureLine, Uploads, StillComes

LEMMA PicturesKept ==
    ASSUME PictureLine, UNCHANGED <<disp_pc, picture, last_video_pts, strayed>>,
           PacketsRise(packets'["video"], read_pos'),
           FramesRise(frames'["video"], packets'["video"], read_pos'),
           \A t : StillTaken(t, frames["video"], packets["video"], read_pos)
                    => StillTaken(t, frames'["video"], packets'["video"], read_pos')
    PROVE  PictureLine'
  BY DEF PictureLine, Uploads, StillComes

LEMMA PicturesReader == Typed /\ SteadyFilm /\ PictureLine /\ Reader => PictureLine'
  <1> SUFFICES ASSUME Places, SteadyFilm, PictureLine, Reader PROVE PictureLine'
    BY DEF Typed
  <1> DEFINE q == packets["video"]
             f == frames["video"]
  <1>1. /\ q \in PacketQueues /\ f \in Seq(Frames) /\ read_pos \in 1..(Len(File) + 1)
        /\ read_pos \in Int /\ "video" \in Streams /\ Len(File) \in Nat
        /\ PacketsRise(q, read_pos) /\ FramesRise(f, q, read_pos)
    BY Positions DEF Places, Streams, PacketQueues, PictureLine
  <1>2. CASE SeekFlush
    <2>1. /\ packets'["video"] = <<>> /\ ~picture'.fresh
          /\ last_video_pts' = 0 /\ read_pos' = seek_pos
          /\ frames'["video"] = [i \in 1..Len(f) |-> Stale(f[i])]
      BY <1>1, <1>2 DEF SeekFlush, Stale
    <2>2. Len(frames'["video"]) = Len(f) /\ \A i \in 1..Len(f) : ~frames'["video"][i].fresh
      BY <1>1, <2>1 DEF Stale
    <2>3. \A i \in read_pos'..Len(File) : 0 <= File[i].time
      <3>1. \A i \in read_pos'..Len(File) : i \in 1..Len(File)
        BY <1>1, <2>1 DEF Places
      <3> QED
        BY <3>1, Positions
    <2>4. PacketsRise(packets'["video"], read_pos')
      BY <2>1 DEF PacketsRise
    <2>5. FramesRise(frames'["video"], packets'["video"], read_pos')
      BY <2>2 DEF FramesRise
    <2>6. StillTaken(0, frames'["video"], packets'["video"], read_pos')
      <3>1. \A i \in 1..Len(packets'["video"]) : FALSE
        BY <2>1
      <3> QED
        BY <2>2, <2>3, <3>1 DEF StillTaken, StillDecoded, StillRead
    <2> QED
      BY <2>1, <2>4, <2>5, <2>6 DEF PictureLine, Uploads, StillComes
  <1>3. CASE ReadPacket
    <2> DEFINE x == File[read_pos].time
    <2>1. /\ read_pos \in 1..Len(File) /\ read_pos' = read_pos + 1 /\ frames' = frames
          /\ UNCHANGED <<disp_pc, picture, last_video_pts, strayed>>
          /\ packets' = [packets EXCEPT ![File[read_pos].stream] = Append(@, x)]
          /\ x \in Nat /\ File[read_pos].stream \in Streams
      BY <1>1, <1>3, Positions DEF ReadPacket, sync, display
    <2>2. packets'["video"] = IF IsPicture(read_pos) THEN Append(q, x) ELSE q
      BY <1>1, <2>1 DEF IsPicture, Places
    <2>3. /\ PacketsRise(packets'["video"], read_pos + 1)
          /\ \A t : StillDecoded(t, q, read_pos)
                      => StillDecoded(t, packets'["video"], read_pos + 1)
      <3>1. CASE IsPicture(read_pos)
        <4>1. x # Eof
          BY <2>1 DEF Eof
        <4>2. StillRead(x, read_pos + 1)
          <5> SUFFICES ASSUME NEW i \in (read_pos + 1)..Len(File), IsPicture(i)
                       PROVE  x <= File[i].time
            BY DEF StillRead
          <5>1. i \in 1..Len(File) /\ read_pos < i
            BY <1>1, <2>1
          <5> QED
            BY <2>1, <3>1, <5>1 DEF SteadyFilm, IsPicture
        <4>3. \A t : StillRead(t, read_pos) => StillRead(t, read_pos + 1) /\ t <= x
          <5>1. \A i \in (read_pos + 1)..Len(File) : i \in read_pos..Len(File)
            BY <1>1
          <5>2. read_pos \in read_pos..Len(File)
            BY <1>1, <2>1
          <5> QED
            BY <3>1, <5>1, <5>2 DEF StillRead
        <4> HIDE DEF x, q
        <4> QED
          BY <1>1, <2>1, <2>2, <3>1, <4>1, <4>2, <4>3, PictureEnters
      <3>2. CASE ~IsPicture(read_pos)
        BY <1>1, <2>2, <3>2, SoundPasses
      <3> QED
        BY <3>1, <3>2
    <2>4. /\ FramesRise(f, packets'["video"], read_pos + 1)
          /\ \A t : StillTaken(t, f, q, read_pos)
                      => StillTaken(t, f, packets'["video"], read_pos + 1)
      BY <1>1, <2>3, PicturesStay
    <2> QED
      BY <2>1, <2>3, <2>4, PicturesKept
  <1>4. CASE ReadEof
    <2>1. /\ read_pos' = read_pos /\ frames' = frames
          /\ UNCHANGED <<disp_pc, picture, last_video_pts, strayed>>
          /\ packets'["video"] = q \/ packets'["video"] = Append(q, Eof)
      BY <1>1, <1>4 DEF ReadEof, sync, display
    <2>2. CASE packets'["video"] = q
      BY <2>1, <2>2, PicturesFrame
    <2>3. CASE packets'["video"] = Append(q, Eof)
      <3>1. /\ PacketsRise(packets'["video"], read_pos)
            /\ \A t : StillDecoded(t, q, read_pos) => StillDecoded(t, packets'["video"], read_pos)
        <4>1. Eof \in Nat \cup {Eof}
          OBVIOUS
        <4> QED
          BY <1>1, <2>3, <4>1, PictureEnters
      <3>2. /\ FramesRise(f, packets'["video"], read_pos)
            /\ \A t : StillTaken(t, f, q, read_pos)
                        => StillTaken(t, f, packets'["video"], read_pos)
        BY <1>1, <3>1, PicturesStay
      <3> QED
        BY <2>1, <3>1, <3>2, PicturesKept
    <2> QED
      BY <2>1, <2>2, <2>3
  <1>5. CASE Reader /\ ~SeekFlush /\ ~ReadPacket /\ ~ReadEof
    <2>1. UNCHANGED <<packets, frames, read_pos, disp_pc, picture, last_video_pts, strayed>>
      BY <1>5 DEF Reader, SeekFileFails, SeekServed, SeekEof, QueueFull, DetectEnd, WaitSamples,
                  LoopTest, LoopRewind, Stop, StopThreads, streams, sync, display
    <2> QED
      BY <2>1, PicturesFrame
  <1> QED
    BY <1>2, <1>3, <1>4, <1>5

LEMMA PicturesDecode ==
    ASSUME Typed, PictureLine, NEW s \in Streams, Decode(s)
    PROVE  PictureLine'
  <1> USE DEF Typed
  <1> DEFINE q == packets["video"]
             f == frames["video"]
  <1>0. /\ q \in PacketQueues /\ f \in Seq(Frames) /\ "video" \in Streams
        /\ PacketsRise(q, read_pos) /\ FramesRise(f, q, read_pos)
        /\ packets \in [Streams -> PacketQueues] /\ frames \in [Streams -> Seq(Frames)]
    BY DEF Places, Streams, PacketQueues, PictureLine
  <1>1. UNCHANGED <<read_pos, disp_pc, picture, last_video_pts, strayed>>
    BY DEF Decode, DecodeFrame, DecodeEof, reading, sync, display
  <1>2. CASE s = "audio"
    <2>1. packets'["video"] = q /\ frames'["video"] = f
      BY <1>0, <1>2 DEF Decode, DecodeFrame, DecodeEof, Streams
    <2> QED
      BY <1>1, <2>1, PicturesFrame
  <1>3. CASE s = "video" /\ DecodeEof(s)
    <2>1. q # <<>> /\ packets'["video"] = Tail(q) /\ frames' = frames
      BY <1>0, <1>3 DEF DecodeEof
    <2>2. /\ PacketsRise(Tail(q), read_pos)
          /\ \A t : StillDecoded(t, q, read_pos) => StillDecoded(t, Tail(q), read_pos)
      BY <1>0, <2>1, PictureLeaves
    <2>3. /\ FramesRise(f, Tail(q), read_pos)
          /\ \A t : StillTaken(t, f, q, read_pos) => StillTaken(t, f, Tail(q), read_pos)
      BY <1>0, <2>2, PicturesStay
    <2> QED
      BY <1>1, <2>1, <2>2, <2>3, PicturesKept
  <1>4. CASE s = "video" /\ DecodeFrame(s)
    <2> DEFINE e == [time |-> Head(q), fresh |-> TRUE]
    <2>1. /\ q # <<>> /\ Head(q) # Eof /\ packets'["video"] = Tail(q)
          /\ frames'["video"] = Append(f, e)
      BY <1>0, <1>4 DEF DecodeFrame
    <2>2. Head(q) = q[1] /\ q[1] \in Nat
      BY <1>0, <2>1 DEF PacketQueues
    <2>3. e \in Frames /\ e.time = q[1]
      BY <2>2 DEF Frames
    <2> HIDE DEF e
    <2>4. /\ PacketsRise(Tail(q), read_pos) /\ StillDecoded(e.time, Tail(q), read_pos)
          /\ \A t : StillDecoded(t, q, read_pos)
                      => StillDecoded(t, Tail(q), read_pos) /\ t <= e.time
      BY <1>0, <2>1, <2>2, <2>3, PictureLeaves
    <2>5. /\ FramesRise(Append(f, e), Tail(q), read_pos)
          /\ \A t : StillTaken(t, f, q, read_pos)
                      => StillTaken(t, Append(f, e), Tail(q), read_pos)
      BY <1>0, <2>3, <2>4, PictureJoins
    <2> QED
      BY <1>1, <2>1, <2>4, <2>5, PicturesKept
  <1> QED
    BY <1>2, <1>3, <1>4 DEF Streams, Decode

LEMMA PicturesDisplay == Typed /\ PictureLine /\ (DisplayThread \/ AddVideo) => PictureLine'
  <1> SUFFICES ASSUME Places, PictureLine, DisplayThread \/ AddVideo PROVE PictureLine'
    BY DEF Typed
  <1> DEFINE q == packets["video"]
             f == frames["video"]
  <1>1. f \in Seq(Frames) /\ FramesRise(f, q, read_pos) /\ PacketsRise(q, read_pos)
    BY DEF Places, Streams, PictureLine
  <1>2. CASE DisplayThread
    <2>1. /\ disp_pc = "poll" /\ f # <<>> /\ frames'["video"] = Tail(f)
          /\ UNCHANGED <<packets, read_pos, last_video_pts, strayed>>
          /\ UNCHANGED <<disp_pc, picture>> \/ picture' = Head(f)
      BY <1>2 DEF DisplayThread, SkipStale, DropLate, ShowPicture, TakePicture, reading, sync,
                  display, Places, Streams
    <2>2. /\ FramesRise(Tail(f), q, read_pos)
          /\ \A t : StillTaken(t, f, q, read_pos) =>
                StillTaken(t, Tail(f), q, read_pos) /\ (Head(f).fresh => t <= Head(f).time)
          /\ Head(f).fresh => StillTaken(Head(f).time, Tail(f), q, read_pos)
      BY <1>1, <2>1, PictureGoes
    <2>3. Uploads' => picture' = Head(f) /\ Head(f).fresh
      BY <2>1 DEF Uploads
    <2>4. Uploads' => StillComes(picture.time)'
      BY <2>1, <2>2, <2>3 DEF StillComes
    <2>5. ~strayed => StillComes(last_video_pts)' /\ (Uploads' => last_video_pts <= picture'.time)
      BY <2>1, <2>2, <2>3 DEF PictureLine, StillComes
    <2> QED
      BY <1>1, <2>1, <2>2, <2>4, <2>5 DEF PictureLine
  <1>3. CASE AddVideo
    <2>1. /\ disp_pc = "upload" /\ disp_pc' = "poll" /\ last_video_pts' = picture.time
          /\ strayed' = (strayed \/ ~picture.fresh)
          /\ UNCHANGED <<packets, frames, read_pos>>
      BY <1>3 DEF AddVideo, streams, reading
    <2>2. ~strayed' => StillComes(last_video_pts)'
      BY <2>1 DEF PictureLine, Uploads, StillComes
    <2> QED
      BY <2>1, <2>2 DEF PictureLine, Uploads
  <1> QED
    BY <1>2, <1>3

LEMMA PicturesStep == Typed /\ SteadyFilm /\ PictureLine /\ [Next]_vars => PictureLine'
  <1> SUFFICES ASSUME Typed, SteadyFilm, PictureLine, [Next]_vars PROVE PictureLine'
    OBVIOUS
  <1>1. CASE GameSteps \/ FetchAudio \/ UNCHANGED vars
    <2>1. UNCHANGED <<packets, frames, read_pos, disp_pc, picture, last_video_pts, strayed>>
      BY <1>1 DEF GameSteps, Call, Return, SetRatePause, SetRateResume, StartPlaying, SetLooping,
                  Seek, PauseThreads, ResumeThreads, SetRateEof, SetRateRewind, SeekStore,
                  SeekResume, SeekReturn, FetchAudio, vars, streams, reading, sync, display
    <2> QED
      BY <2>1, PicturesFrame
  <1>2. CASE AudioThread \/ AddAudio
    <2>1. /\ UNCHANGED <<packets, read_pos, disp_pc, picture, last_video_pts>>
          /\ frames' = frames \/ frames' = [frames EXCEPT !["audio"] = Tail(@)]
      BY <1>2 DEF AudioThread, AudioEnter, AudioTake, AudioIgnore, AudioKeep, AddAudio,
                  streams, reading, sync, display
    <2>2. frames'["video"] = frames["video"]
      BY <2>1 DEF Typed, Places, Streams
    <2>3. strayed => strayed'
      BY <1>2, Zenon DEF AudioThread, AudioEnter, AudioTake, AudioIgnore, AudioKeep, AddAudio, sync
    <2> QED
      BY <2>1, <2>2, <2>3, PicturesFrame
  <1> QED
    BY <1>1, <1>2, PicturesReader, PicturesDecode, PicturesDisplay DEF Next, GameSteps

LEMMA PicturesInit == Init => PictureLine
  <1> SUFFICES ASSUME Init PROVE PictureLine
    OBVIOUS
  <1>1. /\ packets["video"] = <<>> /\ frames["video"] = <<>> /\ disp_pc = "poll"
        /\ last_video_pts = 0 /\ read_pos = 1
    BY DEF Init, Streams
  <1>2. StillComes(last_video_pts)
    BY <1>1, Positions DEF StillComes, StillTaken, StillDecoded, StillRead
  <1> QED
    BY <1>1, <1>2 DEF PictureLine, PacketsRise, FramesRise, Uploads

-----------------------------------------------------------------------------
\* The film has an end.
LEMMA DurationIsNat == Duration \in Nat
  <1> DEFINE Ends(n) == {File[i].time + 1 : i \in 1..n}
             S == {n \in 0..Len(File) : \E d \in Ends(n) \cup {0} : d \in Nat /\ \A e \in Ends(n) : e <= d}
  <1>1. 0 \in S
    BY Positions
  <1>2. ASSUME NEW n \in 0..(Len(File) - 1), n \in S PROVE n + 1 \in S
    <2>1. PICK d \in Ends(n) \cup {0} : d \in Nat /\ \A e \in Ends(n) : e <= d
      BY <1>2
    <2> DEFINE x == File[n + 1].time + 1
    <2>2. n + 1 \in 1..Len(File) /\ n + 1 \in 0..Len(File) /\ x \in Nat
      BY Positions
    <2>3. Ends(n + 1) = Ends(n) \cup {x}
      <3>1. 1..(n + 1) = (1..n) \cup {n + 1}
        OBVIOUS
      <3> QED
        BY <3>1
    <2>4. Ends(n) \subseteq Nat
      BY Positions
    <2> HIDE DEF x, Ends
    <2>5. \E c \in Ends(n + 1) \cup {0} : c \in Nat /\ \A e \in Ends(n + 1) : e <= c
      <3>1. CASE x <= d
        BY <2>1, <2>3, <3>1
      <3>2. CASE ~(x <= d)
        BY <2>1, <2>2, <2>3, <2>4, <3>2
      <3> QED
        BY <3>1, <3>2
    <2> QED
      BY <2>2, <2>5
  <1>3. Len(File) \in S
    <2> HIDE DEF S
    <2>1. \A n \in 0..Len(File) : n \in S
      BY <1>1, <1>2, Positions, UpTo
    <2> QED
      BY <2>1, Positions
  <1>4. Duration \in Ends(Len(File)) \cup {0}
    BY <1>3 DEF Duration
  <1>5. Ends(Len(File)) \subseteq Nat
    BY Positions
  <1> QED
    BY <1>4, <1>5

\* What the audio thread has tested before it began a sound still holds.
GateHeld == aud_pc # "poll" /\ heard /\ ~strayed => GateIsOpen

LEMMA GateInit == Init => GateHeld
  BY DEF Init, GateHeld

LEMMA GateStep == Typed /\ PictureLine /\ GateHeld /\ [Next]_vars => GateHeld'
  <1> SUFFICES ASSUME Typed, PictureLine, GateHeld, [Next]_vars PROVE GateHeld'
    OBVIOUS
  <1>1. CASE AudioEnter
    BY <1>1 DEF AudioEnter, GateHeld, GateIsOpen, sync
  <1>2. CASE AddAudio \/ AudioIgnore
    BY <1>2 DEF AddAudio, AudioIgnore, GateHeld
  <1>3. CASE SeekFlush
    BY <1>3 DEF SeekFlush, GateHeld
  <1>4. CASE AddVideo
    <2>1. /\ disp_pc = "upload" /\ last_video_pts' = picture.time
          /\ strayed' = (strayed \/ ~picture.fresh)
          /\ UNCHANGED <<aud_pc, heard, last_audio_pts>>
      BY <1>4 DEF AddVideo, audio
    <2>2. ~strayed' => ~strayed /\ last_video_pts <= last_video_pts'
      BY <2>1 DEF PictureLine, Uploads
    <2>3. last_video_pts \in Nat /\ last_video_pts' \in Nat /\ last_audio_pts \in Nat
      <3>1. picture \in Frames
        BY <2>1 DEF Typed, Holding
      <3> QED
        BY <2>1, <3>1 DEF Typed, Places, Frames
    <2> QED
      BY <2>1, <2>2, <2>3, PlaybackAssumption, DurationIsNat
         DEF PlaybackAssumption, GateHeld, GateIsOpen
  <1>5. CASE UNCHANGED <<aud_pc, heard, strayed, last_audio_pts, last_video_pts>>
               \/ (aud_pc = "take" /\ UNCHANGED <<heard, strayed, last_audio_pts, last_video_pts>>)
               \/ (aud_pc = "taken" /\ UNCHANGED <<heard, strayed, last_audio_pts, last_video_pts>>)
    BY <1>5 DEF GateHeld, GateIsOpen
  <1>6. ASSUME NEW s \in Streams, Decode(s) PROVE GateHeld'
    BY <1>5, <1>6 DEF Decode, DecodeFrame, DecodeEof, audio, sync
  <1>7. CASE GameSteps \/ FetchAudio \/ UNCHANGED vars
    BY <1>5, <1>7
       DEF GameSteps, Call, Return, SetRatePause, SetRateResume, StartPlaying, SetLooping,
           Seek, PauseThreads, ResumeThreads, SetRateEof, SetRateRewind, SeekStore,
           SeekResume, SeekReturn, FetchAudio, vars, sync, audio
  <1>8. CASE Reader /\ ~SeekFlush
    BY <1>5, <1>8
       DEF Reader, SeekFileFails, SeekServed, SeekEof, QueueFull, DetectEnd, WaitSamples,
           LoopTest, LoopRewind, Stop, StopThreads, ReadPacket, ReadEof, sync, audio
  <1>9. CASE AudioTake \/ AudioKeep \/ DisplayThread
    BY <1>5, <1>9 DEF AudioTake, AudioKeep, DisplayThread, SkipStale, DropLate, ShowPicture,
                      TakePicture, sync, audio
  <1> QED
    BY <1>1, <1>2, <1>3, <1>4, <1>6, <1>7, <1>8, <1>9 DEF Next, GameSteps, AudioThread

SyncStep ==
    (heard /\ heard' /\ ~strayed' /\ last_audio_pts' # last_audio_pts) =>
         \/ last_audio_pts' - last_video_pts <= Gap
         \/ last_video_pts + EndZone > Duration

LEMMA SyncSound == Typed /\ SoundLine /\ GateHeld /\ [Next]_vars => SyncStep
  <1> SUFFICES ASSUME Typed, SoundLine, GateHeld, [Next]_vars,
                      heard, heard', ~strayed', last_audio_pts' # last_audio_pts
               PROVE  \/ last_audio_pts' - last_video_pts <= Gap
                      \/ last_video_pts + EndZone > Duration
    BY DEF SyncStep
  <1>1. AddAudio
    BY DEF Next, Call, Return, SetRatePause, SetRateResume, StartPlaying, SetLooping, Seek,
           PauseThreads, ResumeThreads, SetRateEof, SetRateRewind, SeekStore, SeekResume,
           SeekReturn, Reader, SeekFileFails, SeekFlush, SeekServed, SeekEof, QueueFull, DetectEnd,
           WaitSamples, LoopTest, LoopRewind, Stop, StopThreads, ReadPacket, ReadEof,
           Decode, DecodeFrame, DecodeEof, AudioThread, AudioEnter, AudioTake,
           AudioIgnore, AudioKeep, DisplayThread, SkipStale, DropLate, ShowPicture,
           TakePicture, AddVideo, FetchAudio, vars, sync
  <1>2. /\ aud_pc = "add" /\ last_audio_pts' = sound.time + 1
        /\ strayed' = (strayed \/ ~sound.fresh)
    BY <1>1 DEF AddAudio
  <1>3. sound.time <= last_audio_pts /\ GateIsOpen
    BY <1>2 DEF SoundLine, InHand, GateHeld
  <1>4. sound.time \in Nat /\ last_audio_pts \in Nat /\ last_video_pts \in Nat
    <2>1. sound \in Frames
      BY <1>2 DEF Typed, Holding
    <2> QED
      BY <2>1 DEF Frames, Typed, Places
  <1> QED
    BY <1>2, <1>3, <1>4, PlaybackAssumption DEF PlaybackAssumption, GateIsOpen

\* With a steady film, of any length and for any gap, end zone and sizes of the
\* queues, a sound that follows the one before it is at most the gap ahead of
\* the picture when it is handed over, although the gate is tested before the
\* sound is even known and both threads run on meanwhile.
THEOREM PlaybackLipSync == ASSUME SteadyFilm PROVE Spec => LipSync
  <1> DEFINE PInv == Typed /\ EInv /\ SoundLine /\ PictureLine /\ GateHeld
  <1>1. Init => PInv
    BY TypedInit, EInit, LineInit, PicturesInit, GateInit
  <1>2. PInv /\ [Next]_vars => PInv'
    BY TypedStep, EStep, LineStep, PicturesStep, GateStep
  <1>3. PInv /\ [Next]_vars => [SyncStep]_vars
    BY SyncSound
  <1>4. LipSync <=> [][SyncStep]_vars
    BY PTL DEF LipSync, SyncStep
  <1> HIDE DEF PInv
  <1> QED
    BY <1>1, <1>2, <1>3, <1>4, PTL DEF Spec

-----------------------------------------------------------------------------
(***************************************************************************)
(* The packets read ahead.  The limit is tested at the start of a turn, and*)
(* the turn may go through the search for the end before it reads; that the*)
(* test still holds then is because only the read thread queues packets.   *)
(***************************************************************************)
Queued == Len(packets["audio"]) + Len(packets["video"])

WithinLimit ==
    /\ Queued <= MAX_QUEUE_SIZE + 2
    /\ read_pc \in {"drained", "rewind", "ending", "read"} => Queued <= MAX_QUEUE_SIZE

LEMMA SumOfTwo ==
    ASSUME NEW a \in Nat, NEW b \in Nat
    PROVE  /\ a + b \in Nat
           /\ (a + 1) + b = (a + b) + 1 /\ a + (b + 1) = (a + b) + 1
           /\ (a + 1) + (b + 1) = (a + b) + 2
           /\ (a - 1) + b = (a + b) - 1 /\ a + (b - 1) = (a + b) - 1
  OBVIOUS

LEMMA QueuedType ==
    ASSUME Places
    PROVE  /\ Len(packets["audio"]) \in Nat /\ Len(packets["video"]) \in Nat
           /\ Queued \in Nat /\ MAX_QUEUE_SIZE \in Nat
  <1>1. packets["audio"] \in PacketQueues /\ packets["video"] \in PacketQueues
    BY DEF Places, Streams, PacketQueues
  <1> HIDE DEF Places
  <1>2. Len(packets["audio"]) \in Nat /\ Len(packets["video"]) \in Nat
    BY <1>1 DEF PacketQueues
  <1>3. MAX_QUEUE_SIZE \in Nat
    BY PlaybackAssumption DEF PlaybackAssumption
  <1> QED
    BY <1>2, <1>3, SumOfTwo DEF Queued

LEMMA LimitFrame ==
    ASSUME WithinLimit, packets' = packets,
           read_pc' = read_pc \/ read_pc' \notin {"drained", "rewind", "ending", "read"}
             \/ Queued <= MAX_QUEUE_SIZE
    PROVE  WithinLimit'
  BY DEF WithinLimit, Queued

LEMMA LimitReader == Typed /\ WithinLimit /\ Reader => WithinLimit'
  <1> SUFFICES ASSUME Places, WithinLimit, Reader PROVE WithinLimit'
    BY DEF Typed
  <1>1. /\ Len(packets["audio"]) \in Nat /\ Len(packets["video"]) \in Nat
        /\ Queued \in Nat /\ MAX_QUEUE_SIZE \in Nat
    BY QueuedType
  <1>2. ASSUME ~EnoughPackets PROVE Queued <= MAX_QUEUE_SIZE
    <2>1. ~(Queued > MAX_QUEUE_SIZE)
      BY <1>2 DEF EnoughPackets, Queued
    <2> HIDE DEF Queued
    <2> QED
      BY <1>1, <2>1
  <1>3. Reads => Queued <= MAX_QUEUE_SIZE
    BY <1>2 DEF Reads, WithinLimit
  <1>4. CASE SeekFlush
    <2>1. /\ packets'["audio"] = <<>> /\ packets'["video"] = <<>> /\ read_pc' = "served"
      BY <1>4 DEF SeekFlush, Streams
    <2> QED
      BY <1>1, <2>1 DEF WithinLimit, Queued
  <1>5. CASE ReadPacket
    <2>1. /\ read_pos \in 1..Len(File) /\ read_pc' = "top"
          /\ packets' = [packets EXCEPT ![File[read_pos].stream] = Append(@, File[read_pos].time)]
          /\ File[read_pos].stream \in Streams /\ File[read_pos].time \in Nat
      BY <1>5, Positions DEF ReadPacket, Places
    <2>2. /\ packets \in [Streams -> PacketQueues]
          /\ packets["audio"] \in PacketQueues /\ packets["video"] \in PacketQueues
      BY DEF Places, Streams, PacketQueues
    <2>3. \A q \in PacketQueues : Len(Append(q, File[read_pos].time)) = Len(q) + 1
      BY <2>1 DEF PacketQueues
    <2>4. Queued' = Queued + 1
      <3>1. CASE File[read_pos].stream = "audio"
        <4>1. /\ packets'["audio"] = Append(packets["audio"], File[read_pos].time)
              /\ packets'["video"] = packets["video"]
          BY <2>1, <2>2, <3>1 DEF Streams
        <4>2. Len(packets'["audio"]) = Len(packets["audio"]) + 1
          BY <2>2, <2>3, <4>1
        <4> DEFINE a == Len(packets["audio"])
                   b == Len(packets["video"])
        <4>3. Queued = a + b /\ Queued' = (a + 1) + b /\ a \in Nat /\ b \in Nat
          BY <1>1, <4>1, <4>2 DEF Queued
        <4> HIDE DEF a, b
        <4> QED
          BY <4>3, SumOfTwo
      <3>2. CASE File[read_pos].stream = "video"
        <4>1. /\ packets'["video"] = Append(packets["video"], File[read_pos].time)
              /\ packets'["audio"] = packets["audio"]
          BY <2>1, <2>2, <3>2 DEF Streams
        <4>2. Len(packets'["video"]) = Len(packets["video"]) + 1
          BY <2>2, <2>3, <4>1
        <4> DEFINE a == Len(packets["audio"])
                   b == Len(packets["video"])
        <4>3. Queued = a + b /\ Queued' = a + (b + 1) /\ a \in Nat /\ b \in Nat
          BY <1>1, <4>1, <4>2 DEF Queued
        <4> HIDE DEF a, b
        <4> QED
          BY <4>3, SumOfTwo
      <3> QED
        BY <2>1, <3>1, <3>2 DEF Streams
    <2>5. Queued <= MAX_QUEUE_SIZE
      BY <1>3, <1>5 DEF ReadPacket
    <2> QED
      BY <1>1, <2>1, <2>4, <2>5 DEF WithinLimit
  <1>6. CASE ReadEof
    <2>1. /\ read_pc' = "top"
          /\ packets' = packets \/ packets' = [s \in Streams |-> Append(packets[s], Eof)]
      BY <1>6 DEF ReadEof
    <2>2. packets["audio"] \in PacketQueues /\ packets["video"] \in PacketQueues
      BY DEF Places, Streams, PacketQueues
    <2>3. \A q \in PacketQueues : Len(Append(q, Eof)) = Len(q) + 1
      BY DEF PacketQueues
    <2>4. Queued' = Queued \/ Queued' = Queued + 2
      <3>1. CASE packets' = packets
        BY <3>1 DEF Queued
      <3>2. CASE packets' = [s \in Streams |-> Append(packets[s], Eof)]
        <4>1. /\ packets'["audio"] = Append(packets["audio"], Eof)
              /\ packets'["video"] = Append(packets["video"], Eof)
          BY <3>2 DEF Streams
        <4>2. /\ Len(packets'["audio"]) = Len(packets["audio"]) + 1
              /\ Len(packets'["video"]) = Len(packets["video"]) + 1
          BY <2>2, <2>3, <4>1
        <4> DEFINE a == Len(packets["audio"])
                   b == Len(packets["video"])
        <4>3. Queued = a + b /\ Queued' = (a + 1) + (b + 1) /\ a \in Nat /\ b \in Nat
          BY <1>1, <4>2 DEF Queued
        <4> HIDE DEF a, b
        <4> QED
          BY <4>3, SumOfTwo
      <3> QED
        BY <2>1, <3>1, <3>2
    <2>5. Queued <= MAX_QUEUE_SIZE
      BY <1>3, <1>6 DEF ReadEof
    <2> QED
      BY <1>1, <2>1, <2>4, <2>5 DEF WithinLimit
  <1>7. CASE DetectEnd
    BY <1>2, <1>7, LimitFrame DEF DetectEnd, streams
  <1>8. CASE SeekFileFails \/ SeekServed \/ SeekEof \/ QueueFull \/ WaitSamples
    BY <1>8, LimitFrame DEF SeekFileFails, SeekServed, SeekEof, QueueFull, WaitSamples, streams
  <1>9. CASE LoopTest \/ LoopRewind \/ Stop \/ StopThreads
    <2>1. packets' = packets /\ Queued <= MAX_QUEUE_SIZE
      BY <1>9 DEF WithinLimit, LoopTest, LoopRewind, Stop, StopThreads, streams
    <2> QED
      BY <2>1, LimitFrame
  <1> QED
    BY <1>4, <1>5, <1>6, <1>7, <1>8, <1>9 DEF Reader

LEMMA LimitDecode ==
    ASSUME Typed, WithinLimit, NEW s \in Streams, Decode(s)
    PROVE  WithinLimit'
  <1>1. /\ packets \in [Streams -> PacketQueues] /\ packets[s] # <<>>
        /\ packets' = [packets EXCEPT ![s] = Tail(@)] /\ read_pc' = read_pc
    BY DEF Decode, DecodeFrame, DecodeEof, Typed, Places, PacketQueues, reading
  <1>2. /\ Len(packets["audio"]) \in Nat /\ Len(packets["video"]) \in Nat
        /\ Queued \in Nat /\ MAX_QUEUE_SIZE \in Nat
    BY QueuedType DEF Typed
  <1>3. \A q \in PacketQueues : q # <<>> => Len(Tail(q)) = Len(q) - 1
    BY DEF PacketQueues
  <1>4. Queued' = Queued - 1
    <2>1. CASE s = "audio"
      <3>1. packets'["audio"] = Tail(packets["audio"]) /\ packets'["video"] = packets["video"]
        BY <1>1, <2>1 DEF Streams
      <3> QED
        BY <1>1, <1>2, <1>3, <2>1, <3>1, SumOfTwo DEF Queued
    <2>2. CASE s = "video"
      <3>1. packets'["video"] = Tail(packets["video"]) /\ packets'["audio"] = packets["audio"]
        BY <1>1, <2>2 DEF Streams
      <3> QED
        BY <1>1, <1>2, <1>3, <2>2, <3>1, SumOfTwo DEF Queued
    <2> QED
      BY <2>1, <2>2 DEF Streams
  <1> QED
    BY <1>1, <1>2, <1>4 DEF WithinLimit

LEMMA LimitStep == Typed /\ WithinLimit /\ [Next]_vars => WithinLimit'
  <1> SUFFICES ASSUME Typed, WithinLimit, [Next]_vars PROVE WithinLimit'
    OBVIOUS
  <1>1. CASE GameSteps \/ FetchAudio \/ UNCHANGED vars
    BY <1>1, LimitFrame
       DEF GameSteps, Call, Return, SetRatePause, SetRateResume, StartPlaying, SetLooping,
           Seek, PauseThreads, ResumeThreads, SetRateEof, SetRateRewind, SeekStore,
           SeekResume, SeekReturn, FetchAudio, vars, streams, reading
  <1>2. CASE AudioThread \/ AddAudio \/ DisplayThread \/ AddVideo
    BY <1>2, LimitFrame
       DEF AudioThread, AudioEnter, AudioTake, AudioIgnore, AudioKeep, AddAudio, DisplayThread,
           SkipStale, DropLate, ShowPicture, TakePicture, AddVideo, streams, reading
  <1> QED
    BY <1>1, <1>2, LimitReader, LimitDecode DEF Next, GameSteps

LEMMA LimitInit == Init => WithinLimit
  <1> SUFFICES ASSUME Init PROVE WithinLimit
    OBVIOUS
  <1>1. packets["audio"] = <<>> /\ packets["video"] = <<>> /\ read_pc = "top"
    BY DEF Init, Streams
  <1> QED
    BY <1>1, PlaybackAssumption DEF WithinLimit, Queued, PlaybackAssumption

\* The read thread never reads ahead more than one packet, or two null packets,
\* beyond the limit it tests, for any limit and any film.
THEOREM ReadAheadIsBounded == Spec => []QueuesBounded
  <1>1. WithinLimit => QueuesBounded
    BY DEF WithinLimit, Queued, QueuesBounded
  <1> QED
    BY <1>1, TypedInit, TypedStep, LimitInit, LimitStep, PTL DEF Spec
=============================================================================
