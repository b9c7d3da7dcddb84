# UnrealVideoFFmpeg in TLA+

A verification development kept beside the plugin: models of its player core, of the
recording session with its frame grabber, and of the muxer, the TLC configurations that check
them on small instances, and TLAPS proofs of what matters most for every value of the constants.

Every definition is translated from the source; comments and documents of the
repository are only used as claims to compare with it. `PROJECT.json` maps each
definition to the lines it stands for.

## 1. The system

The plugin has two halves that share nothing but the FFmpeg libraries.

**Player** (`Source/FFmpegMedia`), a media player for Unreal Engine after ffplay:

```
 game thread     FFmpegMediaPlayer  Open / Close / TickInput; FFFmpegMediaTracks  Seek / SetRate / SelectTrack
 thread pool     ReadContext, FFFmpegMediaTracks::Initialize
 read thread     demuxer -> audioq, videoq, subtitleq        (FFmpegPacketQueue)
 decoder threads packet queue -> codec -> sampq, pictq, subpq (FFmpegDecoder, FFmpegFrameQueue)
 display thread  pictq -> samples for the engine              (video_refresh)
 audio thread    sampq -> resampler -> samples for the engine (audio_decode_frame)
```

**Recorder** (`Source/VideoStream`, `Source/UMuxer`): a subsystem that starts and ends
recordings, a frame grabber that reads the back buffer, and recorders that encode (AVMuxer
with two encode threads and synchronised queues, a Windows Media Foundation writer with an
encoder thread and a ring buffer, the engine's own encoder, a named pipe).

### Inventory

| component | state | operations | what makes it hard | what makes it correct |
|---|---|---|---|---|
| packet queue (`FFmpegPacketQueue`, `FFmpegCond`) | fifo, three counters, `abort_request`, `serial`, event | Init, Put, PutNullpacket, Get, Flush, Abort, Start | three threads; a condition that is not atomic; a serial that separates what is before and after a seek | counters = contents; only current packets; no leak; Abort wakes |
| frame queue (`FFmpegFrameQueue`) | ring of slots, `windex`, `rindex`, `rindex_shown`, `size` | PeekWritable, Push, Peek, PeekReadable, Next, Signal | indices and slots outside the mutex; a frame used after Next | no overflow; never both sides in one slot; a held frame stays |
| decoder (`FFmpegDecoder`) | packet, `pkt_serial`, `finished`, codec | DecodeFrame, Start, Abort | frames held back in the codec across a flush | order; no frame of one generation in another |
| playback (`FFFmpegMediaTracks`: threads) | `seek_req`, `eof`, exact-seek flags, `CurrentState`, `paused`, `last_audio_pts`, `last_video_pts`, clocks | read_thread, *_thread, video_refresh, AudioRenderThread, Seek, SetRate, SetLooping | none of the flags is locked; state and `paused` are two variables; sound, picture and reader wait for each other | a seek gets to the screen; the end is the end and is noticed; the two states agree; sound and picture stay together; a film that plays comes to its end |
| life cycle (`FFmpegMediaPlayer`, Initialize, SelectTrack, Shutdown) | `CurrentState`, context, thread handles, run flags, stream counts | Open, Close, Initialize, SelectTrack, Shutdown | one object reused for every media; asynchronous Open; threads nobody joins | nothing is closed under its users; Close returns; the next media starts afresh |
| clocks (`FFmpegClock`) | pts, drift, speed, serial | Get, Set, SyncToSlave | clock made obsolete by a serial | an obsolete clock is never followed |
| recording subsystem (`UVideoStreamSubsystem`) | `bIsRecording`, `bShouldEnd`, counters, implementation | StartCapture, WarmUp, EndCapture, AddTickTime, OnFrameReady, OnNewSubmixBuffer | game, render and audio thread; flags that outlive a recording | each recording ends once, by its own request |
| muxer (`AVMuxer`, `SyncQueue`) | two queues, two threads, ending flags | feed, stop, encode loops | stop against readers and writers | the file is in feeding order, nothing follows the trailer, images stay with the sound, stop returns |
| frame grabber (`FCustomFrameGrabber`) | ring of surfaces, events | capture, resolve, stop, shutdown | read-back on the render thread, blocking wait | a surface is reused only when it has been delivered |
| encoder thread, WMF ring buffer, UE encoder | circular queues, stop flag | Insert, RunEncode, Stop, IsFinished | bounded queue, end of the thread | not modelled: no caller (section 5) |

`PROJECT.json` lists the components with their status and, under `hazards`, what in this
code a test would hardly reach, each at its line.

## 2. The modules

```
PacketStream   <--implements--  PacketQueue   <-- PacketQueueProofs
FrameBuffer    <--implements--  FrameQueue    <-- FrameQueueProofs
     ^
     |  (both, by what they promise)
VideoPipeline                                 <-- VideoPipelineProofs
Playback                                      <-- PlaybackProofs
TracksLifecycle                               <-- TracksLifecycleProofs
MediaFile      <--implements--  Muxer         <-- MuxerProofs
FrameGrabber   <--extends--  RecordingSession <-- RecordingProofs
Induction      induction over 0..n as lemmas, for PacketQueueProofs and PlaybackProofs
MC*            values of the constants
```

**PacketQueue.** One action per critical section. `Get` releases the mutex before it waits,
so a waiting `Get` is a state; the event of `FFmpegCond` is manual-reset and is never reset,
which is what makes the three-step wait safe, and the model keeps exactly that. The queue's
operations constrain the queue's variables only; the threads' actions (`Reader*`, `Get*`,
`Owner*`) call them in the order `read_thread`, `DecodeFrame` and `FFmpegDecoder` do. `live`
counts the packets `Put` has allocated and nobody has freed. `PacketStream` is the promise:
a fifo of generations.

**FrameQueue.** The accesses themselves are the steps, since the indices and the slots are not
under the mutex: `PushIndex`/`PushCount`, `NextFrees`/`NextCount`, the two reads of
`abort_request` in `PeekWritable` and `PeekReadable`. `held` is what the reader saw in its slot.
The owner starts and aborts the decoder (`SelectTrack`); the reader survives that.
`FrameBuffer` is the promise: a bounded fifo that keeps its last frame.

**VideoPipeline.** One video stream from the demuxer to the screen. It takes the two queues by
their promises (`INSTANCE PacketStream`, `INSTANCE FrameBuffer`), and has every step in which
the game, read, decoder and display threads touch what they share: the parts of a seek
(`SeekFlush`, `SeekTime`, `SeekFlag`, `SeekServed`, `SeekEof`) are separate steps, as are the test
and the clearing of the exact-seek flag, and `pictq.Next()` (`TakePicture`) and `video_display` (`ShowPicture`). Time is abstracted: whether a frame is late is a free
choice. Frame number `i` is due at time `i`.

**Playback.** Sound and picture of one media together, played by five threads while the user pauses, resumes,
seeks and loops. What `VideoPipeline` shows of one stream is taken as known here: a serial is a flag (`fresh`:
the frame is of the current generation), a seek goes straight to its target, and a decoder moves a packet to a
frame in one step. In return it has what several streams and the user's calls bring in. `SetRate`, `Seek` and
the end of the playback are cut wherever another thread reads what they write: `CurrentState` is written
before `paused`, `eof` is tested after both, `stream_seek` tests `seek_req` before it stores the position, and
the read thread tests for the end (`DetectEnd`), for waiting samples (`WaitSamples`), and then writes the two
states (`Stop`, `StopThreads`) in steps of their own. `SeekFlush` is the flush of both queues with the resets
that follow it. `Turn` and `Reads` gather the tests a turn of `read_thread` makes on its way. `AudioEnter` is
the test of `paused`, the gate on the two times and the test of the state at the head of `audio_decode_frame`,
taken together; `AudioIgnore` tests the state again once a frame was taken, as `RenderAudio` does. `game` other than
`idle` means that the game thread holds `CriticalSection`; `AddAudio` and `AddVideo` need it. Of the samples
only the number of audio samples is kept: pictures are taken as they come, and the flush of `GetEvents` at the
end of the playback is what `FetchAudio` does. `overlapped`, `heard` and `strayed` are history for the
properties, and `target` goes back to 1 when it has been used, so that it does not tell states apart.

**TracksLifecycle.** The player as owner of threads. The task of an `Open` runs on the pool in
two steps (before and after `CurrentState = Preparing`), under the lock; `Shutdown` is one step
per thing it waits for or closes. That a stream is open is said in three places: the selected track (`selected`),
`video_stream` and `audio_stream` (`open_streams`), and the decoder thread (`decoding`), which
`stream_component_close` joins (the join completes: `AbortCompletes` of the two queues). `SelectTrack` sets all
three; `Shutdown` closes what `open_streams` names and forgets the tracks in `Reset`; `Initialize` sets
`open_streams` back without closing anything (`FFmpegMediaTracks.cpp:172-174`), which makes a difference only when
it runs into a media that is open, that is, with `Patient` FALSE. `destroying` is the block of `Shutdown` that
destroys the queues and waits for the rendering threads. That the queues a forgotten decoder waits in are replaced
under it is not modelled: what it would read then is undefined.

**Muxer.** One `AVMuxer` from `start()` to the end of `stop()`: `Feed` is `feed_image` and
`feed_audio`, `Take`/`Wait` are `SyncQueue::read`, and the two encode loops share what they do with a
frame (`Encoder`) and differ in their heads and in what they do at the end of the queue. `pc` is the
place in the loop: at `loop` the exit flag, the error and (video) the comparison with the sound are read,
`read` and `wait` are inside `SyncQueue::read`, `encode` holds a frame, `drain` takes packets out,
`flush` and `flushing` are the end. `stop()` is one step per thing it sets or waits for. A frame is its
number; a codec is a fifo that may hold some frames back; any conversion, encode or write may fail. Both
queues are made with capacity -1, which is the largest `size_t`, so that `write` never waits and is one
step. The wait is on a `std::condition_variable` with a predicate, hence atomic with the release of the
mutex. `MediaFile` is the promise: every stream of the file holds frames that were fed, in the order they
were fed, none twice, and nothing follows the trailer. It lets frames be missing, because the code drops
some: what is queued when `stop()` comes, and all images as long as there is no sound.

**FrameGrabber** has the operations of `FCustomFrameGrabber`, each on the grabber's variables only, and
**RecordingSession** the threads that call them. `AvailableEvent` of a surface is `none` (null), `busy` or
`free` (triggered); the two halves of `BlockUntilAvailable`, the null test and the wait, are separate steps
on both threads. `render` is the place of the render thread from the back-buffer callback through the
payload's `OnFrameReady_RenderThread`, `CanEncode` and `Encode_Video_Frame`; `game` is the place of the game
thread in `CreatFrameGetter`, `WarmUp`, `StartCapture` and `EndCaptureInternal`, which are cut wherever the render
thread could see the difference: `bIsRecording` is set before the counters, the muxer is deleted before the
grabber is shut down, `CurrentImplements` is cleared last. Of the muxer the session only knows how many images
were fed and how many frames are written. A tick is a step; whether a frame is due is a free choice.

## 3. The runs

| run | expect | what it asks |
|---|---|---|
| `packet_queue` | pass | counters, serials, leaks, idle when re-initialised, Abort completes, implements `PacketStream` |
| `frame_queue` | pass | the ring under a polling and under a blocking reader: indices and count agree, the held frame, no lost wake-up, Abort; implements `FrameBuffer` |
| `frame_queue_reselect` | violation | `PeekReadable` hands out a slot of an empty ring |
| `video_pipeline` | pass | order, generations, the end of playback (the last picture shown, or with the display thread), every seek gets to the screen |
| `video_pipeline_accurate` | violation | a frame of before the flush uses up the exact-seek flag |
| `playback` | pass | the two states of the player agree, the end comes when all is played, the reader reads ahead no more than it should, sound stays with the picture, nothing waits for ever |
| `tracks_lifecycle` | pass | input not closed under its users, queues replaced when idle, Close returns, the next media is read |
| `muxer` | pass | order of the file, images beside the sound, no sleep through a write, the audio codec flushed, stop returns; implements `MediaFile` |
| `recording` | pass | capturing never dies out for want of a request; an end that is asked for comes |
| `recording_shutdown` | violation | `Shutdown` of the grabber returns under a callback that is still running |
| `tracks_reopen` | violation | the display thread of the old media lives on beside the new one |
| `tracks_open_twice` | violation | a second Open during the first: two media are read at once |

### Bounds, and why they are enough

- `packet_queue`: two packets of different size and duration and the empty one, at most 3
  entries, `serial` up to 5. Two payloads tell order and sums apart; five serials allow a start, a
  seek, an abort, a restart and a re-initialisation in one behaviour.
- `frame_queue`: 3 slots (the code's `VIDEO_PICTURE_QUEUE_SIZE`), two frame
  values; `Init` chooses the kind of reader; 3 starts of the decoder under a polling one, 1 under a
  blocking one (`MCMaxStarts`, see below). The indices wrap
  several times in a behaviour.
- `video_pipeline`: frames 0..2, one key frame, a codec that holds one frame back, a queue that is
  full with two packets, one seek (`MaxSerial = 2`) to frame 1 or 2. Every thread can be a whole
  generation behind when the seek comes; the end of the file is reached before and after it.
- `playback`: a film of two pictures and two sounds, of which the sound begins with the second picture and
  goes on after it (so that the gap and the end zone both decide), a gap of 1 and an end zone of 3; a queue
  with one packet is enough for itself (`MIN_FRAMES = 0`) and three are enough for both (`MAX_QUEUE_SIZE =
  2`), so the reader stops while it has much to read; two pictures and one sound fit the frame queues, one
  sample waits for the engine; two calls of the user at any moment, which may be a seek to the second picture,
  during playback, at its end, or after it. The target has a picture after it: a seek behind the last picture
  would leave the sound waiting for one for ever (see below). The film is a `SteadyFilm` (no gap in the sound,
  pictures in order), which is what the theorem about `LipSync` supposes; `SteadyFilmIsPlayed` has TLC confirm it.
- `tracks_lifecycle`: a video and an audio stream, three media; the third is opened by an object
  that has been through everything twice.

- `muxer`: three images of 3 time units and two sound buffers of 2, so that neither duration is a multiple
  of the other and each stream is ahead of the other at some time; a codec that holds one frame back; both
  kinds of protocol; `stop()` at any moment. `wait_end` is FALSE, as in both calls of the repository.

- `recording`: two surfaces (a ring that is reused), latency 0 and 1, two recordings of which the second may
  follow a grabber that is stopped, half stopped or restarted by `WarmUp`; three frames asked for, one skipped at the
  start, two at the end, a request served one frame early (`EndMargin`, 10 in the code), a time-out after two
  ticks (10 s). `MaxIndex` stops the frames once enough were counted, which is also how the time-out comes.
  `recording_shutdown` has the code's three surfaces and its default latency.

### Fairness

A thread the operating system runs has weak fairness on its own steps; nothing else has any. No packet, call,
seek or frame is owed: the environment may stop at any time. In `FrameQueue` the reader is held only to
`PeekReadable`, since the user may pause; in `TracksLifecycle` a rendering thread owes nothing, so `Close`
returns even if one never moves again. `VideoPipeline` holds the display thread to its loop, which
`DisplayThread` does as long as it runs. `Playback` has weak fairness for the steps of each thread, for the
return of a call that was made and for the engine's fetching of samples; `AddAudio` and `AddVideo` wait for
`CriticalSection`, which the game thread takes again and again, and get it in the end (strong fairness), since
every holder lets it go after a few assignments. No call is owed. In `Muxer` the two encode threads run and a
`stop()` that was called goes on; nobody has to feed or to call it. In `RecordingSession` the engine ticks and
a `StartCapture` goes on to its end; the render thread owes no frame (the window may be hidden), nor does
`Shutdown` have to return.

### What the violations show

1. `PeekReadable` reads `abort_request` twice, the second time without the mutex
   (`FFmpegFrameQueue.cpp:118`). Deselecting the audio track wakes it, selecting the track again clears
   the flag before the second read, and a slot of an empty ring is returned and consumed by `Next`.
   All properties of the ring with a blocking reader are therefore stated for one start
   (`MCMaxStarts`, and `OneStart` in the proofs).
2. `video_thread` compares a frame with the target of an exact seek without its serial
   (`FFmpegMediaTracks.cpp:1806-1813`): a frame that was being decoded when the queue was flushed clears
   the flag, and the frames from the key frame to the target are shown.
3. `Shutdown` waits for the rendering threads only if `videoq.size > 0`
   (`FFmpegMediaTracks.cpp:302`), just after the queue was flushed with its stream. A display thread that is asleep while the
   next media is opened finds `displayRunning` set again.
4. `Close` does nothing in state `Closed` (`FFmpegMediaPlayer.cpp:273`), which includes the time the task of
   an `Open` takes to get to `Preparing`.

5. `FCustomFrameGrabber::Shutdown` waits for the surfaces that have an event (`CustomFrameGrabber.cpp:317`). A
   callback between its own wait and `Initialize` holds a surface without one, so `Shutdown` returns, and the
   render thread still reads back and delivers the frame. Its comment promises the opposite
   (`CustomFrameGrabber.h:154`).

What the model of playback shows beside this, without a document that says otherwise: a `SetRate(1)` that
falls between the two writes of the end of the playback leaves the player in state Playing with its threads
paused, or Stopped with its threads running (`InStep` and `PlaysToTheEnd` leave that call out by
`overlapped`); a sound or a picture that was in the hands of its thread when a seek flushed the queues is
handed over after the seek, and moves `last_audio_pts` or `last_video_pts` back to where playback was
(`LipSync` leaves that out by `strayed`); a seek to a place without a picture behind it, outside the last half
second, stops the sound for good, because `last_video_pts` is 0 from then on.

What the session's model shows beside this, without a document that says otherwise: `Shutdown` and the callback
can wait for the same auto-reset event, and the loser waits for ever; with a latency other than 0 the first frame is
never called back, so that capturing ends after one frame and `Shutdown` never returns; a second recording gets no
frames unless `WarmUp` is called, since the grabber was shut down and `bHasWarmUp` stays set; the muxer can be
deleted between the test of `Muxer` and its use. `KeepsCapturing` is stated for latency 0 because of the second.

## 4. The proofs

`tlapm` checks every theorem to the last leaf; the constants are arbitrary within their assumptions.

**Induction.** The induction theorems of the library take an operator as a parameter, which the provers cannot
instantiate. `Least` gets the least number of a set from the library's first-order theorem that strict inclusion
of finite sets is well-founded; `UpTo` is induction over 0..n stated with a set (what contains 0 and, with i,
i + 1, contains all of them); `Sums`, `SumsExist` and `SumsAgree` are about running totals. What the models
compute with a recursive function can be proved with them.

**PacketQueueProofs** (from `PacketAssumption`). The inductive invariant `QInv` is `TypeOK`,
`CountsMatch`, `CurrentSerialOnly` and `IdleWhenClosed` together. None of the middle two is inductive
alone: `InitQueue` throws the fifo away and keeps the counters, and `Start` bumps the serial without
draining it; both are right only because the owner calls them when the queue is empty. `QueueIsStream`
proves that every step under `QInv` is a step of `PacketStream` or invisible to it; it rests on lemmas
about the payloads of a list of entries (`PayloadAppend`, `PayloadTail`). `QueueBytes` is `BytesMatch`: the sizes
and durations are sums over the fifo, and the lemmas that an entry put at one end or taken from the other changes
the sum by its own amount are proved by `Induction`.

`NoWakeupLost` and `JoinIsOneStep` are the part of `AbortCompletes` that is not about fairness. The first: a thread
asleep in `Get` whose event is not triggered finds an empty queue that is not aborted. The second: while the owner
joins it, the decoder thread has ended or may run, and its next step is its last. What TLC adds is only that a
thread that may run does. The invariant is `WakeInv` (`SleepsRightly`, `JoinIsSignalled`, `DecoderLives`): the
signal of `Abort` comes after the flag, and the event is never reset.

**FrameQueueProofs** (from `RingAssumption` and `OneStart`). The inductive invariant adds to
`RingConsistent` what each thread knows at each of its places (where the reader's slot is, that the
writer at `slot` found room, that the frame it holds is between `rindex` and `windex`); from it follow
`RingAgrees`, `RingHeld` and `RingSeparate` for every capacity of two or more. `OneStart`
(a blocking reader sees one start of the decoder) is there because of the first violation above.

`RingIsBuffer` proves the refinement: every step under `BufferInv` is a step of `FrameBuffer` or invisible to
it. The buffer is read off the ring by counting from `rindex` on, so the two halves of a push (index, then
count) and of `Next` have to be placed: one half is the step, the other is invisible (`BufferFill`,
`BufferPush`, `BufferNext`, `BufferStutters`). `Counted`, that there are never fewer frames than the kept one,
is needed beside `RingInv` (`BufferInv` is both); `RingFrames` says which slots hold the frames, `KeptPlace`
that the kept frame takes one of them.

`RingReadable` is the other side of the run `frame_queue_reselect`: under `OneStart` what that run finds cannot
happen. Who sleeps and who wakes needs no `OneStart`: `RingLosesNoWakeup` says that neither thread sleeps on a ring
it could go on with, and `JoinIsBounded` that from its signal on `FFmpegDecoder::Abort` waits for at most six steps
(`Left`, by the thread's place) of a decoder thread that is not asleep. The invariant `AwakeInv` adds that an abort
that is being joined has been signalled.

**VideoPipelineProofs** (from `PipelineAssumption`). `PipelineTypes` gives the types. `InOrder` looks at what
is in flight in the current generation only, and a seek makes all of it disappear; to prove it, `VOrder`
follows a frame all the way. `Serials` says that no serial anywhere is beyond that of the queue;
`DecoderOrder`, `QueueOrder` and `PictureOrder` say of the codec with the packet queue, of both with the frame
in the decoder's hands, and of all these with the picture queue and the picture displayed last, that what comes first is
smaller (`Earlier`) and that nothing in them is at or beyond the next packet to be read (`Passed`). Each step
moves a frame one place on. `FramesInOrder` follows, and, with `Handed`, `ScreenGoesForward`: the display thread
takes a picture out of the queue in one step and hands it to the engine in another, and `Displayed` is the picture
on the screen or, between the two, the one in its hands. For `EndIsTheEnd`, `VEnd` says
that a null packet is the last of its generation (`NullLast`), that a codec that drains has got it
(`NullDecoded`), and that a decoder that has finished the current generation has nothing left of it
(`AllDecoded`): then an empty picture queue really means the end. That a picture of the generation has been taken to be shown by
then is `VShown`: frames are dropped in four places (before the target of a seek, late before the queue, of an old
generation, late in the queue), and the last frame of the film passes them all unless another one has been taken. `Handed` adds that it is the last
that left the queue. No more can be said: the test for the end asks the picture queue and not the display thread
(`FFmpegMediaTracks.cpp:1384-1408` may come between `2229` and `2237`), so that playback can be declared ended
while the display thread still holds the last picture. After an exact seek to the last frame that is the only
picture of its generation.
The early drop is the delicate one, as it trusts a clock: `ClockSet` says that who set it is displayed or has
left a successor in the queue. Targets are frames of the film, so that the last one is never before the target.

`EndIsNotMissed` is the converse: while `eof` is set and no seek is being served, the one null packet is in the
queue, in the decoder's hands, or in the codec, or its generation is finished (`NullOnItsWay`), whatever seeks fail
or flush in between; and a codec that drains never sends its thread for another packet (`DrainsToTheEnd`). So a
decoder asleep on its empty queue has noted the end (`EndNoted`); that it gets there, and that the display thread
empties the picture queue after it, is what is left of `EndNoticed` for TLC.

**PlaybackProofs** (from `PlaybackAssumption`). `Typed` is `TypeOK` (in two parts, `Flags` and `Places`) with
what makes it inductive: the audio thread past its test of the samples has room (`Carrying`; nobody else adds
samples), and whoever is to hand a frame over holds one (`Holding`). `SInv` adds to `InStep` what holds
between the two writes of each writer, and that the two do not cross unless `overlapped` says so. `EInv` adds
for each stream that null packets are last, that they come when the file has been read, and that a stream that
is finished has nothing but them, so that what the read thread tested before the declaration still holds at
it.

`PlaybackLipSync` supposes a `SteadyFilm`. The gate is passed with the time of the sound *before*; that the one
handed over is `Gap` ahead at most needs that it begins no later than the other one ended, through packet queue,
frame queue and the thread's hands (`SoundLine`), that pictures only go forward, so that the gate does not close
again behind the thread (`PictureLine`, `GateHeld`), and all this through flushes, which cut either line at any
place and leave frames of before in a thread's hands. In a film with a hole in its sound the property is false, and
should be. `ReadAheadIsBounded` rests on `WithinLimit`: the limit is tested at the head of a turn of the read
thread and used several steps later, and the test still holds then because nobody else puts packets in.

**TracksLifecycleProofs** (from `LifecycleAssumption` and `LeftAlone`, which is `Patient`). `InputInUse`
says nothing of who is to be closed next, so the inductive invariant `LInv` says at every place of
`Shutdown` who is gone by then: `LReader` (the only read thread that can be alive is the one `read_tid`
names, and it is gone after the join), `LStreams` (no decoder thread runs once the input is closed, and none is
forgotten: `decoding` is `open_streams`), `LClosed`
(state Closed comes with everything being quiet, which is what the next Open relies on) and `LOpening` (an
Open runs alone, from what a Shutdown left). `LFrame` covers the steps that touch none of this, `LPool` the
two ways a task gets into the pool, and `LStep` has one step per action. From it follow `InputStaysOpen`
and `InitializeAlone`. Without `LeftAlone` neither holds: that is what the run `tracks_open_twice` shows of
`OneMediaRead`. `PlayerTypes` gives the types; that the counts of streams stay within what there is rests on
`LCounts`: `Reset` sets both to zero, and the count follows the set of selected tracks.
`OneMediaAtATime` is the other side of that run: with `LeftAlone`, one media at most is being read.

What `Shutdown` waits for first does not depend on who calls what when, so `ShutdownInv` does without `LeftAlone`.
`ReadThreadIsJoined`: at the join the read thread exists, has been told to end, and only comes nearer to its end.
`DestroyNeverRuns` needs `LeftAlone` again: the block that waits for the rendering threads and destroys the queues
is then dead code, since the queue whose size it tests has been flushed with the video stream
(`EmptyWithoutStream`). That is why no `Close` can hang on a rendering thread, and why `tracks_reopen` finds two.
When two Opens overlap, the second `Initialize` forgets the open streams of the first; `Shutdown` then does not
close them, finds packets in the queue, and does run the block, with decoder threads still alive: TLC finds this in
fourteen states with the constants of `tracks_open_twice` when it is asked for the invariant `~destroying`.

`SelectedMayBeRead` needs both invariants, with `ReaderIsThere`: once all tracks of an open media are selected its
read thread exists, is not told to end, and finds as many streams open as were counted.

**MuxerProofs** (from `MuxerAssumption`). `MTypes` adds to `TypeOK` what a thread holds at each place and which
places each thread has; it is inductive, and `ThreadKeepsTypes` covers what all steps of an encoder thread have
in common. `AudioFlushed` is inductive beside it. `InSync` is not: between the comparison and the count the video
thread may sleep, so `SInv` adds `SPassed`, that a thread past the comparison is still not ahead. The
multiplication by the durations is kept out of the solver's way by `NextTime`. For `FileSpec`, what is in the file
says nothing of what will be written, so `OInv` follows a frame all the way: in `Chain`, file, codec, hand and
queue of a stream, one after the other, are in the order of feeding. Each of `ChainFeed`, `ChainTake`,
`ChainSend`, `ChainDrop` and `ChainWrite` moves a frame one place on, and `ChainWrite` gives what `WriteFrame` of
`MediaFile` asks for. That nothing is written after the trailer is that both threads are done by then.

`NoSleepOnWork` says that no thread sleeps while its queue has a frame or has been told to end. `StopIsBounded`
goes on from there: once `stop()` has told everybody (`StopToldThem`), nobody sleeps or waits for sound, and
`StepsLeft` of a thread that sees its exit flag, counted by its place and by the packets its encoder holds back,
goes down with each of its steps. With these `StopReturns` is left with fairness only.

**RecordingProofs** (from `GrabberAssumption` and `SessionAssumption`). The invariant `RInv` has three parts.
`GInv` speaks of the grabber alone: its types, `Counted` (every frame asked for and not delivered is counted, without
which the decrement of `OutstandingFrameCount` could go below zero) and that `Shutdown` is at a surface there is.
`SFlags` and `SCounts` are the types of the session. `KeepsCapturing` is inductive beside them (`ChainStep`):
the game thread asks for a frame whenever it makes the grabber active, the render thread asks before it lets a frame
go, and without latency `ResolveRenderTarget` always has something to read back.

`LifeInv` is about the order of `StartCapture` and `EndCaptureInternal`: from it follow `MuxerOutlivesRecording` (a
recording in progress has its muxer) and `EachEndStopsItsMuxer` (no `Encode_Finish` finds that another one has been
there before, so every file gets its trailer).

**Only model-checked** are the properties that rest on fairness, which is out of the prover's reach:
`AbortCompletes` of both queues, `ReaderReleased`, `EndNoticed`, `SeekShows`, `CloseReturns`, `SelectedIsRead`,
`StopReturns`, `ImagesTaken`, `RequestServed` and `PlaysToTheEnd`. Every other property of a passing run is stated
by a theorem. For six of them the proofs go as far as they can without fairness: that the threads waited for are
awake and, for the joins, how many steps they have left (`JoinIsOneStep`, `JoinIsBounded`, `ReadThreadIsJoined`,
`StopIsBounded`), or that what is waited for has not been lost or may be done (`EndIsNotMissed`,
`SelectedMayBeRead`). Of `SeekShows`, `EndsAfterLastFrame` says that playback cannot end before a picture of the
generation was taken to be shown.

## 5. Not modelled, and why

The arithmetic of clocks and delays (floating point; the models let any frame be late); conversion of pictures
and samples; subtitles; hardware decoding; allocation failures inside FFmpeg; the media factory, the settings,
the sample classes, the pipe recorders (no state beyond their output). `FFmpegPacketQueue::Destroy` and
`FFmpegFrameQueue::Destory` are reached only when two Opens overlap (`DestroyNeverRuns`). In `VideoPipeline` the user seeks but does not
pause or loop, and the size limit on all queues together is left out: both are in `Playback`, which in turn
has no exact seeks and no serials. Neither has attached pictures or a file with a single stream beside the one
they follow. Nothing in the repository creates an `FEncoderThread` or an `FVideoStreamWmfRingBuffer`, so there
is no use to model them in; `FVideoStreamWmfMp4Writer` is only used by `UEEncoderWarpper`, which wraps the
engine's own encoder and has no threads of its own. The events for the engine (`DeferredEvents`) are left out:
three kinds of threads put into a queue made for one, and what that does is the engine's affair. In `Muxer`,
opening the file and setting the codecs up (sequential), who owns the samples of a sound buffer, and streams
that are disabled (`init_params` always enables both). In `RecordingSession`, the other implementations, a
viewport that is resized while recording (it makes a second grabber), a latency changed while capturing, the
audio listener, and `Capture_Video_Index++` taken as one step. Adding and removing the callback while it is
being called, which the engine's delegate does not guard, is taken as atomic.

## 6. Plan

Done: the two queues with their promises and proofs, both refinements proved; the video pipeline with its
order and its end proved; playback of sound and picture with pause, seek and loop, its lip sync proved; the life
cycle; the muxer and its promise; the recording session with its frame grabber; and for each thread that is waited
for with a join, a proof that the wait is bounded.

What is left, in this order:

1. `RecordingSession` extended: the resized viewport, the audio listener, composition with the promise of the muxer.
2. `Playback` extended: a deselected stream, attached pictures, seeks behind the last picture, so that what
   stalls the sound becomes a property of its own.
3. Proofs: the ranks of the joins put together to one for `Close`; that a frame that asks for the next one does so
   within a bounded number of steps of the render thread (what `KeepsCapturing` leaves open); that in `Playback`
   sound, picture, reader and decoders never all wait for each other (the core of `PlaysToTheEnd`).
4. `FFmpegClock`: the serial that makes a clock obsolete and the choice of the master, with times as integers.
