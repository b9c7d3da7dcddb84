------------------------- MODULE RecordingSession -------------------------
(***************************************************************************)
(* UVideoStreamSubsystem recording with the AVMuxer implementation         *)
(* (WarpperType = FFmpeg, UAVMuxerWarpper): the game thread creates the    *)
(* frame grabber, starts and ends recordings and watches over them in      *)
(* AddTickTime; the render thread delivers the frames and asks for the     *)
(* next one from inside the delivery of the last.  The two threads share   *)
(* every variable without a lock.  StartCapture and EndCaptureInternal     *)
(* are therefore split where the render thread can see a difference.       *)
(*                                                                         *)
(* Of the muxer only the number of images fed and of frames written is     *)
(* kept, see Muxer and MediaFile for the rest; whether a frame is due      *)
(* (Ticktime) is a free choice, as is whether the muxer can be opened.     *)
(***************************************************************************)
EXTENDS FrameGrabber

CONSTANTS
    TotalFrames,    \* the TotalFrameNum asked for
    EndMargin,      \* frames before the end at which a request is served; 10 in the code
    SkipFirst,      \* frames skipped at the start; 3 in the code, 4 in 4K
    SkipLast,       \* frames skipped at the end; 2 in the code
    TimeOut,        \* ticks without a new frame that end a recording; 10 s in the code
    MaxIndex,       \* bound: frames counted in a recording
    MaxRecordings   \* bound: recordings started

ASSUME SessionAssumption ==
    /\ TotalFrames \in Nat /\ EndMargin \in Nat
    /\ SkipFirst \in Nat /\ SkipLast \in Nat
    /\ TimeOut \in Nat /\ MaxIndex \in Nat /\ MaxRecordings \in Nat

VARIABLES
    bIsRecording, bShouldEnd, bHasWarmUp,
    CurrentImplements,      \* it is not null
    TotalFrameNum,
    Capture_Video_Index,    \* frames counted, the skipped ones included
    LastFrameNum, LastTickTime,
    video_index,            \* frames passed to the muxer
    fed,                    \* images the muxer was fed
    frame_num,              \* frames it has written
    Muxer, bIsDestory,      \* Muxer is not null; it must not be used
    game,                   \* what the game thread is doing
    starting,               \* it starts the grabber on behalf of StartCapture
    recordings              \* recordings started

flags   == <<bIsRecording, bShouldEnd, bHasWarmUp, CurrentImplements, TotalFrameNum>>
counts  == <<Capture_Video_Index, video_index, fed, frame_num>>
watch   == <<LastFrameNum, LastTickTime>>
encoder == <<Muxer, bIsDestory>>
control == <<game, starting, recordings>>
vars    == <<grabber, flags, counts, watch, encoder, control>>

GameStates == {"idle", "start", "capture", "init", "recording", "count", "total",
               "finish", "stop", "stopping", "shutdown", "clear"}

\* The game instance starts: CreatFrameGetter has made a grabber and is about to
\* start it.
Init ==
    /\ GrabberInit
    /\ bIsRecording = FALSE /\ bShouldEnd = FALSE /\ bHasWarmUp = FALSE
    /\ CurrentImplements = FALSE /\ TotalFrameNum = 0
    /\ Capture_Video_Index = 0 /\ video_index = 0 /\ fed = 0 /\ frame_num = 0
    /\ LastFrameNum = 0 /\ LastTickTime = 0
    /\ Muxer = FALSE /\ bIsDestory = TRUE
    /\ game = "start" /\ starting = FALSE /\ recordings = 0

\* The step of the game thread from one place to another.
Game(from, to) == game = from /\ game' = to

(***************************************************************************)
(* The game thread: StartCapturingFrames and CaptureThisFrame, as in       *)
(* CreatFrameGetter and in WarmUp.                                         *)
(***************************************************************************)
StartGrabber ==
    /\ Game("start", "capture")
    /\ StartCapturingFrames
    /\ UNCHANGED <<flags, counts, watch, encoder, starting, recordings>>

FirstFrame ==
    /\ Game("capture", IF starting THEN "init" ELSE "idle")
    /\ CaptureThisFrame
    /\ bHasWarmUp' = (bHasWarmUp \/ starting)
    /\ UNCHANGED <<bIsRecording, bShouldEnd, CurrentImplements, TotalFrameNum, counts, watch,
                   encoder, starting, recordings>>

\* WarmUp, called by the user.  What it starts it also marks as warmed up;
\* bHasWarmUp is set here since only StartCapture, on this thread, reads it.
WarmUp ==
    /\ Game("idle", IF IsCapturingFrames THEN "idle" ELSE "start")
    /\ bHasWarmUp' = TRUE
    /\ starting' = FALSE
    /\ UNCHANGED <<grabber, bIsRecording, bShouldEnd, CurrentImplements, TotalFrameNum,
                   counts, watch, encoder, recordings>>

(***************************************************************************)
(* StartCapture: it does nothing during a recording, warms up the first    *)
(* time only, opens the muxer, and sets bIsRecording before the counters.  *)
(***************************************************************************)
StartCapture ==
    /\ Game("idle", IF bHasWarmUp \/ IsCapturingFrames THEN "init" ELSE "start")
    /\ ~bIsRecording
    /\ recordings < MaxRecordings
    /\ recordings' = recordings + 1
    /\ starting' = TRUE
    /\ bHasWarmUp' = (bHasWarmUp \/ IsCapturingFrames)
    /\ UNCHANGED <<grabber, bIsRecording, bShouldEnd, CurrentImplements, TotalFrameNum,
                   counts, watch, encoder>>

InitFails ==
    /\ Game("init", "idle")
    /\ Muxer' = TRUE
    /\ fed' = 0 /\ frame_num' = 0
    /\ UNCHANGED <<grabber, flags, Capture_Video_Index, video_index, watch, bIsDestory,
                   starting, recordings>>

InitImplements ==
    /\ Game("init", "recording")
    /\ Muxer' = TRUE /\ bIsDestory' = FALSE
    /\ video_index' = 0 /\ fed' = 0 /\ frame_num' = 0
    /\ CurrentImplements' = TRUE
    /\ UNCHANGED <<grabber, bIsRecording, bShouldEnd, bHasWarmUp, TotalFrameNum,
                   Capture_Video_Index, watch, starting, recordings>>

RecordingOn ==
    /\ Game("recording", "count")
    /\ bIsRecording' = TRUE
    /\ UNCHANGED <<grabber, bShouldEnd, bHasWarmUp, CurrentImplements, TotalFrameNum,
                   counts, watch, encoder, starting, recordings>>

ResetIndex ==
    /\ Game("count", "total")
    /\ Capture_Video_Index' = 0
    /\ UNCHANGED <<grabber, flags, video_index, fed, frame_num, watch, encoder,
                   starting, recordings>>

SetTotal ==
    /\ Game("total", "idle")
    /\ TotalFrameNum' = TotalFrames
    /\ UNCHANGED <<grabber, bIsRecording, bShouldEnd, bHasWarmUp, CurrentImplements,
                   counts, watch, encoder, starting, recordings>>

Starting == StartGrabber \/ FirstFrame \/ InitFails \/ InitImplements \/ RecordingOn
            \/ ResetIndex \/ SetTotal

\* EndCapture only asks for the end.
EndCapture ==
    /\ Game("idle", "idle")
    /\ bShouldEnd' = TRUE
    /\ UNCHANGED <<grabber, bIsRecording, bHasWarmUp, CurrentImplements, TotalFrameNum,
                   counts, watch, encoder, starting, recordings>>

(***************************************************************************)
(* AddTickTime, and EndCaptureInternal from its first assignment on.       *)
(***************************************************************************)
EndDue == bShouldEnd /\ frame_num >= TotalFrameNum - EndMargin

EndsRecording == bIsRecording' = FALSE /\ bShouldEnd' = FALSE

TickEnds ==
    /\ Game("idle", "finish")
    /\ CurrentImplements
    /\ EndDue
    /\ EndsRecording
    /\ UNCHANGED <<grabber, bHasWarmUp, CurrentImplements, TotalFrameNum, counts, watch,
                   encoder, starting, recordings>>

TickTimesOut ==
    /\ Game("idle", "finish")
    /\ CurrentImplements /\ ~EndDue
    /\ LastFrameNum = frame_num
    /\ LastTickTime >= TimeOut
    /\ LastTickTime' = LastTickTime + 1
    /\ EndsRecording
    /\ UNCHANGED <<grabber, bHasWarmUp, CurrentImplements, TotalFrameNum, counts,
                   LastFrameNum, encoder, starting, recordings>>

TickWaits ==
    /\ Game("idle", "idle")
    /\ CurrentImplements /\ ~EndDue
    /\ LastFrameNum = frame_num
    /\ LastTickTime < TimeOut
    /\ LastTickTime' = LastTickTime + 1
    /\ UNCHANGED <<grabber, flags, counts, LastFrameNum, encoder, starting, recordings>>

\* Mutant: the number of the last frame is not remembered.
TickForgets ==
    /\ Game("idle", "idle")
    /\ CurrentImplements /\ ~EndDue
    /\ LastFrameNum # frame_num
    /\ LastTickTime' = 0
    /\ UNCHANGED <<grabber, flags, counts, LastFrameNum, encoder, starting, recordings>>

TickMoves ==
    /\ Game("idle", "idle")
    /\ CurrentImplements /\ ~EndDue
    /\ LastFrameNum # frame_num
    /\ LastFrameNum' = frame_num /\ LastTickTime' = 0
    /\ UNCHANGED <<grabber, flags, counts, encoder, starting, recordings>>

AddTickTime == TickEnds \/ TickTimesOut \/ TickWaits \/ TickMoves

\* Encode_Finish marks the implementation destroyed ...
EncodeFinish ==
    /\ Game("finish", IF bIsDestory THEN "stopping" ELSE "stop")
    /\ bIsDestory' = TRUE
    /\ UNCHANGED <<grabber, flags, counts, watch, Muxer, starting, recordings>>

\* ... stops the muxer and deletes it.
DeleteMuxer ==
    /\ Game("stop", "stopping")
    /\ Muxer' = FALSE
    /\ fed' = 0 /\ frame_num' = 0
    /\ UNCHANGED <<grabber, flags, Capture_Video_Index, video_index, watch, bIsDestory,
                   starting, recordings>>

\* Then the grabber is stopped and shut down, if it is capturing.
StopGrabber ==
    /\ Game("stopping", IF IsCapturingFrames THEN "shutdown" ELSE "clear")
    /\ StopCapturingFrames
    /\ UNCHANGED <<flags, counts, watch, encoder, starting, recordings>>

Shutdown ==
    /\ Game("shutdown", "shutdown")
    /\ State = "PendingShutdown" /\ ShutdownBegins
    /\ UNCHANGED <<flags, counts, watch, encoder, starting, recordings>>

ShutdownRuns ==
    /\ Game("shutdown", "shutdown")
    /\ ShuttingDown
    /\ UNCHANGED <<flags, counts, watch, encoder, starting, recordings>>

ShutdownReturns ==
    /\ Game("shutdown", "clear")
    /\ ShutdownEnds
    /\ UNCHANGED <<flags, counts, watch, encoder, starting, recordings>>

ClearImplements ==
    /\ Game("clear", "idle")
    /\ CurrentImplements' = FALSE
    /\ UNCHANGED <<grabber, bIsRecording, bShouldEnd, bHasWarmUp, TotalFrameNum, counts,
                   watch, encoder, starting, recordings>>

Ending == EncodeFinish \/ DeleteMuxer \/ StopGrabber \/ Shutdown \/ ShutdownRuns
          \/ ShutdownReturns \/ ClearImplements

(***************************************************************************)
(* The render thread inside UVideoStreamSubsystemWarpper.                  *)
(***************************************************************************)
Render(from, to) == render = from /\ render' = to

Grab ==
    /\ Grabbing
    /\ render = "idle" => Capture_Video_Index < MaxIndex
    /\ UNCHANGED <<flags, counts, watch, encoder, control>>

\* Mutant: the next frame is asked for only while recording.
RearmIfRecording ==
    /\ Render("callback", IF IsCapturingFrames /\ bIsRecording THEN "rearm" ELSE "record")
    /\ UNCHANGED <<State, bound, requests, surfaces, shutting, flags, counts, watch,
                   encoder, control>>

\* The next frame is asked for if the grabber is capturing, recording or not ...
RearmTest ==
    /\ Render("callback", IF IsCapturingFrames THEN "rearm" ELSE "record")
    /\ UNCHANGED <<State, bound, requests, surfaces, shutting, flags, counts, watch,
                   encoder, control>>

Rearm ==
    /\ Render("rearm", "record")
    /\ CaptureInCallback
    /\ UNCHANGED <<flags, counts, watch, encoder, control>>

\* ... and this one is used if the subsystem is recording.
RecordingTest ==
    /\ Render("record", IF CurrentImplements /\ bIsRecording THEN "can" ELSE "handled")
    /\ UNCHANGED <<State, bound, requests, surfaces, shutting, flags, counts, watch,
                   encoder, control>>

\* CanEncode: the frame is due and the recording still on ...
CanEncodeTest ==
    /\ \/ Render("can", "handled")
       \/ bIsRecording /\ Render("can", "count")
    /\ UNCHANGED <<State, bound, requests, surfaces, shutting, flags, counts, watch,
                   encoder, control>>

Skipped ==
    \/ Capture_Video_Index < SkipFirst
    \/ /\ Capture_Video_Index >= TotalFrameNum - SkipLast
       /\ video_index >= TotalFrameNum - SkipLast
       /\ bShouldEnd

\* ... it is counted, and skipped at the start and at the end.
CanEncodeCount ==
    /\ Render("count", IF Skipped THEN "handled" ELSE "encode")
    /\ Capture_Video_Index' = Capture_Video_Index + 1
    /\ UNCHANGED <<State, bound, requests, surfaces, shutting, flags, video_index, fed,
                   frame_num, watch, encoder, control>>

EncodeTest ==
    /\ \/ /\ CurrentImplements /\ Muxer /\ ~bIsDestory
          /\ Render("encode", "feed")
          /\ video_index' = video_index + 1
       \/ /\ ~(CurrentImplements /\ Muxer /\ ~bIsDestory)
          /\ Render("encode", "handled")
          /\ UNCHANGED video_index
    /\ UNCHANGED <<State, bound, requests, surfaces, shutting, flags, Capture_Video_Index,
                   fed, frame_num, watch, encoder, control>>

\* feed_image; of a muxer deleted meanwhile nothing is said.
FeedImage ==
    /\ Render("feed", "handled")
    /\ fed' = IF Muxer THEN fed + 1 ELSE fed
    /\ UNCHANGED <<State, bound, requests, surfaces, shutting, flags, Capture_Video_Index,
                   video_index, frame_num, watch, encoder, control>>

Delivering == \/ RearmTest \/ Rearm \/ RecordingTest \/ CanEncodeTest \/ CanEncodeCount
              \/ EncodeTest \/ FeedImage

\* The muxer's video thread writes a frame it was fed.
FrameWritten ==
    /\ Muxer
    /\ frame_num < fed
    /\ frame_num' = frame_num + 1
    /\ UNCHANGED <<grabber, flags, Capture_Video_Index, video_index, fed, watch, encoder,
                   control>>

Next == \/ WarmUp \/ StartCapture \/ Starting \/ EndCapture \/ AddTickTime \/ Ending
        \/ Grab \/ Delivering \/ FrameWritten

\* The engine ticks, and a call the game thread is in goes on.  No frame is
\* owed: the window may be hidden.
Spec ==
    /\ Init /\ [][Next]_vars
    /\ WF_vars(AddTickTime)
    /\ WF_vars(Starting)

-----------------------------------------------------------------------------
(***************************************************************************)
(* Properties.                                                             *)
(***************************************************************************)

\* The types of the variables.
TypeOK ==
    /\ GrabberTypeOK
    /\ bIsRecording \in BOOLEAN /\ bShouldEnd \in BOOLEAN /\ bHasWarmUp \in BOOLEAN
    /\ CurrentImplements \in BOOLEAN /\ Muxer \in BOOLEAN /\ bIsDestory \in BOOLEAN
    /\ starting \in BOOLEAN
    /\ TotalFrameNum \in Nat /\ Capture_Video_Index \in Nat /\ video_index \in Nat
    /\ fed \in Nat /\ frame_num \in 0..fed
    /\ LastFrameNum \in Nat /\ LastTickTime \in Nat /\ recordings \in Nat
    /\ game \in GameStates

\* A frame is on its way that will ask for the next one.
FrameOnItsWay == commands + payloads > 0 \/ render \in InGrabber \cup {"callback", "rearm"}

\* Without latency, capturing never dies out: each frame asks for the next one
\* before it is used, through ends and restarts of the grabber at any moment,
\* and nothing else would ask again (OnFrameReady_RenderThread).
KeepsCapturing ==
    FrameGrabLatency = 0 /\ IsCapturingFrames /\ game # "capture" => FrameOnItsWay

\* A recording whose end is asked for ends, at its last frames or, if no frame
\* comes any more, by the time-out (AddTickTime).
RequestServed == bShouldEnd /\ bIsRecording ~> ~bIsRecording

\* "Shut down this grabber, ensuring that any threaded operations are finished"
\* (CustomFrameGrabber.h, Shutdown): when it returns, the render thread is not
\* in the callback.
ShutdownFinishes == [][ShutdownReturns => render = "idle"]_vars
=============================================================================
