------------------------- MODULE RecordingProofs -------------------------
(***************************************************************************)
(* Theorems about RecordingSession and its FrameGrabber, for every number  *)
(* of surfaces, latency, margin and bound.                                 *)
(***************************************************************************)
EXTENDS RecordingSession, TLAPS

(***************************************************************************)
(* The inductive invariant, in two parts: GInv speaks of the grabber only, *)
(* SInv of the session only.                                               *)
(***************************************************************************)
\* A frame was taken from the payloads and is not counted off yet.
InHand == render \in InGrabber \cup InCallback \cup {"handled"}

\* Every frame asked for and not delivered is counted, so that the count never
\* drops below zero.
Counted == OutstandingFrameCount >= commands + payloads + (IF InHand THEN 1 ELSE 0)

\* Shutdown waits for a surface there is.
WaitsForSurface == shutter \in {"wait", "lost"} => shut \in Surfaces

GInv == GrabberTypeOK /\ Counted /\ WaitsForSurface

SFlags ==
    /\ bIsRecording \in BOOLEAN /\ bShouldEnd \in BOOLEAN /\ bHasWarmUp \in BOOLEAN
    /\ CurrentImplements \in BOOLEAN /\ Muxer \in BOOLEAN /\ bIsDestory \in BOOLEAN
    /\ starting \in BOOLEAN

SCounts ==
    /\ TotalFrameNum \in Nat /\ Capture_Video_Index \in Nat /\ video_index \in Nat
    /\ fed \in Nat /\ frame_num \in 0..fed
    /\ LastFrameNum \in Nat /\ LastTickTime \in Nat /\ recordings \in Nat
    /\ game \in GameStates

SInv == SFlags /\ SCounts

RInv == GInv /\ SInv /\ KeepsCapturing

-----------------------------------------------------------------------------
\* Indices taken modulo the number of surfaces are surfaces.
LEMMA ModIsSurface ==
    ASSUME NEW i \in Int
    PROVE  i % NumSurfaces \in Surfaces
  BY GrabberAssumption DEF Surfaces

LEMMA RInit == Init => RInv
  <1> SUFFICES ASSUME Init
               PROVE  RInv
    OBVIOUS
  <1> USE GrabberAssumption DEF Init, GrabberInit
  <1>1. GInv
    <2>1. 0 \in Surfaces
      BY DEF Surfaces
    <2>2. bound \in BOOLEAN
      OBVIOUS
    <2> QED
      BY <2>1, <2>2 DEF GInv, GrabberTypeOK, Counted, WaitsForSurface, InHand, InGrabber,
            InCallback, RenderStates
  <1>2. SInv
    <2>1. /\ bIsRecording \in BOOLEAN /\ bShouldEnd \in BOOLEAN /\ bHasWarmUp \in BOOLEAN
          /\ CurrentImplements \in BOOLEAN /\ Muxer \in BOOLEAN /\ bIsDestory \in BOOLEAN
          /\ starting \in BOOLEAN
      OBVIOUS
    <2> QED
      BY <2>1 DEF SInv, SFlags, SCounts, GameStates
  <1>3. KeepsCapturing
    BY DEF KeepsCapturing, IsCapturingFrames
  <1> QED
    BY <1>1, <1>2, <1>3 DEF RInv

-----------------------------------------------------------------------------
(***************************************************************************)
(* The grabber's part.                                                     *)
(***************************************************************************)
LEMMA GrabberRests == ASSUME GInv, UNCHANGED grabber PROVE GInv'
  BY DEF GInv, grabber, requests, surfaces, shutting, GrabberTypeOK, Counted,
         WaitsForSurface, InHand

\* The operations of the game thread.
LEMMA GrabberGame ==
    ASSUME GInv,
           \/ StartCapturingFrames \/ CaptureThisFrame \/ StopCapturingFrames
           \/ ShutdownBegins \/ ShuttingDown \/ ShutdownEnds
    PROVE  GInv'
  <1> USE GrabberAssumption DEF GInv, requests, surfaces, shutting, GrabberTypeOK, Counted,
        WaitsForSurface, InHand, Surfaces
  <1>1. CASE StartCapturingFrames
    BY <1>1 DEF StartCapturingFrames
  <1>2. CASE CaptureThisFrame
    BY <1>2 DEF CaptureThisFrame
  <1>3. CASE StopCapturingFrames
    BY <1>3 DEF StopCapturingFrames
  <1>4. CASE ShutdownBegins
    BY <1>4 DEF ShutdownBegins
  <1>5. CASE ShutdownTests
    BY <1>5 DEF ShutdownTests
  <1>6. CASE ShutdownWaits
    BY <1>6 DEF ShutdownWaits
  <1>7. CASE ShutdownEnds
    BY <1>7 DEF ShutdownEnds
  <1> QED
    BY <1>1, <1>2, <1>3, <1>4, <1>5, <1>6, <1>7 DEF ShuttingDown

\* The callback.
LEMMA GrabberRender ==
    ASSUME GInv, Grabbing
    PROVE  GInv'
  <1> USE GrabberAssumption DEF GInv, requests, surfaces, shutting, GrabberTypeOK, Counted,
        WaitsForSurface, InHand, RenderStates, InGrabber, InCallback
  <1>0. NextFrameIndex \in Surfaces /\ PrevCaptureIndex \in Surfaces
    <2>1. CurrentFrameIndex \in Int /\ FrameGrabLatency \in Int
      BY DEF Surfaces
    <2>2. PrevCaptureIndexOffset \in Int
      BY <2>1 DEF PrevCaptureIndexOffset
    <2>3. /\ CurrentFrameIndex + 1 \in Int
          /\ CurrentFrameIndex - PrevCaptureIndexOffset + NumSurfaces \in Int
      BY <2>1, <2>2
    <2> QED
      BY <2>3, ModIsSurface DEF NextFrameIndex, PrevCaptureIndex
  <1>1. CASE AppendFramePayload
    BY <1>1 DEF AppendFramePayload
  <1>2. CASE BackBufferReady
    BY <1>2 DEF BackBufferReady
  <1>3. CASE SurfaceTests
    BY <1>3 DEF SurfaceTests
  <1>4. CASE SurfaceWaits
    BY <1>4 DEF SurfaceWaits
  <1>5. CASE SurfaceInitialize
    BY <1>5 DEF SurfaceInitialize
  <1>6. CASE ResolveRenderTarget
    BY <1>0, <1>6 DEF ResolveRenderTarget
  <1>7. CASE FrameHandled
    BY <1>7 DEF FrameHandled
  <1>8. CASE ReleaseSurface
    BY <1>0, <1>8 DEF ReleaseSurface
  <1> QED
    BY <1>1, <1>2, <1>3, <1>4, <1>5, <1>6, <1>7, <1>8 DEF Grabbing

\* The payload's part, by what it does to the grabber.
LEMMA GrabberPayload ==
    ASSUME GInv, Delivering
    PROVE  GInv'
  <1> USE GrabberAssumption DEF GInv, requests, surfaces, shutting, GrabberTypeOK, Counted,
        WaitsForSurface, InHand, RenderStates, InGrabber, InCallback, Render
  <1>1. CASE Rearm
    BY <1>1 DEF Rearm, CaptureInCallback
  <1>2. CASE \/ RearmTest \/ RecordingTest \/ CanEncodeTest \/ CanEncodeCount
             \/ EncodeTest \/ FeedImage
    <2>1. /\ render \in InCallback /\ render' \in InCallback \cup {"handled"}
          /\ UNCHANGED <<State, bound, requests, surfaces, shutting>>
      BY <1>2 DEF RearmTest, RecordingTest, CanEncodeTest, CanEncodeCount, EncodeTest, FeedImage
    <2> QED
      BY <2>1
  <1> QED
    BY <1>1, <1>2 DEF Delivering

-----------------------------------------------------------------------------
(***************************************************************************)
(* The session's part.                                                     *)
(***************************************************************************)
LEMMA FlagsStep ==
    ASSUME SFlags, [Next]_vars
    PROVE  SFlags'
  <1> USE DEF SFlags
  <1>1. CASE WarmUp
    BY <1>1, Zenon DEF WarmUp, encoder
  <1>2. CASE StartCapture
    BY <1>2, Zenon DEF StartCapture, encoder
  <1>3. CASE FirstFrame
    BY <1>3, Zenon DEF FirstFrame, encoder
  <1>4. CASE InitFails
    BY <1>4, Zenon DEF InitFails, flags
  <1>5. CASE InitImplements
    BY <1>5, Zenon DEF InitImplements
  <1>6. CASE RecordingOn
    BY <1>6, Zenon DEF RecordingOn, encoder
  <1>7. CASE SetTotal
    BY <1>7, Zenon DEF SetTotal, encoder
  <1>8. CASE EndCapture
    BY <1>8, Zenon DEF EndCapture, encoder
  <1>9. CASE TickEnds
    BY <1>9, Zenon DEF TickEnds, EndsRecording, encoder
  <1>10. CASE TickTimesOut
    BY <1>10, Zenon DEF TickTimesOut, EndsRecording, encoder
  <1>11. CASE EncodeFinish
    BY <1>11, Zenon DEF EncodeFinish, flags
  <1>12. CASE DeleteMuxer
    BY <1>12, Zenon DEF DeleteMuxer, flags
  <1>13. CASE ClearImplements
    BY <1>13, Zenon DEF ClearImplements, encoder
  <1>14. CASE \/ StartGrabber \/ ResetIndex \/ TickWaits \/ TickMoves \/ StopGrabber
              \/ Shutdown \/ ShutdownRuns \/ ShutdownReturns \/ Grab \/ Delivering
              \/ FrameWritten \/ UNCHANGED vars
    <2>1. UNCHANGED <<flags, encoder, starting>>
      BY <1>14 DEF StartGrabber, ResetIndex, TickWaits, TickMoves, StopGrabber, Shutdown,
            ShutdownRuns, ShutdownReturns, Grab, Delivering, RearmTest, Rearm, RecordingTest,
            CanEncodeTest, CanEncodeCount, EncodeTest, FeedImage, FrameWritten, vars, control
    <2> QED
      BY <2>1 DEF flags, encoder
  <1> QED
    BY <1>1, <1>2, <1>3, <1>4, <1>5, <1>6, <1>7, <1>8, <1>9, <1>10, <1>11, <1>12, <1>13,
       <1>14
       DEF Next, Starting, AddTickTime, Ending

LEMMA CountsStep ==
    ASSUME SCounts, [Next]_vars
    PROVE  SCounts'
  <1> USE SessionAssumption DEF SCounts, GameStates, flags, counts, watch, encoder, control, Game
  <1>1. CASE WarmUp
    BY <1>1 DEF WarmUp
  <1>2. CASE StartCapture
    BY <1>2 DEF StartCapture
  <1>3. CASE StartGrabber
    BY <1>3 DEF StartGrabber
  <1>4. CASE FirstFrame
    BY <1>4 DEF FirstFrame
  <1>5. CASE InitFails
    BY <1>5 DEF InitFails
  <1>6. CASE InitImplements
    BY <1>6 DEF InitImplements
  <1>7. CASE RecordingOn
    BY <1>7 DEF RecordingOn
  <1>8. CASE ResetIndex
    BY <1>8 DEF ResetIndex
  <1>9. CASE SetTotal
    BY <1>9 DEF SetTotal
  <1>10. CASE EndCapture
    BY <1>10 DEF EndCapture
  <1>11. CASE AddTickTime
    BY <1>11 DEF AddTickTime, TickEnds, TickTimesOut, TickWaits, TickMoves, EndsRecording
  <1>12. CASE EncodeFinish
    BY <1>12 DEF EncodeFinish
  <1>13. CASE DeleteMuxer
    BY <1>13 DEF DeleteMuxer
  <1>14. CASE StopGrabber \/ Shutdown \/ ShutdownRuns \/ ShutdownReturns
    BY <1>14 DEF StopGrabber, Shutdown, ShutdownRuns, ShutdownReturns
  <1>15. CASE ClearImplements
    BY <1>15 DEF ClearImplements
  <1>16. CASE Grab
    BY <1>16 DEF Grab
  <1>17. CASE RearmTest \/ Rearm \/ RecordingTest \/ CanEncodeTest
    BY <1>17 DEF RearmTest, Rearm, RecordingTest, CanEncodeTest
  <1>18. CASE CanEncodeCount
    BY <1>18 DEF CanEncodeCount
  <1>19. CASE EncodeTest
    BY <1>19 DEF EncodeTest
  <1>20. CASE FeedImage
    BY <1>20 DEF FeedImage
  <1>21. CASE FrameWritten
    BY <1>21 DEF FrameWritten
  <1>22. CASE UNCHANGED vars
    BY <1>22 DEF vars
  <1> QED
    BY <1>1, <1>2, <1>3, <1>4, <1>5, <1>6, <1>7, <1>8, <1>9, <1>10, <1>11, <1>12, <1>13,
       <1>14, <1>15, <1>16, <1>17, <1>18, <1>19, <1>20, <1>21, <1>22
       DEF Next, Starting, Ending, Delivering

-----------------------------------------------------------------------------
(***************************************************************************)
(* The chain of frames.  It is broken neither by the game thread, which    *)
(* asks for a frame whenever it starts the grabber, nor by the render      *)
(* thread, which reads back without latency the frame it has just written. *)
(***************************************************************************)
LEMMA ChainStep ==
    ASSUME RInv, [Next]_vars
    PROVE  KeepsCapturing'
  <1> USE DEF RInv, KeepsCapturing, IsCapturingFrames, FrameOnItsWay, InGrabber, requests,
        surfaces, shutting, flags, counts, watch, encoder, control
  <1>0. commands \in Nat /\ payloads \in Nat
    BY DEF GInv, GrabberTypeOK
  <1>1. CASE StartGrabber
    BY <1>1 DEF StartGrabber, Game
  <1>2. CASE FirstFrame
    BY <1>0, <1>2 DEF FirstFrame, CaptureThisFrame, Game
  <1>3. CASE \/ WarmUp \/ StartCapture \/ InitFails \/ InitImplements \/ RecordingOn
             \/ ResetIndex \/ SetTotal \/ EndCapture \/ AddTickTime \/ EncodeFinish
             \/ DeleteMuxer \/ ClearImplements \/ FrameWritten \/ UNCHANGED vars
    <2>1. UNCHANGED grabber /\ (game' = "capture" <=> game = "capture")
      BY <1>3 DEF WarmUp, StartCapture, InitFails, InitImplements, RecordingOn, ResetIndex,
            SetTotal, EndCapture, AddTickTime, TickEnds, TickTimesOut, TickWaits, TickMoves,
            EncodeFinish, DeleteMuxer, ClearImplements, FrameWritten, vars, Game
    <2> QED
      BY <2>1 DEF grabber
  <1>4. CASE StopGrabber \/ Shutdown \/ ShutdownRuns \/ ShutdownReturns
    <2>1. /\ State' = "Active" => State = "Active"
          /\ UNCHANGED <<commands, payloads, render, FrameGrabLatency>>
          /\ game # "capture"
      BY <1>4 DEF StopGrabber, Shutdown, ShutdownRuns, ShutdownReturns, StopCapturingFrames,
            ShutdownBegins, ShuttingDown, ShutdownTests, ShutdownWaits, ShutdownEnds, Game
    <2> QED
      BY <2>1
  <1>5. CASE Grab
    <2>1. UNCHANGED <<State, game, FrameGrabLatency>>
      BY <1>5 DEF Grab, Grabbing, AppendFramePayload, BackBufferReady, SurfaceTests,
            SurfaceWaits, SurfaceInitialize, ResolveRenderTarget, FrameHandled, ReleaseSurface
    <2>2. ASSUME FrameGrabLatency = 0, FrameOnItsWay
          PROVE  FrameOnItsWay'
      <3>1. CASE AppendFramePayload
        BY <1>0, <3>1 DEF AppendFramePayload
      <3>2. CASE BackBufferReady
        BY <3>2 DEF BackBufferReady
      <3>3. CASE SurfaceTests \/ SurfaceWaits \/ SurfaceInitialize
        BY <3>3 DEF SurfaceTests, SurfaceWaits, SurfaceInitialize
      <3>4. CASE ResolveRenderTarget
        <4>1. PrevFrameTarget
          BY <2>2, GrabberAssumption DEF PrevFrameTarget, PrevCaptureIndexOffset
        <4> QED
          BY <3>4, <4>1 DEF ResolveRenderTarget
      <3>5. CASE FrameHandled \/ ReleaseSurface
        BY <2>2, <3>5 DEF FrameHandled, ReleaseSurface
      <3> QED
        BY <1>5, <3>1, <3>2, <3>3, <3>4, <3>5 DEF Grab, Grabbing
    <2> QED
      BY <2>1, <2>2
  <1>6. CASE RearmTest
    BY <1>6 DEF RearmTest, Render
  <1>7. CASE Rearm
    BY <1>0, <1>7 DEF Rearm, CaptureInCallback, Render
  <1>8. CASE RecordingTest \/ CanEncodeTest \/ CanEncodeCount \/ EncodeTest \/ FeedImage
    <2>1. /\ UNCHANGED <<State, commands, payloads, FrameGrabLatency, game>>
          /\ render \in {"record", "can", "count", "encode", "feed"}
      BY <1>8 DEF RecordingTest, CanEncodeTest, CanEncodeCount, EncodeTest, FeedImage, Render
    <2> QED
      BY <2>1
  <1> QED
    BY <1>1, <1>2, <1>3, <1>4, <1>5, <1>6, <1>7, <1>8
       DEF Next, Starting, Ending, Delivering

LEMMA RStep == RInv /\ [Next]_vars => RInv'
  <1> SUFFICES ASSUME RInv, [Next]_vars
               PROVE  RInv'
    OBVIOUS
  <1>1. GInv'
    <2> USE DEF RInv
    <2>1. CASE StartGrabber \/ FirstFrame \/ StopGrabber \/ Shutdown \/ ShutdownRuns
               \/ ShutdownReturns
      BY <2>1, GrabberGame DEF StartGrabber, FirstFrame, StopGrabber, Shutdown, ShutdownRuns,
            ShutdownReturns
    <2>2. CASE Grab
      BY <2>2, GrabberRender DEF Grab
    <2>3. CASE Delivering
      BY <2>3, GrabberPayload
    <2>4. CASE \/ WarmUp \/ StartCapture \/ InitFails \/ InitImplements \/ RecordingOn
               \/ ResetIndex \/ SetTotal \/ EndCapture \/ AddTickTime \/ EncodeFinish
               \/ DeleteMuxer \/ ClearImplements \/ FrameWritten \/ UNCHANGED vars
      <3>1. UNCHANGED grabber
        BY <2>4 DEF WarmUp, StartCapture, InitFails, InitImplements, RecordingOn, ResetIndex,
              SetTotal, EndCapture, AddTickTime, TickEnds, TickTimesOut, TickWaits, TickMoves,
              EncodeFinish, DeleteMuxer, ClearImplements, FrameWritten, vars
      <3> QED
        BY <3>1, GrabberRests
    <2> QED
      BY <2>1, <2>2, <2>3, <2>4 DEF Next, Starting, Ending
  <1>2. SInv'
    BY FlagsStep, CountsStep DEF RInv, SInv
  <1>3. KeepsCapturing'
    BY ChainStep
  <1> QED
    BY <1>1, <1>2, <1>3 DEF RInv

LEMMA RAlways == Spec => []RInv
  BY RInit, RStep, PTL DEF Spec

-----------------------------------------------------------------------------
\* The variables keep their types; in particular OutstandingFrameCount, which two
\* threads count up and one counts down, is never negative.
THEOREM RecordingTypes == Spec => []TypeOK
  <1>1. RInv => TypeOK
    BY DEF RInv, GInv, SInv, SFlags, SCounts, TypeOK
  <1> QED
    BY RAlways, <1>1, PTL

\* Without latency the grabber that captures always has a frame on its way that
\* asks for the next one, for any number of surfaces.
THEOREM GrabberNeverStarves == Spec => []KeepsCapturing
  <1>1. RInv => KeepsCapturing
    BY DEF RInv
  <1> QED
    BY RAlways, <1>1, PTL

-----------------------------------------------------------------------------
(***************************************************************************)
(* The muxer's life against the flag the render thread goes by.            *)
(***************************************************************************)
\* As long as the subsystem records there is a muxer to feed and an implementation
\* for AddTickTime to watch.
RecordingHasMuxer == bIsRecording => CurrentImplements /\ Muxer /\ ~bIsDestory

\* Where the game thread is decides what of the three there is.  Between calls the
\* implementation is there exactly while the subsystem records, so that StartCapture
\* finds none and AddTickTime finds one.
Warming == game \in {"start", "capture"}

WhatThereIs ==
    /\ game \in {"idle", "count", "total"} \/ (Warming /\ ~starting) =>
          (CurrentImplements <=> bIsRecording)
    /\ game = "init" \/ (Warming /\ starting) => ~CurrentImplements /\ ~bIsRecording
    /\ game \in {"recording", "finish"} =>
          CurrentImplements /\ Muxer /\ ~bIsDestory /\ ~bIsRecording
    /\ game = "stop" => Muxer
    /\ game \in {"stop", "stopping", "shutdown", "clear"} => ~bIsRecording /\ bIsDestory

LifeInv == RecordingHasMuxer /\ WhatThereIs

LEMMA LifeInit == Init => LifeInv
  BY Zenon DEF Init, LifeInv, RecordingHasMuxer, WhatThereIs, Warming

LEMMA LifeStep == SFlags /\ LifeInv /\ [Next]_vars => LifeInv'
  <1> SUFFICES ASSUME SFlags, LifeInv, [Next]_vars PROVE LifeInv'
    OBVIOUS
  <1> USE DEF SFlags, LifeInv, RecordingHasMuxer, WhatThereIs, Warming, Game, flags, encoder
  <1>1. CASE WarmUp
    BY <1>1 DEF WarmUp
  <1>2. CASE StartCapture
    BY <1>2 DEF StartCapture
  <1>3. CASE StartGrabber
    BY <1>3 DEF StartGrabber
  <1>4. CASE FirstFrame
    BY <1>4 DEF FirstFrame
  <1>5. CASE InitFails
    BY <1>5 DEF InitFails
  <1>6. CASE InitImplements
    BY <1>6 DEF InitImplements
  <1>7. CASE RecordingOn
    BY <1>7 DEF RecordingOn
  <1>8. CASE ResetIndex
    BY <1>8 DEF ResetIndex
  <1>9. CASE SetTotal
    BY <1>9 DEF SetTotal
  <1>10. CASE EndCapture
    BY <1>10 DEF EndCapture
  <1>11. CASE TickEnds \/ TickTimesOut
    BY <1>11 DEF TickEnds, TickTimesOut, EndsRecording
  <1>12. CASE TickWaits \/ TickMoves
    BY <1>12 DEF TickWaits, TickMoves
  <1>13. CASE EncodeFinish
    BY <1>13 DEF EncodeFinish
  <1>14. CASE DeleteMuxer
    BY <1>14 DEF DeleteMuxer
  <1>15. CASE StopGrabber
    BY <1>15 DEF StopGrabber
  <1>16. CASE Shutdown \/ ShutdownRuns \/ ShutdownReturns
    BY <1>16 DEF Shutdown, ShutdownRuns, ShutdownReturns
  <1>17. CASE ClearImplements
    BY <1>17 DEF ClearImplements
  <1>18. CASE Grab \/ Delivering \/ FrameWritten \/ UNCHANGED vars
    <2>1. UNCHANGED <<flags, encoder, game, starting>>
      BY <1>18 DEF Grab, Delivering, RearmTest, Rearm, RecordingTest, CanEncodeTest,
            CanEncodeCount, EncodeTest, FeedImage, FrameWritten, vars, control
    <2> QED
      BY <2>1
  <1> QED
    BY <1>1, <1>2, <1>3, <1>4, <1>5, <1>6, <1>7, <1>8, <1>9, <1>10, <1>11, <1>12, <1>13,
       <1>14, <1>15, <1>16, <1>17, <1>18
       DEF Next, Starting, AddTickTime, Ending

LEMMA LifeAlways == Spec => []LifeInv
  <1>1. RInv => SFlags
    BY DEF RInv, SInv
  <1> QED
    BY RAlways, <1>1, LifeInit, LifeStep, PTL DEF Spec

\* The order of StartCapture and EndCaptureInternal is right: bIsRecording is set
\* after the muxer is there and cleared before it goes.  What the render thread
\* does after it has read the flag is another matter (FeedImage).
THEOREM MuxerOutlivesRecording == Spec => []RecordingHasMuxer
  <1>1. LifeInv => RecordingHasMuxer
    BY DEF LifeInv
  <1> QED
    BY LifeAlways, <1>1, PTL

\* Encode_Finish does nothing for an implementation that is destroyed already.
FinishStops == EncodeFinish => Muxer /\ game' = "stop"

\* Every recording that ends has its own muxer stopped, so that each file gets its
\* trailer: no Encode_Finish finds that another one has been there before.
THEOREM EachEndStopsItsMuxer == Spec => [][FinishStops]_vars
  <1>1. LifeInv /\ [Next]_vars => [FinishStops]_vars
    BY DEF LifeInv, WhatThereIs, FinishStops, EncodeFinish, Game
  <1> QED
    BY LifeAlways, <1>1, PTL DEF Spec
=============================================================================
