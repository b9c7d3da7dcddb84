--------------------------- MODULE FrameGrabber ---------------------------
(***************************************************************************)
(* FCustomFrameGrabber: frames are asked for with CaptureThisFrame, by the *)
(* game thread or by the render thread, and read back from the back buffer *)
(* on the render thread, through a ring of surfaces.  A surface in use has *)
(* an event, triggered when it has been read; BlockUntilAvailable waits    *)
(* for it and gives it back, both in the callback, before a surface is     *)
(* used again, and in Shutdown, on the game thread.  Neither State nor the *)
(* pointer to the event is protected by a lock.                            *)
(*                                                                         *)
(* The operations here constrain the grabber's variables only; the threads *)
(* that call them are in RecordingSession.                                 *)
(***************************************************************************)
EXTENDS Integers

CONSTANTS
    NumSurfaces,    \* surfaces in the ring; 3 in the code
    Latencies       \* values of customframegrabber.customframelatency

ASSUME GrabberAssumption ==
    /\ NumSurfaces \in Nat \ {0}
    /\ Latencies \subseteq Nat

VARIABLES
    State,                  \* of the grabber
    bound,                  \* the callback is registered with the renderer
    commands,               \* AppendFramePayload commands not yet run
    payloads,               \* size of RenderThread_PendingFramePayloads
    OutstandingFrameCount,
    CurrentFrameIndex,      \* surface the next frame goes to
    FrameGrabLatency,       \* read when the grabber is created
    AvailableEvent,         \* of each surface: none, busy, or free (triggered)
    bQueuedForCapture,      \* of each surface
    render,                 \* where the render thread is in the callback
    shutter, shut           \* where Shutdown is, and at which surface

requests == <<commands, payloads, OutstandingFrameCount>>
surfaces == <<CurrentFrameIndex, FrameGrabLatency, AvailableEvent, bQueuedForCapture>>
shutting == <<shutter, shut>>
grabber  == <<State, bound, requests, surfaces, render, shutting>>

Surfaces == 0..(NumSurfaces - 1)

(***************************************************************************)
(* render: "idle"; "test" and "wait" in BlockUntilAvailable; "claim" about *)
(* to call Initialize; "resolve"; "callback", "rearm", "record", "can",    *)
(* "count", "encode", "feed" in the payload's OnFrameReady_RenderThread;   *)
(* "handled" out of it; "release" about to trigger the event.              *)
(* shutter: "off"; "test" and "wait" in BlockUntilAvailable; "lost" when   *)
(* it waits on an event the render thread has given back.                  *)
(***************************************************************************)
InGrabber  == {"test", "wait", "claim", "resolve"}
InCallback == {"callback", "rearm", "record", "can", "count", "encode", "feed"}
RenderStates == {"idle", "handled", "release"} \cup InGrabber \cup InCallback

GrabberTypeOK ==
    /\ State \in {"Inactive", "Active", "PendingShutdown"}
    /\ bound \in BOOLEAN
    /\ commands \in Nat /\ payloads \in Nat /\ OutstandingFrameCount \in Nat
    /\ CurrentFrameIndex \in Surfaces /\ FrameGrabLatency \in Latencies
    /\ AvailableEvent \in [Surfaces -> {"none", "busy", "free"}]
    /\ bQueuedForCapture \in [Surfaces -> BOOLEAN]
    /\ render \in RenderStates
    /\ shutter \in {"off", "test", "wait", "lost"}
    /\ shut \in Surfaces \cup {NumSurfaces}

\* A new grabber.
GrabberInit ==
    /\ State = "Inactive" /\ bound = FALSE
    /\ commands = 0 /\ payloads = 0 /\ OutstandingFrameCount = 0
    /\ CurrentFrameIndex = 0 /\ FrameGrabLatency \in Latencies
    /\ AvailableEvent = [s \in Surfaces |-> "none"]
    /\ bQueuedForCapture = [s \in Surfaces |-> FALSE]
    /\ render = "idle"
    /\ shutter = "off" /\ shut = 0

IsCapturingFrames == State = "Active"

(***************************************************************************)
(* Operations of the game thread.                                          *)
(***************************************************************************)
StartCapturingFrames ==
    /\ IF State = "Inactive"
         THEN State' = "Active" /\ bound' = TRUE
         ELSE UNCHANGED <<State, bound>>
    /\ UNCHANGED <<requests, surfaces, render, shutting>>

\* From the game thread the payload is added by a command, later.
CaptureThisFrame ==
    /\ IF State = "Active"
         THEN /\ OutstandingFrameCount' = OutstandingFrameCount + 1
              /\ commands' = commands + 1
         ELSE UNCHANGED <<OutstandingFrameCount, commands>>
    /\ UNCHANGED <<State, bound, payloads, surfaces, render, shutting>>

StopCapturingFrames ==
    /\ State' = IF State = "Active" THEN "PendingShutdown" ELSE State
    /\ UNCHANGED <<bound, requests, surfaces, render, shutting>>

\* Shutdown: no frame is asked for any more ...
ShutdownBegins ==
    /\ shutter = "off"
    /\ State' = "Inactive"
    /\ shutter' = "test" /\ shut' = 0
    /\ UNCHANGED <<bound, requests, surfaces, render>>

\* ... every surface that has an event is waited for ...
ShutdownTests ==
    /\ shutter = "test"
    /\ shut \in Surfaces
    /\ IF AvailableEvent[shut] = "none"
         THEN shut' = shut + 1 /\ UNCHANGED shutter
         ELSE shutter' = "wait" /\ UNCHANGED shut
    /\ UNCHANGED <<State, bound, requests, surfaces, render>>

ShutdownWaits ==
    /\ shutter = "wait"
    /\ AvailableEvent[shut] = "free"
    /\ AvailableEvent' = [AvailableEvent EXCEPT ![shut] = "none"]
    /\ shut' = shut + 1 /\ shutter' = "test"
    /\ UNCHANGED <<State, bound, requests, CurrentFrameIndex, FrameGrabLatency,
                   bQueuedForCapture, render>>

\* ... and only then the callback is removed.
ShutdownEnds ==
    /\ shutter = "test"
    /\ shut = NumSurfaces
    /\ bound' = FALSE
    /\ shutter' = "off"
    /\ UNCHANGED <<State, requests, surfaces, render, shut>>

(***************************************************************************)
(* The render thread.                                                      *)
(***************************************************************************)
AppendFramePayload ==
    /\ render = "idle"
    /\ commands > 0
    /\ commands' = commands - 1 /\ payloads' = payloads + 1
    /\ UNCHANGED <<State, bound, OutstandingFrameCount, surfaces, render, shutting>>

\* A back buffer is ready, and a frame was asked for.
BackBufferReady ==
    /\ render = "idle"
    /\ bound
    /\ payloads > 0
    /\ payloads' = payloads - 1
    /\ render' = "test"
    /\ UNCHANGED <<State, bound, commands, OutstandingFrameCount, surfaces, shutting>>

SurfaceTests ==
    /\ render = "test"
    /\ render' = IF AvailableEvent[CurrentFrameIndex] = "none" THEN "claim" ELSE "wait"
    /\ UNCHANGED <<State, bound, requests, surfaces, shutting>>

\* The event is auto-reset and given back: a Shutdown that waits on it as well
\* gets the next event of the surface, if it has not read the pointer yet, or
\* nothing.
SurfaceWaits ==
    /\ render = "wait"
    /\ AvailableEvent[CurrentFrameIndex] = "free"
    /\ AvailableEvent' = [AvailableEvent EXCEPT ![CurrentFrameIndex] = "none"]
    /\ render' = "claim"
    /\ \/ UNCHANGED shutter
       \/ shutter = "wait" /\ shut = CurrentFrameIndex /\ shutter' = "lost"
    /\ UNCHANGED <<State, bound, requests, CurrentFrameIndex, FrameGrabLatency,
                   bQueuedForCapture, shut>>

SurfaceInitialize ==
    /\ render = "claim"
    /\ AvailableEvent' = [AvailableEvent EXCEPT ![CurrentFrameIndex] = "busy"]
    /\ render' = "resolve"
    /\ UNCHANGED <<State, bound, requests, CurrentFrameIndex, FrameGrabLatency,
                   bQueuedForCapture, shutting>>

PrevCaptureIndexOffset ==
    IF FrameGrabLatency < NumSurfaces THEN FrameGrabLatency ELSE NumSurfaces - 1

\* The surface read back: the one written now, or an earlier one.
PrevCaptureIndex ==
    (CurrentFrameIndex - PrevCaptureIndexOffset + NumSurfaces) % NumSurfaces

NextFrameIndex == (CurrentFrameIndex + 1) % NumSurfaces

\* There is something to read back.
PrevFrameTarget == bQueuedForCapture[PrevCaptureIndex] \/ PrevCaptureIndexOffset = 0

\* The payload of the surface written is called back only if there is something
\* to read; otherwise nobody triggers the event either.
ResolveRenderTarget ==
    /\ render = "resolve"
    /\ bQueuedForCapture' = [bQueuedForCapture EXCEPT ![CurrentFrameIndex] = TRUE]
    /\ IF PrevFrameTarget
         THEN render' = "callback" /\ UNCHANGED CurrentFrameIndex
         ELSE render' = "idle" /\ CurrentFrameIndex' = NextFrameIndex
    /\ UNCHANGED <<State, bound, requests, FrameGrabLatency, AvailableEvent, shutting>>

\* Mutant: a frame asked for from the render thread is not counted.
CaptureUncounted ==
    /\ payloads' = IF State = "Active" THEN payloads + 1 ELSE payloads
    /\ UNCHANGED <<State, bound, commands, OutstandingFrameCount, surfaces, shutting>>

\* From the render thread CaptureThisFrame adds the payload at once.
CaptureInCallback ==
    /\ IF State = "Active"
         THEN /\ OutstandingFrameCount' = OutstandingFrameCount + 1
              /\ payloads' = payloads + 1
         ELSE UNCHANGED <<OutstandingFrameCount, payloads>>
    /\ UNCHANGED <<State, bound, commands, surfaces, shutting>>

\* The end of OnFrameReady.
FrameHandled ==
    /\ render = "handled"
    /\ OutstandingFrameCount' = OutstandingFrameCount - 1
    /\ render' = "release"
    /\ UNCHANGED <<State, bound, commands, payloads, surfaces, shutting>>

ReleaseSurface ==
    /\ render = "release"
    /\ AvailableEvent' = [AvailableEvent EXCEPT ![PrevCaptureIndex] = "free"]
    /\ CurrentFrameIndex' = NextFrameIndex
    /\ render' = "idle"
    /\ UNCHANGED <<State, bound, requests, FrameGrabLatency, bQueuedForCapture, shutting>>

Grabbing == \/ AppendFramePayload \/ BackBufferReady \/ SurfaceTests \/ SurfaceWaits
            \/ SurfaceInitialize \/ ResolveRenderTarget \/ FrameHandled \/ ReleaseSurface
ShuttingDown == ShutdownTests \/ ShutdownWaits
=============================================================================
