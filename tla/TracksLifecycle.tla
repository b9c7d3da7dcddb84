-------------------------- MODULE TracksLifecycle --------------------------
(***************************************************************************)
(* FFmpegMediaPlayer and FFFmpegMediaTracks as the owner of threads: Open  *)
(* (whose work runs on the thread pool), Close, SelectTrack, and the       *)
(* Shutdown that has to bring the one FFFmpegMediaTracks of the player     *)
(* back to its initial state, since the next Open uses it again.           *)
(*                                                                         *)
(* What the threads do with media is left out (see VideoPipeline): here a  *)
(* thread is created, goes round its loop, and ends.  A decoder thread     *)
(* lives from stream_component_open to stream_component_close, which joins *)
(* it (PacketQueue and FrameQueue: the join completes).  That a kind of    *)
(* stream is open is said in three places, which need not agree: the       *)
(* Selected...Track, the ..._stream, and the decoder thread itself.        *)
(***************************************************************************)
EXTENDS Integers, Sequences, FiniteSets

CONSTANTS
    Kinds,      \* the streams of every media: one of each of these kinds
    MaxOpens,   \* bound: media opened
    Patient     \* TRUE: the player is left alone until an Open has finished

ASSUME LifecycleAssumption ==
    /\ IsFiniteSet(Kinds)
    /\ MaxOpens \in Nat \ {0}
    /\ Patient \in BOOLEAN

VARIABLES
    \* the player and the game thread
    opens,          \* calls of InitializePlayer so far
    task,           \* [media -> state of its task on the thread pool]
    game_pc,        \* where the game thread is in Shutdown
    reopen,         \* the Shutdown is that of an Open
    \* FFFmpegMediaTracks
    CurrentState,   \* "Closed", "Preparing" (for every open state) or "Error"
    ic,             \* media whose context is open, or 0
    abort_request,
    read_tid,       \* media whose read thread Shutdown will wait for, or 0
    streamTotalNumber, currentOpenStreamNumber,
    selected,       \* kinds of which SelectedVideoTrack, SelectedAudioTrack is set
    open_streams,   \* kinds of which video_stream, audio_stream is not -1
    running,        \* kinds whose rendering thread is to run: displayRunning, audioRunning
    videoq_size,    \* bytes in the video packet queue (0 or more than 0)
    destroying,     \* Shutdown destroys the queues and waits for rendering threads
    \* the threads
    decoding,       \* kinds with a decoder thread
    read_thread,    \* [media -> its read thread]
    render_threads  \* [kind -> its rendering threads, in order of creation]

player == <<opens, task, game_pc, reopen>>
counts == <<streamTotalNumber, currentOpenStreamNumber>>
streams == <<selected, open_streams, decoding>>
tracks == <<CurrentState, ic, abort_request, read_tid, counts, streams, running, videoq_size,
            destroying>>
vars == <<player, tracks, read_thread, render_threads>>

Media == 1..MaxOpens

Init ==
    /\ opens = 0 /\ task = [m \in Media |-> "none"]
    /\ game_pc = "idle" /\ reopen = FALSE
    /\ CurrentState = "Closed" /\ ic = 0
    /\ abort_request = FALSE /\ read_tid = 0
    /\ streamTotalNumber = 0 /\ currentOpenStreamNumber = 0
    /\ selected = {} /\ open_streams = {} /\ decoding = {}
    /\ running = {} /\ videoq_size = 0 /\ destroying = FALSE
    /\ read_thread = [m \in Media |-> "none"]
    /\ render_threads = [k \in Kinds |-> <<>>]

\* Initialize holds the CriticalSection from beginning to end.
LockFree == \A m \in Media : task[m] # "initializing"

Opening == \E m \in Media : task[m] \in {"context", "initializing"}

(***************************************************************************)
(* The task of an Open, on the thread pool.                                *)
(***************************************************************************)
\* ReadContext fails: MediaOpenFailed is sent and the tracks are not touched.
ReadContextFails(m) ==
    /\ task[m] = "context"
    /\ task' = [task EXCEPT ![m] = "done"]
    /\ UNCHANGED <<opens, game_pc, reopen, tracks, read_thread, render_threads>>

\* Initialize up to CurrentState = Preparing.  A stream that is open is not
\* closed but forgotten; all queues are initialised, and keep their counters.
InitializeBegins(m) ==
    /\ task[m] = "context"
    /\ LockFree
    /\ task' = [task EXCEPT ![m] = "initializing"]
    /\ ic' = m
    /\ open_streams' = {}
    /\ CurrentState' = "Preparing"
    /\ UNCHANGED <<opens, game_pc, reopen, abort_request, read_tid, counts, selected, decoding,
                   running, videoq_size, destroying, read_thread, render_threads>>

\* Initialize fails: a queue cannot be initialised.
InitializeFails(m) ==
    /\ task[m] = "initializing"
    /\ task' = [task EXCEPT ![m] = "done"]
    /\ CurrentState' = "Error"
    /\ UNCHANGED <<opens, game_pc, reopen, ic, abort_request, read_tid, counts, streams,
                   running, videoq_size, destroying, read_thread, render_threads>>

\* The streams are counted, on top of what is counted already; the read thread
\* is created.
InitializeEnds(m) ==
    /\ task[m] = "initializing"
    /\ task' = [task EXCEPT ![m] = "done"]
    /\ streamTotalNumber' = streamTotalNumber + Cardinality(Kinds)
    /\ read_thread' = [read_thread EXCEPT ![m] = "loop"]
    /\ read_tid' = m
    /\ UNCHANGED <<opens, game_pc, reopen, CurrentState, ic, abort_request,
                   currentOpenStreamNumber, streams, running, videoq_size, destroying,
                   render_threads>>

Task == \E m \in Media : \/ ReadContextFails(m) \/ InitializeBegins(m)
                         \/ InitializeFails(m) \/ InitializeEnds(m)

(***************************************************************************)
(* The game thread: Open and Close.                                        *)
(***************************************************************************)
\* InitializePlayer puts the task in the pool.
InitializePlayer ==
    /\ opens' = opens + 1
    /\ task' = [task EXCEPT ![opens + 1] = "context"]

MayCall == game_pc = "idle" /\ (Patient => ~Opening)

\* Close returns at once in state Closed, also while the task of an Open has
\* not got to Preparing yet.
OpenClosed ==
    /\ MayCall
    /\ CurrentState = "Closed"
    /\ opens < MaxOpens
    /\ InitializePlayer
    /\ UNCHANGED <<game_pc, reopen, tracks, read_thread, render_threads>>

\* Mutant: Shutdown does not tell the read thread to end.
BeginWithoutAbort ==
    /\ MayCall
    /\ CurrentState # "Closed"
    /\ reopen' \in {FALSE, opens < MaxOpens}
    /\ running' = {}
    /\ game_pc' = "join"
    /\ UNCHANGED <<opens, task, CurrentState, ic, abort_request, read_tid, counts, streams,
                   videoq_size, destroying, read_thread, render_threads>>

\* Close, or the Close of an Open, in any other state: Shutdown tells the read
\* thread and the rendering threads to end ...
ShutdownBegins ==
    /\ MayCall
    /\ CurrentState # "Closed"
    /\ reopen' \in {FALSE, opens < MaxOpens}
    /\ abort_request' = TRUE
    /\ running' = {}
    /\ game_pc' = "join"
    /\ UNCHANGED <<opens, task, CurrentState, ic, read_tid, counts, streams, videoq_size,
                   destroying, read_thread, render_threads>>

\* Mutant: the read thread is not waited for.
JoinNobody ==
    /\ game_pc = "join"
    /\ game_pc' = "streams"
    /\ UNCHANGED <<opens, task, reopen, tracks, read_thread, render_threads>>

\* ... waits for the read thread (the handle of one that has ended stays) ...
JoinReadThread ==
    /\ game_pc = "join"
    /\ read_tid # 0 => read_thread[read_tid] = "done"
    /\ game_pc' = "streams"
    /\ UNCHANGED <<opens, task, reopen, tracks, read_thread, render_threads>>

\* stream_component_close joins the decoder thread and flushes its queue.
StreamClose(k) ==
    /\ open_streams' = open_streams \ {k}
    /\ decoding' = decoding \ {k}
    /\ videoq_size' = IF k = "video" THEN 0 ELSE videoq_size

\* ... closes the streams it knows to be open ...
CloseStream ==
    /\ game_pc = "streams"
    /\ \E k \in open_streams : StreamClose(k)
    /\ UNCHANGED <<player, CurrentState, ic, abort_request, read_tid, counts, selected, running,
                   destroying, read_thread, render_threads>>

\* ... closes the input, and, if there is something in the video packet queue,
\* destroys the queues ...
CloseInput ==
    /\ game_pc = "streams"
    /\ open_streams = {}
    /\ ic' = 0
    /\ destroying' = (videoq_size > 0)
    /\ videoq_size' = 0
    /\ game_pc' = "render"
    /\ UNCHANGED <<opens, task, reopen, CurrentState, abort_request, read_tid, counts,
                   streams, running, read_thread, render_threads>>

\* displayThread and audioRenderThread: the rendering thread created last.
LastEnded(k) ==
    render_threads[k] # <<>> => render_threads[k][Len(render_threads[k])] = "done"

\* ... and then waits for the rendering threads as well ...
JoinRenderThreads ==
    /\ game_pc = "render"
    /\ destroying => \A k \in Kinds : LastEnded(k)
    /\ destroying' = FALSE
    /\ game_pc' = "reset"
    /\ UNCHANGED <<opens, task, reopen, CurrentState, ic, abort_request, read_tid, counts,
                   streams, running, videoq_size, read_thread, render_threads>>

\* Mutant: the streams of the media before are still counted.
ResetKeepsTotal ==
    /\ game_pc = "reset"
    /\ LockFree
    /\ CurrentState' = "Closed"
    /\ currentOpenStreamNumber' = 0
    /\ selected' = {}
    /\ abort_request' = FALSE
    /\ IF reopen THEN InitializePlayer ELSE UNCHANGED <<opens, task>>
    /\ reopen' = FALSE
    /\ game_pc' = "idle"
    /\ UNCHANGED <<ic, read_tid, streamTotalNumber, open_streams, decoding, running,
                   videoq_size, destroying, read_thread, render_threads>>

\* ... and, under the lock, puts the fields back; Open goes on with its media.
Reset ==
    /\ game_pc = "reset"
    /\ LockFree
    /\ CurrentState' = "Closed"
    /\ streamTotalNumber' = 0 /\ currentOpenStreamNumber' = 0
    /\ selected' = {}
    /\ abort_request' = FALSE
    /\ IF reopen THEN InitializePlayer ELSE UNCHANGED <<opens, task>>
    /\ reopen' = FALSE
    /\ game_pc' = "idle"
    /\ UNCHANGED <<ic, read_tid, open_streams, decoding, running, videoq_size, destroying,
                   read_thread, render_threads>>

Shutdown == JoinReadThread \/ CloseStream \/ CloseInput \/ JoinRenderThreads \/ Reset

(***************************************************************************)
(* The game thread: SelectTrack, under the lock, for the one track of a    *)
(* kind.  Selecting what is selected returns at once.                      *)
(***************************************************************************)
MaySelect == game_pc = "idle" /\ ic # 0 /\ LockFree /\ streamTotalNumber > 0

\* The stream is opened; its rendering thread is created unless the flag says
\* that there is one.
SelectTrack(k) ==
    /\ MaySelect
    /\ k \notin selected
    /\ selected' = selected \cup {k}
    /\ open_streams' = open_streams \cup {k}
    /\ decoding' = decoding \cup {k}
    /\ currentOpenStreamNumber' = currentOpenStreamNumber + 1
    /\ running' = running \cup {k}
    /\ render_threads' = IF k \in running THEN render_threads
                         ELSE [render_threads EXCEPT ![k] = Append(@, "loop")]
    /\ UNCHANGED <<player, CurrentState, ic, abort_request, read_tid, streamTotalNumber,
                   videoq_size, destroying, read_thread>>

\* Mutant: a closed stream still counts as open.
DeselectUncounted(k) ==
    /\ MaySelect
    /\ k \in selected
    /\ StreamClose(k)
    /\ selected' = selected \ {k}
    /\ UNCHANGED <<player, CurrentState, ic, abort_request, read_tid, counts, running,
                   destroying, read_thread, render_threads>>

\* SelectTrack with INDEX_NONE.
DeselectTrack(k) ==
    /\ MaySelect
    /\ k \in selected
    /\ StreamClose(k)
    /\ selected' = selected \ {k}
    /\ currentOpenStreamNumber' = currentOpenStreamNumber - 1
    /\ UNCHANGED <<player, CurrentState, ic, abort_request, read_tid, streamTotalNumber,
                   running, destroying, read_thread, render_threads>>

User == OpenClosed \/ ShutdownBegins \/ (\E k \in Kinds : SelectTrack(k) \/ DeselectTrack(k))

(***************************************************************************)
(* The threads.                                                            *)
(***************************************************************************)
\* The read thread ends at the head of its loop once it is told to.
ReadThreadEnds(m) ==
    /\ read_thread[m] = "loop"
    /\ abort_request
    /\ read_thread' = [read_thread EXCEPT ![m] = "done"]
    /\ UNCHANGED <<player, tracks, render_threads>>

\* It goes on to read only when all streams are open; until then it waits 10
\* and starts again.
ReadThreadReads(m) ==
    /\ read_thread[m] = "loop"
    /\ ~abort_request
    /\ currentOpenStreamNumber >= streamTotalNumber
    /\ read_thread' = [read_thread EXCEPT ![m] = "read"]
    /\ UNCHANGED <<player, tracks, render_threads>>

\* A packet of the file goes to its queue, if its stream is open.
PacketRead(m) ==
    /\ read_thread[m] = "read"
    /\ videoq_size' \in {videoq_size, IF "video" \in open_streams THEN 1 ELSE videoq_size}
    /\ read_thread' = [read_thread EXCEPT ![m] = "loop"]
    /\ UNCHANGED <<player, CurrentState, ic, abort_request, read_tid, counts, streams, running,
                   destroying, render_threads>>

\* The video decoder takes the last packet of the queue.
PacketTaken ==
    /\ "video" \in decoding
    /\ videoq_size = 1
    /\ videoq_size' = 0
    /\ UNCHANGED <<player, CurrentState, ic, abort_request, read_tid, counts, streams, running,
                   destroying, read_thread, render_threads>>

\* DisplayThread and AudioRenderThread look at their flag, then render or wait,
\* and look again.
RenderTurn(k, i) ==
    /\ render_threads[k][i] # "done"
    /\ render_threads' = [render_threads EXCEPT ![k][i] =
           CASE @ = "busy"                      -> "loop"
             [] @ = "loop" /\ k \in running     -> "busy"
             [] OTHER                           -> "done"]
    /\ UNCHANGED <<player, tracks, read_thread>>

Threads == \/ \E m \in Media : ReadThreadEnds(m) \/ ReadThreadReads(m) \/ PacketRead(m)
           \/ PacketTaken
           \/ \E k \in Kinds : \E i \in 1..Len(render_threads[k]) : RenderTurn(k, i)

Next == Task \/ User \/ Shutdown \/ Threads

\* Pool tasks end, a called Shutdown goes on, the read threads run.  A rendering
\* thread may be asleep, or blocked on its queue, for as long as it likes.
Spec ==
    /\ Init /\ [][Next]_vars
    /\ WF_vars(Task) /\ WF_vars(Shutdown)
    /\ \A m \in Media :
          WF_vars(ReadThreadEnds(m) \/ ReadThreadReads(m) \/ PacketRead(m))

-----------------------------------------------------------------------------
(***************************************************************************)
(* Properties.                                                             *)
(***************************************************************************)
ReadThreadStates == {"none", "loop", "read", "done"}

\* The types of the variables: never more streams open than there are.
TypeOK ==
    /\ opens \in 0..MaxOpens
    /\ task \in [Media -> {"none", "context", "initializing", "done"}]
    /\ game_pc \in {"idle", "join", "streams", "render", "reset"} /\ reopen \in BOOLEAN
    /\ CurrentState \in {"Closed", "Preparing", "Error"}
    /\ ic \in 0..MaxOpens /\ read_tid \in 0..MaxOpens
    /\ abort_request \in BOOLEAN
    /\ streamTotalNumber \in 0..(MaxOpens * Cardinality(Kinds))
    /\ currentOpenStreamNumber \in 0..Cardinality(Kinds)
    /\ selected \subseteq Kinds /\ open_streams \subseteq Kinds /\ decoding \subseteq Kinds
    /\ running \subseteq Kinds
    /\ videoq_size \in {0, 1} /\ destroying \in BOOLEAN
    /\ read_thread \in [Media -> ReadThreadStates]
    /\ render_threads \in [Kinds -> Seq({"loop", "busy", "done"})]

ReadThreadAlive(m) == read_thread[m] \in {"loop", "read"}

\* The context of the input is never closed under the read thread, which calls
\* libavformat on it without a lock, nor under a decoder thread.
InputInUse == (decoding # {} \/ \E m \in Media : ReadThreadAlive(m)) => ic # 0

\* When Initialize replaces the packet and frame queues with new ones, no thread
\* of the media before fills them any more.
InitFindsIdle ==
    (\E m \in Media : task[m] = "initializing")
        => decoding = {} /\ \A m \in Media : ~ReadThreadAlive(m)

\* Close always returns: Shutdown waits for nobody who may be waiting for it.
CloseReturns == game_pc = "join" ~> game_pc = "idle"

\* Whatever was opened, selected and closed before, a media whose tracks are all
\* selected, and stay so, is read.
SelectedIsRead ==
    (CurrentState = "Preparing" /\ LockFree /\ game_pc = "idle" /\ selected = Kinds)
        ~> (selected # Kinds \/ game_pc # "idle" \/ \E m \in Media : read_thread[m] = "read")

Alive(k) == {i \in 1..Len(render_threads[k]) : render_threads[k][i] # "done"}

\* Shutdown ends the display thread, so that the next media has a display thread
\* of its own and no other.
OneDisplayThread == Cardinality(Alive("video")) <= 1

\* Close comes before the next Open, so that at most one media is being read.
OneMediaRead == Cardinality({m \in Media : ReadThreadAlive(m)}) <= 1
=============================================================================
