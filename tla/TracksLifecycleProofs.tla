----------------------- MODULE TracksLifecycleProofs -----------------------
(***************************************************************************)
(* Theorems about TracksLifecycle, for any streams and any number of       *)
(* media.  They suppose that an Open is left to finish before the next     *)
(* call (LeftAlone); without that they do not hold: see OneMediaRead.      *)
(* Only what Shutdown waits for first is shown without it.                 *)
(***************************************************************************)
EXTENDS TracksLifecycle, FiniteSetTheorems, SequenceTheorems, TLAPS

LeftAlone == Patient

Quiet == decoding = {} /\ \A m \in Media : ~ReadThreadAlive(m)

IsOpening(m) == task[m] \in {"context", "initializing"}

(***************************************************************************)
(* The inductive invariant.  InputInUse says nothing of who will be closed *)
(* next, so it has to be known at every place of Shutdown who is gone by   *)
(* then; and that what an Open finds is what a Shutdown left, which is why *)
(* state Closed comes with everything else being quiet.                    *)
(***************************************************************************)
LTypes ==
    /\ opens \in Nat
    /\ task \in [Media -> {"none", "context", "initializing", "done"}]
    /\ read_thread \in [Media -> {"none", "loop", "read", "done"}]
    /\ game_pc \in {"idle", "join", "streams", "render", "reset"}

\* The only read thread that can be alive is the one Shutdown waits for, and
\* not past the join.
LReader ==
    \A m \in Media : ReadThreadAlive(m) =>
        m = read_tid /\ ic # 0 /\ game_pc \in {"idle", "join"}

\* No decoder thread has been forgotten, and they run only while the input is open.
LStreams ==
    /\ decoding = open_streams
    /\ decoding # {} => ic # 0
    /\ game_pc \in {"render", "reset"} => decoding = {} /\ ic = 0

LClosed == CurrentState = "Closed" => Quiet /\ ic = 0 /\ game_pc = "idle"

\* An Open runs alone, and finds the state a Shutdown left.
LOpening ==
    /\ \A m, n \in Media : IsOpening(m) /\ IsOpening(n) => m = n
    /\ \A m \in Media : IsOpening(m) => game_pc = "idle" /\ Quiet
    /\ \A m \in Media : task[m] = "context" => CurrentState = "Closed"
    /\ \A m \in Media : task[m] = "initializing" => CurrentState # "Closed" /\ ic # 0

LInv == LTypes /\ LReader /\ LStreams /\ LClosed /\ LOpening

-----------------------------------------------------------------------------
LEMMA LInit == Init => LInv
  BY LifecycleAssumption
     DEF Init, LInv, LTypes, LReader, LStreams, LClosed, LOpening, Quiet, IsOpening,
         ReadThreadAlive, Media

\* Steps that leave the threads, the tasks, the context and the place of the game
\* thread alone keep the invariant if no decoder starts, and none is forgotten.
LEMMA LFrame ==
    ASSUME LInv, UNCHANGED <<opens, task, game_pc, CurrentState, ic, read_tid, read_thread>>,
           decoding' \subseteq decoding, decoding = open_streams => decoding' = open_streams'
    PROVE  LInv'
  BY DEF LInv, LTypes, LReader, LStreams, LClosed, LOpening, Quiet, IsOpening, ReadThreadAlive

\* A task put into the pool from a quiet, closed player runs alone.
LEMMA LPool ==
    ASSUME LInv, InitializePlayer, ~Opening, game_pc' = "idle", CurrentState' = "Closed",
           Quiet, Quiet', ic' = 0, UNCHANGED <<read_thread, open_streams, decoding, read_tid>>
    PROVE  LInv'
  <1> DEFINE States == {"none", "context", "initializing", "done"}
  <1>a. task \in [Media -> States] /\ opens \in Nat
    BY DEF LInv, LTypes
  <1>b. task' = [task EXCEPT ![opens + 1] = "context"] /\ opens' = opens + 1
    BY DEF InitializePlayer
  <1>c. task' \in [Media -> States]
    <2> HIDE DEF States
    <2>1. "context" \in States BY DEF States
    <2> QED BY <1>a, <1>b, <2>1
  <1>d. opens' \in Nat
    BY <1>a, <1>b
  <1>1. LTypes'
    BY <1>c, <1>d DEF LInv, LTypes
  <1>2. LReader' /\ LStreams' /\ LClosed'
    BY DEF LInv, LReader, LStreams, LClosed, Quiet, ReadThreadAlive
  <1>3. \A m \in Media : IsOpening(m)' => m = opens + 1 /\ task'[m] = "context"
    BY DEF LInv, LTypes, InitializePlayer, IsOpening, Opening
  <1>4. LOpening'
    BY <1>3 DEF LOpening, IsOpening
  <1> QED
    BY <1>1, <1>2, <1>4 DEF LInv

LEMMA LStep == LeftAlone /\ LInv /\ [Next]_vars => LInv'
  <1> SUFFICES ASSUME LeftAlone, LInv, [Next]_vars
               PROVE  LInv'
    OBVIOUS
  <1> USE DEF LInv
  <1>1. ASSUME NEW m \in Media, ReadContextFails(m) PROVE LInv'
    BY <1>1 DEF ReadContextFails, tracks, counts, LTypes, LReader, LStreams, LClosed, LOpening,
                Quiet, IsOpening, ReadThreadAlive, streams
  <1>2. ASSUME NEW m \in Media, InitializeBegins(m) PROVE LInv'
    <2>1. /\ Quiet /\ game_pc = "idle" /\ game_pc' = "idle" /\ ic' = m /\ m # 0
          /\ CurrentState' = "Preparing"
          /\ open_streams' = {} /\ UNCHANGED <<opens, decoding, read_thread, read_tid>>
          /\ task' = [task EXCEPT ![m] = "initializing"]
      BY <1>2 DEF InitializeBegins, LOpening, IsOpening, Media, counts
    <2>2. Quiet'
      BY <2>1 DEF Quiet, ReadThreadAlive
    <2>3. LTypes' /\ LReader' /\ LStreams' /\ LClosed'
      BY <2>1, <2>2 DEF LTypes, LReader, LStreams, LClosed, Quiet, ReadThreadAlive
    <2>4. \A n \in Media : IsOpening(n)' => n = m /\ task'[n] = "initializing"
      BY <1>2, <2>1 DEF InitializeBegins, LOpening, LTypes, IsOpening
    <2>5. LOpening'
      BY <2>1, <2>2, <2>4 DEF LOpening, IsOpening
    <2> QED
      BY <2>3, <2>5
  <1>3. ASSUME NEW m \in Media, InitializeFails(m) PROVE LInv'
    BY <1>3 DEF InitializeFails, counts, LTypes, LReader, LStreams, LClosed, LOpening,
                Quiet, IsOpening, ReadThreadAlive, streams
  <1>4. ASSUME NEW m \in Media, InitializeEnds(m) PROVE LInv'
    <2>1. /\ Quiet /\ game_pc = "idle" /\ game_pc' = "idle" /\ ic # 0 /\ ic' = ic
          /\ CurrentState # "Closed" /\ CurrentState' = CurrentState
          /\ read_tid' = m /\ UNCHANGED <<opens, open_streams, decoding>>
          /\ task' = [task EXCEPT ![m] = "done"]
          /\ read_thread' = [read_thread EXCEPT ![m] = "loop"]
      BY <1>4 DEF InitializeEnds, LOpening, IsOpening, streams
    <2>2. LTypes' /\ LStreams' /\ LClosed'
      BY <2>1 DEF LTypes, LStreams, LClosed
    <2>3. \A n \in Media : ReadThreadAlive(n)' => n = m
      BY <2>1 DEF Quiet, ReadThreadAlive, LTypes
    <2>4. LReader'
      BY <2>1, <2>3 DEF LReader
    <2>5. \A n \in Media : ~IsOpening(n)'
      BY <1>4, <2>1 DEF InitializeEnds, LOpening, LTypes, IsOpening, streams
    <2>6. LOpening'
      BY <2>5 DEF LOpening, IsOpening
    <2> QED
      BY <2>2, <2>4, <2>6
  <1>5. CASE OpenClosed
    <2>1. /\ InitializePlayer /\ ~Opening /\ game_pc' = "idle"
          /\ CurrentState' = "Closed" /\ Quiet /\ ic' = 0
          /\ UNCHANGED <<read_thread, open_streams, decoding, read_tid>>
      BY <1>5 DEF OpenClosed, MayCall, LeftAlone, tracks, LClosed, streams
    <2>2. Quiet'
      BY <2>1 DEF Quiet, ReadThreadAlive
    <2> QED
      BY <2>1, <2>2, LPool
  <1>6. CASE ShutdownBegins
    <2>1. /\ \A m \in Media : ~IsOpening(m)
          /\ game_pc = "idle" /\ game_pc' = "join" /\ CurrentState # "Closed"
          /\ UNCHANGED <<opens, task, CurrentState, ic, read_tid, open_streams, decoding, read_thread>>
      BY <1>6 DEF ShutdownBegins, MayCall, LeftAlone, Opening, IsOpening, streams
    <2> QED
      BY <2>1 DEF LTypes, LReader, LStreams, LClosed, LOpening, IsOpening, ReadThreadAlive
  <1>7. CASE JoinReadThread
    <2>1. /\ game_pc = "join" /\ game_pc' = "streams"
          /\ read_tid # 0 => read_thread[read_tid] = "done"
          /\ UNCHANGED <<opens, task, CurrentState, ic, read_tid, open_streams, decoding, read_thread>>
      BY <1>7 DEF JoinReadThread, tracks, streams
    <2>2. \A m \in Media : ~ReadThreadAlive(m)
      BY <2>1 DEF LReader, ReadThreadAlive, Media
    <2>3. CurrentState # "Closed" /\ \A m \in Media : ~IsOpening(m)
      BY <2>1 DEF LClosed, LOpening
    <2> QED
      BY <2>1, <2>2, <2>3
         DEF LTypes, LReader, LStreams, LClosed, LOpening, IsOpening, ReadThreadAlive
  <1>8. CASE CloseStream
    BY <1>8, LFrame DEF CloseStream, StreamClose, player
  <1>9. CASE CloseInput
    <2>1. /\ game_pc = "streams" /\ game_pc' = "render" /\ open_streams = {} /\ ic' = 0
          /\ UNCHANGED <<opens, task, CurrentState, read_tid, open_streams, decoding, read_thread>>
      BY <1>9 DEF CloseInput, streams
    <2>2. \A m \in Media : ~ReadThreadAlive(m)
      BY <2>1 DEF LReader
    <2>3. CurrentState # "Closed" /\ \A m \in Media : ~IsOpening(m)
      BY <2>1 DEF LClosed, LOpening
    <2> QED
      BY <2>1, <2>2, <2>3
         DEF LTypes, LReader, LStreams, LClosed, LOpening, IsOpening, ReadThreadAlive
  <1>10. CASE Reset
    <2>1. /\ game_pc = "reset" /\ game_pc' = "idle" /\ CurrentState' = "Closed"
          /\ ic' = ic /\ UNCHANGED <<read_tid, open_streams, decoding, read_thread>>
      BY <1>10 DEF Reset
    <2>2. /\ ic' = 0 /\ Quiet /\ Quiet'
          /\ ~Opening /\ \A m \in Media : ~IsOpening(m)
      BY <2>1 DEF LStreams, LReader, LOpening, Opening, IsOpening, Quiet, ReadThreadAlive
    <2>3. CASE reopen
      <3>1. InitializePlayer
        BY <1>10, <2>3 DEF Reset
      <3> QED
        BY <2>1, <2>2, <3>1, LPool
    <2>4. CASE ~reopen
      <3>1. UNCHANGED <<opens, task>>
        BY <1>10, <2>4 DEF Reset
      <3> QED
        BY <2>1, <2>2, <3>1
           DEF LTypes, LReader, LStreams, LClosed, LOpening, Quiet, IsOpening, ReadThreadAlive
    <2> QED BY <2>3, <2>4
  <1>11. ASSUME NEW k \in Kinds, SelectTrack(k) PROVE LInv'
    <2>1. /\ game_pc = "idle" /\ ic # 0 /\ \A m \in Media : task[m] # "initializing"
          /\ decoding' = decoding \cup {k} /\ open_streams' = open_streams \cup {k}
          /\ UNCHANGED <<opens, task, game_pc, CurrentState, ic, read_tid, read_thread>>
      BY <1>11 DEF SelectTrack, MaySelect, LockFree, player
    <2>2. CurrentState # "Closed" /\ \A m \in Media : ~IsOpening(m)
      BY <2>1 DEF LClosed, LOpening, IsOpening
    <2> QED
      BY <2>1, <2>2 DEF LTypes, LReader, LStreams, LClosed, LOpening, IsOpening, ReadThreadAlive
  <1>12. ASSUME NEW k \in Kinds, DeselectTrack(k) PROVE LInv'
    BY <1>12, LFrame DEF DeselectTrack, StreamClose, player
  <1>13. ASSUME NEW m \in Media,
                \/ ReadThreadEnds(m) /\ read_thread' = [read_thread EXCEPT ![m] = "done"]
                \/ ReadThreadReads(m) /\ read_thread' = [read_thread EXCEPT ![m] = "read"]
                \/ PacketRead(m) /\ read_thread' = [read_thread EXCEPT ![m] = "loop"]
         PROVE  LInv'
    <2>1. /\ ReadThreadAlive(m)
          /\ UNCHANGED <<opens, task, game_pc, CurrentState, ic, read_tid, open_streams, decoding>>
          /\ \E s \in {"done", "read", "loop"} : read_thread' = [read_thread EXCEPT ![m] = s]
      BY <1>13 DEF ReadThreadEnds, ReadThreadReads, PacketRead, ReadThreadAlive, player, tracks, streams
    <2>2. \A n \in Media : ReadThreadAlive(n)' => ReadThreadAlive(n)
      BY <2>1 DEF LTypes, ReadThreadAlive
    <2>3. LTypes' /\ LReader' /\ LStreams'
      BY <2>1, <2>2 DEF LTypes, LReader, LStreams
    <2>4. LClosed' /\ LOpening'
      BY <2>1, <2>2 DEF LClosed, LOpening, Quiet, IsOpening
    <2> QED
      BY <2>3, <2>4
  <1>14. CASE PacketTaken
    BY <1>14, LFrame DEF PacketTaken, player, streams
  <1>15. ASSUME NEW k \in Kinds, NEW i \in 1..Len(render_threads[k]), RenderTurn(k, i)
         PROVE  LInv'
    BY <1>15, LFrame DEF RenderTurn, player, tracks, streams
  <1>16. CASE UNCHANGED vars
    BY <1>16, LFrame DEF vars, player, tracks, streams
  <1>21. CASE JoinRenderThreads
    <2>1. /\ game_pc = "render" /\ game_pc' = "reset"
          /\ UNCHANGED <<opens, task, CurrentState, ic, read_tid, open_streams, decoding, read_thread>>
      BY <1>21 DEF JoinRenderThreads, streams
    <2> QED
      BY <2>1 DEF LTypes, LReader, LStreams, LClosed, LOpening, IsOpening, ReadThreadAlive
  <1>17. CASE Task
    BY <1>17, <1>1, <1>2, <1>3, <1>4 DEF Task
  <1>18. CASE User
    BY <1>18, <1>5, <1>6, <1>11, <1>12 DEF User
  <1>19. CASE Shutdown
    BY <1>19, <1>7, <1>8, <1>9, <1>10, <1>21 DEF Shutdown
  <1>20. CASE Threads
    BY <1>20, <1>13, <1>14, <1>15 DEF Threads, ReadThreadEnds, ReadThreadReads, PacketRead, streams
  <1> QED
    BY <1>16, <1>17, <1>18, <1>19, <1>20 DEF Next

\* The input context is never closed under the read thread or a decoder thread.
THEOREM InputStaysOpen ==
    ASSUME LeftAlone
    PROVE  Spec => []InputInUse
  <1>1. LInv => InputInUse
    BY DEF LInv, LReader, LStreams, InputInUse
  <1> QED
    BY <1>1, LInit, LStep, PTL DEF Spec

\* At most one media is being read: Close comes before the next Open.  Without
\* LeftAlone it does not, which the run tracks_open_twice shows.
THEOREM OneMediaAtATime ==
    ASSUME LeftAlone
    PROVE  Spec => []OneMediaRead
  <1>1. ASSUME LInv PROVE OneMediaRead
    <2> DEFINE read == {m \in Media : ReadThreadAlive(m)}
    <2>1. read \subseteq {read_tid}
      BY <1>1 DEF LInv, LReader
    <2>2. IsFiniteSet({read_tid}) /\ Cardinality({read_tid}) = 1
      BY FS_Singleton
    <2>3. IsFiniteSet(read) /\ Cardinality(read) <= 1
      <3> HIDE DEF read
      <3> QED
        BY <2>1, <2>2, FS_Subset
    <2> QED
      BY <2>3 DEF OneMediaRead
  <1> QED
    BY <1>1, LInit, LStep, PTL DEF Spec

\* Initialize replaces the queues only when nobody fills them any more.
THEOREM InitializeAlone ==
    ASSUME LeftAlone
    PROVE  Spec => []InitFindsIdle
  <1>1. LInv => InitFindsIdle
    BY DEF LInv, LOpening, IsOpening, Quiet, InitFindsIdle
  <1> QED
    BY <1>1, LInit, LStep, PTL DEF Spec

-----------------------------------------------------------------------------
(***************************************************************************)
(* The counts.  streamTotalNumber is added to, currentOpenStreamNumber     *)
(* goes up and down: that they stay within the streams of one media comes  *)
(* from the Reset between two media, and from the count following the set. *)
(***************************************************************************)
Total == Cardinality(Kinds)

LCounts ==
    /\ streamTotalNumber \in {0, Total}
    /\ CurrentState = "Closed" => streamTotalNumber = 0
    /\ \A m \in Media : IsOpening(m) => streamTotalNumber = 0
    /\ selected \subseteq Kinds
    /\ currentOpenStreamNumber \in 0..Total
    /\ currentOpenStreamNumber = Cardinality(selected)

LFlags ==
    /\ reopen \in BOOLEAN /\ abort_request \in BOOLEAN /\ destroying \in BOOLEAN
    /\ reopen => opens < MaxOpens /\ game_pc # "idle"

LRest ==
    /\ opens \in 0..MaxOpens /\ ic \in 0..MaxOpens /\ read_tid \in 0..MaxOpens
    /\ CurrentState \in {"Closed", "Preparing", "Error"}
    /\ open_streams \subseteq Kinds /\ decoding \subseteq Kinds
    /\ running \subseteq Kinds /\ videoq_size \in {0, 1}
    /\ render_threads \in [Kinds -> Seq({"loop", "busy", "done"})]

LAll == LInv /\ LCounts /\ LFlags /\ LRest

LEMMA Sizes ==
    /\ Total \in Nat /\ MaxOpens \in Nat /\ MaxOpens >= 1
    /\ \A S : S \subseteq Kinds => IsFiniteSet(S) /\ Cardinality(S) \in 0..Total
  <1>1. IsFiniteSet(Kinds) /\ MaxOpens \in Nat /\ MaxOpens >= 1
    BY LifecycleAssumption DEF LifecycleAssumption
  <1>2. ASSUME NEW S, S \subseteq Kinds PROVE IsFiniteSet(S) /\ Cardinality(S) \in 0..Total
    <2>1. IsFiniteSet(S) /\ Cardinality(S) <= Total
      BY <1>1, <1>2, FS_Subset DEF Total
    <2> QED
      BY <1>1, <2>1, FS_CardinalityType DEF Total
  <1> QED
    BY <1>1, <1>2, FS_CardinalityType DEF Total

LEMMA Times == \A m, n \in Nat : m >= 1 => n <= m * n /\ m * n \in Nat
  OBVIOUS

LEMMA AllIsTyped == LAll => TypeOK
  <1> SUFFICES ASSUME LAll PROVE TypeOK
    OBVIOUS
  <1>1. streamTotalNumber \in 0..(MaxOpens * Cardinality(Kinds))
    BY Sizes, Times DEF LAll, LCounts, Total
  <1>2. task \in [Media -> {"none", "context", "initializing", "done"}]
        /\ game_pc \in {"idle", "join", "streams", "render", "reset"}
        /\ read_thread \in [Media -> ReadThreadStates]
    BY DEF LAll, LInv, LTypes, ReadThreadStates
  <1>3. reopen \in BOOLEAN /\ abort_request \in BOOLEAN /\ destroying \in BOOLEAN
    BY Zenon DEF LAll, LFlags
  <1> QED
    BY <1>1, <1>2, <1>3, Zenon DEF LAll, LCounts, LRest, TypeOK, Total

LEMMA AllInit == Init => LAll
  <1> SUFFICES ASSUME Init PROVE LAll
    OBVIOUS
  <1>1. LCounts
    BY Sizes, FS_EmptySet DEF Init, LCounts, IsOpening
  <1>2. LFlags
    BY Zenon DEF Init, LFlags
  <1>3. LRest
    BY Sizes DEF Init, LRest
  <1> QED
    BY <1>1, <1>2, <1>3, LInit DEF LAll

LEMMA FlagsKept ==
    ASSUME LFlags, UNCHANGED <<reopen, abort_request, opens, game_pc, destroying>>
    PROVE  LFlags'
  BY Zenon DEF LFlags

LEMMA FlagsNext == LFlags /\ LRest /\ [Next]_vars => LFlags'
  <1> SUFFICES ASSUME LFlags, LRest, [Next]_vars PROVE LFlags'
    OBVIOUS
  <1>1. ASSUME NEW m \in Media,
               ReadContextFails(m) \/ InitializeBegins(m) \/ InitializeFails(m) \/ InitializeEnds(m)
        PROVE  LFlags'
    BY <1>1, FlagsKept, Zenon DEF ReadContextFails, InitializeBegins, InitializeFails, InitializeEnds, tracks, streams
  <1>2. CASE OpenClosed
    <2>1. UNCHANGED <<reopen, abort_request, destroying>> /\ game_pc = "idle"
      BY <1>2, Zenon DEF OpenClosed, MayCall, tracks, streams
    <2>2. ~reopen
      BY <2>1, Zenon DEF LFlags
    <2> QED
      BY <2>1, <2>2, Zenon DEF LFlags
  <1>3. CASE ShutdownBegins
    <2>1. abort_request' = TRUE /\ UNCHANGED <<opens, destroying>> /\ game_pc' = "join" /\ game_pc' # "idle"
          /\ reopen' \in {FALSE, opens < MaxOpens}
      BY <1>3 DEF ShutdownBegins, streams
    <2>2. (opens < MaxOpens) \in BOOLEAN
      BY Sizes DEF LRest
    <2>3. reopen' \in BOOLEAN /\ (reopen' => opens < MaxOpens)
      BY <2>1, <2>2, Zenon
    <2> QED
      BY <2>1, <2>3, Zenon DEF LFlags
  <1>4. CASE JoinReadThread
    <2>1. game_pc' # "idle" /\ UNCHANGED <<reopen, abort_request, opens, destroying>>
      BY <1>4 DEF JoinReadThread, tracks, streams
    <2> QED
      BY <2>1, Zenon DEF LFlags
  <1>5. CASE CloseInput
    <2>1. /\ game_pc' # "idle" /\ UNCHANGED <<reopen, abort_request, opens>>
          /\ destroying' = (videoq_size > 0)
      BY <1>5 DEF CloseInput, streams
    <2>2. (videoq_size > 0) \in BOOLEAN
      BY DEF LRest
    <2> QED
      BY <2>1, <2>2, Zenon DEF LFlags
  <1>6. CASE Reset
    BY <1>6, Zenon DEF Reset, LFlags
  <1>7. ASSUME NEW k \in Kinds, SelectTrack(k) \/ DeselectTrack(k) PROVE LFlags'
    BY <1>7, FlagsKept, Zenon DEF SelectTrack, DeselectTrack, player
  <1>8. CASE CloseStream \/ PacketTaken
    BY <1>8, FlagsKept, Zenon DEF CloseStream, PacketTaken, player, streams
  <1>9. ASSUME NEW m \in Media, ReadThreadEnds(m) \/ ReadThreadReads(m) \/ PacketRead(m) PROVE LFlags'
    BY <1>9, FlagsKept, Zenon DEF ReadThreadEnds, ReadThreadReads, PacketRead, player, tracks, streams
  <1>10. ASSUME NEW k \in Kinds, NEW i \in 1..Len(render_threads[k]), RenderTurn(k, i) PROVE LFlags'
    BY <1>10, FlagsKept, Zenon DEF RenderTurn, player, tracks, streams
  <1>11. CASE UNCHANGED vars
    BY <1>11, FlagsKept, Zenon DEF vars, player, tracks, streams
  <1>12. CASE JoinRenderThreads
    <2>1. game_pc' # "idle" /\ UNCHANGED <<reopen, abort_request, opens>> /\ destroying' = FALSE
      BY <1>12 DEF JoinRenderThreads, streams
    <2> QED
      BY <2>1, Zenon DEF LFlags
  <1> QED
    BY <1>1, <1>2, <1>3, <1>4, <1>5, <1>6, <1>7, <1>8, <1>9, <1>10, <1>11, <1>12, Zenon
       DEF Next, Task, User, Shutdown, Threads

LEMMA CountsKept ==
    ASSUME LCounts, UNCHANGED <<counts, selected, CurrentState>>,
           \A m \in Media : IsOpening(m)' => IsOpening(m)
    PROVE  LCounts'
  BY DEF LCounts, counts

LEMMA CountsNext == LInv /\ LCounts /\ [Next]_vars => LCounts'
  <1> SUFFICES ASSUME LInv, LCounts, [Next]_vars PROVE LCounts'
    OBVIOUS
  <1>1. ASSUME NEW m \in Media, ReadContextFails(m) \/ InitializeFails(m) PROVE LCounts'
    <2>1. /\ task' = [task EXCEPT ![m] = "done"] /\ UNCHANGED <<counts, selected>>
          /\ CurrentState' \in {CurrentState, "Error"}
      BY <1>1 DEF ReadContextFails, InitializeFails, tracks, streams
    <2>2. \A n \in Media : IsOpening(n)' => IsOpening(n)
      BY <2>1 DEF IsOpening, LInv, LTypes
    <2> QED
      BY <2>1, <2>2 DEF LCounts, counts
  <1>2. ASSUME NEW m \in Media, InitializeBegins(m) PROVE LCounts'
    <2>1. /\ task[m] = "context" /\ task' = [task EXCEPT ![m] = "initializing"]
          /\ UNCHANGED <<counts, selected>> /\ CurrentState' = "Preparing"
      BY <1>2 DEF InitializeBegins
    <2>2. streamTotalNumber = 0
      BY <2>1 DEF LCounts, IsOpening
    <2> QED
      BY <2>1, <2>2 DEF LCounts, counts
  <1>3. ASSUME NEW m \in Media, InitializeEnds(m) PROVE LCounts'
    <2>1. /\ task[m] = "initializing" /\ task' = [task EXCEPT ![m] = "done"]
          /\ UNCHANGED <<currentOpenStreamNumber, selected, CurrentState>>
          /\ streamTotalNumber' = streamTotalNumber + Total
      BY <1>3 DEF InitializeEnds, Total, streams
    <2>2. streamTotalNumber' = Total
      BY <2>1, Sizes DEF LCounts, IsOpening
    <2>3. CurrentState # "Closed"
      BY <2>1 DEF LInv, LOpening
    <2>4. \A n \in Media : ~IsOpening(n)'
      BY <2>1 DEF LInv, LOpening, LTypes, IsOpening
    <2> QED
      BY <2>1, <2>2, <2>3, <2>4 DEF LCounts
  <1>4. CASE OpenClosed
    <2>1. UNCHANGED <<counts, selected, CurrentState>> /\ CurrentState = "Closed"
      BY <1>4 DEF OpenClosed, tracks, streams
    <2> QED
      BY <2>1 DEF LCounts, counts
  <1>5. CASE ShutdownBegins \/ JoinReadThread \/ CloseStream \/ CloseInput \/ JoinRenderThreads
    BY <1>5, CountsKept DEF ShutdownBegins, JoinReadThread, CloseStream, CloseInput, JoinRenderThreads, player, tracks, IsOpening, streams
  <1>7. CASE Reset
    <2>1. streamTotalNumber' = 0 /\ currentOpenStreamNumber' = 0 /\ selected' = {}
      BY <1>7 DEF Reset
    <2> QED
      BY <2>1, Sizes, FS_EmptySet DEF LCounts
  <1>8. ASSUME NEW k \in Kinds, SelectTrack(k) PROVE LCounts'
    <2>1. /\ k \notin selected /\ selected' = selected \cup {k}
          /\ currentOpenStreamNumber' = currentOpenStreamNumber + 1
          /\ UNCHANGED <<task, CurrentState, streamTotalNumber>>
      BY <1>8 DEF SelectTrack, MaySelect, player
    <2>2. selected' \subseteq Kinds /\ IsFiniteSet(selected)
      BY <2>1, Sizes DEF LCounts
    <2>3. Cardinality(selected') = Cardinality(selected) + 1 /\ Cardinality(selected') \in 0..Total
      BY <2>1, <2>2, Sizes, FS_AddElement
    <2> QED
      BY <2>1, <2>2, <2>3 DEF LCounts, IsOpening
  <1>9. ASSUME NEW k \in Kinds, DeselectTrack(k) PROVE LCounts'
    <2>1. /\ k \in selected /\ selected' = selected \ {k}
          /\ currentOpenStreamNumber' = currentOpenStreamNumber - 1
          /\ UNCHANGED <<task, CurrentState, streamTotalNumber>>
      BY <1>9 DEF DeselectTrack, MaySelect, StreamClose, player
    <2>2. selected' \subseteq Kinds /\ IsFiniteSet(selected) /\ Cardinality(selected) \in Nat
      BY <2>1, Sizes DEF LCounts
    <2>3. Cardinality(selected') = Cardinality(selected) - 1 /\ Cardinality(selected') \in 0..Total
      BY <2>1, <2>2, Sizes, FS_RemoveElement
    <2> QED
      BY <2>1, <2>2, <2>3 DEF LCounts, IsOpening
  <1>10. ASSUME NEW m \in Media, ReadThreadEnds(m) \/ ReadThreadReads(m) \/ PacketRead(m) PROVE LCounts'
    BY <1>10, CountsKept DEF ReadThreadEnds, ReadThreadReads, PacketRead, player, tracks, IsOpening, streams
  <1>11. ASSUME NEW k \in Kinds, NEW i \in 1..Len(render_threads[k]), RenderTurn(k, i) PROVE LCounts'
    BY <1>11, CountsKept DEF RenderTurn, player, tracks, IsOpening, streams
  <1>12. CASE PacketTaken
    BY <1>12, CountsKept DEF PacketTaken, player, IsOpening, streams
  <1>13. CASE UNCHANGED vars
    BY <1>13, CountsKept DEF vars, player, tracks, IsOpening, streams
  <1> QED
    BY <1>1, <1>2, <1>3, <1>4, <1>5, <1>7, <1>8, <1>9, <1>10, <1>11, <1>12, <1>13
       DEF Next, Task, User, Shutdown, Threads

ThreadStates == {"loop", "busy", "done"}

LEMMA RestKept ==
    ASSUME LRest, UNCHANGED <<opens, running, videoq_size, render_threads>>,
           open_streams' \subseteq open_streams, decoding' = decoding,
           ic' \in {ic} \cup 0..MaxOpens, read_tid' \in {read_tid} \cup 0..MaxOpens,
           CurrentState' \in {CurrentState, "Closed", "Preparing", "Error"}
    PROVE  LRest'
  BY DEF LRest

LEMMA RestNext == LFlags /\ LRest /\ [Next]_vars => LRest'
  <1> SUFFICES ASSUME LFlags, LRest, [Next]_vars PROVE LRest'
    OBVIOUS
  <1>1. ASSUME NEW m \in Media,
               ReadContextFails(m) \/ InitializeBegins(m) \/ InitializeFails(m) \/ InitializeEnds(m)
        PROVE  LRest'
    <2>1. m \in 0..MaxOpens
      BY Sizes DEF Media
    <2> QED
      BY <1>1, <2>1, RestKept
         DEF ReadContextFails, InitializeBegins, InitializeFails, InitializeEnds, tracks, streams
  <1>2. CASE OpenClosed
    BY <1>2, Sizes DEF OpenClosed, InitializePlayer, tracks, LRest, streams
  <1>3. CASE ShutdownBegins
    BY <1>3 DEF ShutdownBegins, LRest, streams
  <1>4. CASE JoinReadThread
    BY <1>4, RestKept DEF JoinReadThread, tracks, streams
  <1>5. CASE CloseInput
    BY <1>5, Sizes DEF CloseInput, LRest, streams
  <1>6. CASE Reset
    <2>1. reopen => opens < MaxOpens
      BY DEF LFlags
    <2>2. opens' \in 0..MaxOpens
      BY <1>6, <2>1, Sizes DEF Reset, InitializePlayer, LRest
    <2> QED
      BY <1>6, <2>2 DEF Reset, LRest
  <1>7. ASSUME NEW k \in Kinds, SelectTrack(k) PROVE LRest'
    <2>1. render_threads' \in [Kinds -> Seq(ThreadStates)]
      <3>1. render_threads \in [Kinds -> Seq(ThreadStates)] /\ "loop" \in ThreadStates
        BY DEF LRest, ThreadStates
      <3>2. Append(render_threads[k], "loop") \in Seq(ThreadStates)
        BY <3>1
      <3> QED
        BY <1>7, <3>1, <3>2, Zenon DEF SelectTrack
    <2>2. running' \subseteq Kinds
          /\ open_streams' \subseteq Kinds /\ decoding' \subseteq Kinds
          /\ UNCHANGED <<opens, ic, read_tid, CurrentState, videoq_size>>
      BY <1>7 DEF SelectTrack, LRest, player
    <2> QED
      BY <2>1, <2>2 DEF LRest, ThreadStates
  <1>8. ASSUME NEW k \in Kinds, DeselectTrack(k) PROVE LRest'
    BY <1>8 DEF DeselectTrack, StreamClose, LRest, player
  <1>9. CASE CloseStream
    BY <1>9 DEF CloseStream, StreamClose, LRest, player
  <1>10. CASE PacketTaken
    BY <1>10 DEF PacketTaken, LRest, player, streams
  <1>11. ASSUME NEW m \in Media, PacketRead(m) PROVE LRest'
    BY <1>11 DEF PacketRead, LRest, player, streams
  <1>12. ASSUME NEW m \in Media, ReadThreadEnds(m) \/ ReadThreadReads(m) PROVE LRest'
    BY <1>12, RestKept DEF ReadThreadEnds, ReadThreadReads, player, tracks, streams
  <1>13. ASSUME NEW k \in Kinds, NEW i \in 1..Len(render_threads[k]), RenderTurn(k, i) PROVE LRest'
    <2>1. PICK s \in ThreadStates : render_threads' = [render_threads EXCEPT ![k][i] = s]
      BY <1>13, Zenon DEF RenderTurn, ThreadStates
    <2>2. render_threads' \in [Kinds -> Seq(ThreadStates)]
      <3>1. render_threads \in [Kinds -> Seq(ThreadStates)]
        BY DEF LRest, ThreadStates
      <3>2. [render_threads[k] EXCEPT ![i] = s] \in Seq(ThreadStates)
        BY <3>1, ExceptSeq
      <3> QED
        BY <2>1, <3>1, <3>2, Zenon
    <2>3. UNCHANGED <<opens, ic, read_tid, CurrentState, videoq_size, running, open_streams, decoding>>
      BY <1>13 DEF RenderTurn, player, tracks, streams
    <2> QED
      BY <2>2, <2>3 DEF LRest, ThreadStates
  <1>14. CASE UNCHANGED vars
    BY <1>14, RestKept DEF vars, player, tracks, streams
  <1>15. CASE JoinRenderThreads
    BY <1>15, RestKept DEF JoinRenderThreads, streams
  <1> QED
    BY <1>1, <1>2, <1>3, <1>4, <1>5, <1>6, <1>7, <1>8, <1>9, <1>10, <1>11, <1>12, <1>13, <1>14, <1>15
       DEF Next, Task, User, Shutdown, Threads

\* The types of the player: in particular there are never more streams counted
\* as open than there are, and the streams of a media are counted once.
THEOREM PlayerTypes ==
    ASSUME LeftAlone
    PROVE  Spec => []TypeOK
  <1>1. LAll /\ [Next]_vars => LAll'
    BY LStep, CountsNext, FlagsNext, RestNext DEF LAll
  <1> QED
    BY <1>1, AllInit, AllIsTyped, PTL DEF Spec

-----------------------------------------------------------------------------
(***************************************************************************)
(* What Shutdown waits for first.  Nothing here needs LeftAlone: it holds  *)
(* however Open and Close overlap.                                         *)
(***************************************************************************)
ShutdownInv ==
    /\ read_thread \in [Media -> ReadThreadStates]
    /\ read_tid \in Media \cup {0}
    /\ abort_request = (game_pc # "idle")
    /\ read_tid # 0 => read_thread[read_tid] # "none"

LEMMA ShutdownInit == Init => ShutdownInv
  BY DEF Init, ShutdownInv, ReadThreadStates

LEMMA ShutdownStep == ShutdownInv /\ [Next]_vars => ShutdownInv'
  <1> SUFFICES ASSUME ShutdownInv, [Next]_vars PROVE ShutdownInv'
    OBVIOUS
  <1> USE DEF ShutdownInv, ReadThreadStates
  <1>1. ASSUME NEW m \in Media,
               ReadContextFails(m) \/ InitializeBegins(m) \/ InitializeFails(m)
        PROVE  ShutdownInv'
    BY <1>1 DEF ReadContextFails, InitializeBegins, InitializeFails, tracks, counts, streams
  <1>2. ASSUME NEW m \in Media, InitializeEnds(m) PROVE ShutdownInv'
    BY <1>2 DEF InitializeEnds, streams
  <1>3. CASE OpenClosed
    BY <1>3 DEF OpenClosed, tracks, streams
  <1>4. CASE ShutdownBegins
    BY <1>4 DEF ShutdownBegins, MayCall, counts, streams
  <1>5. CASE JoinReadThread
    BY <1>5 DEF JoinReadThread, tracks, streams
  <1>6. CASE CloseStream
    BY <1>6 DEF CloseStream, StreamClose, player
  <1>7. CASE CloseInput \/ JoinRenderThreads
    BY <1>7 DEF CloseInput, JoinRenderThreads, streams
  <1>8. CASE Reset
    BY <1>8 DEF Reset
  <1>9. ASSUME NEW k \in Kinds, SelectTrack(k) PROVE ShutdownInv'
    BY <1>9 DEF SelectTrack, player
  <1>10. ASSUME NEW k \in Kinds, DeselectTrack(k) PROVE ShutdownInv'
    BY <1>10 DEF DeselectTrack, StreamClose, player
  <1>11. ASSUME NEW m \in Media, ReadThreadEnds(m) \/ ReadThreadReads(m) PROVE ShutdownInv'
    BY <1>11 DEF ReadThreadEnds, ReadThreadReads, player, tracks, streams
  <1>12. ASSUME NEW m \in Media, PacketRead(m) PROVE ShutdownInv'
    BY <1>12 DEF PacketRead, player, streams
  <1>13. CASE PacketTaken
    BY <1>13 DEF PacketTaken, player, streams
  <1>14. ASSUME NEW k \in Kinds, NEW i \in 1..Len(render_threads[k]), RenderTurn(k, i)
         PROVE  ShutdownInv'
    BY <1>14 DEF RenderTurn, player, tracks, streams
  <1>15. CASE UNCHANGED vars
    BY <1>15 DEF vars, player, tracks, streams
  <1> QED
    BY <1>1, <1>2, <1>3, <1>4, <1>5, <1>6, <1>7, <1>8, <1>9, <1>10, <1>11, <1>12, <1>13, <1>14,
       <1>15 DEF Next, Task, User, Shutdown, Threads

\* Shutdown waits for a read thread that exists and has been told to end.
ReaderIsTold ==
    game_pc = "join" => abort_request /\ (read_tid # 0 => read_thread[read_tid] # "none")

\* Steps a read thread has before it at most once it is told to end.
TurnsLeft(place) == CASE place = "read" -> 2 [] place = "loop" -> 1 [] OTHER -> 0

\* During a Shutdown a read thread only comes nearer to its end.
ReaderNearer ==
    \A m \in Media :
        game_pc # "idle" /\ (ReadThreadEnds(m) \/ ReadThreadReads(m) \/ PacketRead(m))
            => TurnsLeft(read_thread'[m]) < TurnsLeft(read_thread[m])

\* The join of Shutdown ends: the read thread is told to end before it is waited
\* for, reads no more than the packet it has begun, and never goes back.
THEOREM ReadThreadIsJoined == Spec => []ReaderIsTold /\ [][ReaderNearer]_vars
  <1>1. ShutdownInv => ReaderIsTold
    BY Zenon DEF ShutdownInv, ReaderIsTold
  <1>2. ShutdownInv /\ [Next]_vars => [ReaderNearer]_vars
    <2> SUFFICES ASSUME ShutdownInv, NEW m \in Media, game_pc # "idle",
                        ReadThreadEnds(m) \/ ReadThreadReads(m) \/ PacketRead(m)
                 PROVE  TurnsLeft(read_thread'[m]) < TurnsLeft(read_thread[m])
      BY DEF ReaderNearer
    <2>1. CASE ReadThreadEnds(m)
      BY <2>1 DEF ReadThreadEnds, ShutdownInv, TurnsLeft
    <2>2. CASE ReadThreadReads(m)
      BY <2>2 DEF ReadThreadReads, ShutdownInv
    <2>3. CASE PacketRead(m)
      BY <2>3 DEF PacketRead, ShutdownInv, TurnsLeft, streams
    <2> QED
      BY <2>1, <2>2, <2>3
  <1> QED
    BY <1>1, <1>2, ShutdownInit, ShutdownStep, PTL DEF Spec

-----------------------------------------------------------------------------
(***************************************************************************)
(* What Shutdown does not wait for.  The video packet queue has nothing in *)
(* it unless the stream is open, since closing the stream flushes it.      *)
(***************************************************************************)
EmptyWithoutStream ==
    /\ "video" \notin open_streams => videoq_size = 0
    /\ ~destroying

LEMMA EmptyStep == LInv /\ EmptyWithoutStream /\ [Next]_vars => EmptyWithoutStream'
  <1> SUFFICES ASSUME LInv, EmptyWithoutStream, [Next]_vars PROVE EmptyWithoutStream'
    OBVIOUS
  <1>1. ASSUME UNCHANGED <<open_streams, videoq_size, destroying>> PROVE EmptyWithoutStream'
    BY <1>1 DEF EmptyWithoutStream
  <1>2. ASSUME NEW m \in Media, InitializeBegins(m) PROVE EmptyWithoutStream'
    <2>1. open_streams = {}
      BY <1>2 DEF InitializeBegins, LInv, LOpening, LStreams, IsOpening, Quiet
    <2> QED
      BY <1>2, <2>1 DEF InitializeBegins, EmptyWithoutStream
  <1>3. ASSUME NEW m \in Media, ReadContextFails(m) \/ InitializeFails(m) \/ InitializeEnds(m)
        PROVE  EmptyWithoutStream'
    BY <1>1, <1>3 DEF ReadContextFails, InitializeFails, InitializeEnds, tracks, streams
  <1>4. CASE OpenClosed \/ ShutdownBegins \/ JoinReadThread \/ Reset
    BY <1>1, <1>4 DEF OpenClosed, ShutdownBegins, JoinReadThread, Reset, tracks, streams
  <1>5. CASE CloseStream
    BY <1>5 DEF CloseStream, StreamClose, EmptyWithoutStream
  <1>6. CASE CloseInput
    <2>1. videoq_size = 0 /\ videoq_size' = 0
      BY <1>6 DEF CloseInput, EmptyWithoutStream
    <2>2. destroying' = (videoq_size > 0) /\ ~(videoq_size > 0)
      BY <1>6, <2>1 DEF CloseInput
    <2> QED
      BY <2>1, <2>2, Zenon DEF EmptyWithoutStream
  <1>7. CASE JoinRenderThreads
    BY <1>7 DEF JoinRenderThreads, EmptyWithoutStream, streams
  <1>8. ASSUME NEW k \in Kinds, SelectTrack(k) PROVE EmptyWithoutStream'
    BY <1>8 DEF SelectTrack, EmptyWithoutStream
  <1>9. ASSUME NEW k \in Kinds, DeselectTrack(k) PROVE EmptyWithoutStream'
    BY <1>9 DEF DeselectTrack, StreamClose, EmptyWithoutStream
  <1>10. ASSUME NEW m \in Media, ReadThreadEnds(m) \/ ReadThreadReads(m) PROVE EmptyWithoutStream'
    BY <1>1, <1>10 DEF ReadThreadEnds, ReadThreadReads, tracks, streams
  <1>11. ASSUME NEW m \in Media, PacketRead(m) PROVE EmptyWithoutStream'
    BY <1>11 DEF PacketRead, EmptyWithoutStream, streams
  <1>12. CASE PacketTaken
    BY <1>12 DEF PacketTaken, EmptyWithoutStream, streams
  <1>13. ASSUME NEW k \in Kinds, NEW i \in 1..Len(render_threads[k]), RenderTurn(k, i)
         PROVE  EmptyWithoutStream'
    BY <1>1, <1>13 DEF RenderTurn, tracks, streams
  <1>14. CASE UNCHANGED vars
    BY <1>1, <1>14 DEF vars, tracks, streams
  <1> QED
    BY <1>2, <1>3, <1>4, <1>5, <1>6, <1>7, <1>8, <1>9, <1>10, <1>11, <1>12, <1>13, <1>14
       DEF Next, Task, User, Shutdown, Threads

\* Shutdown never runs the block that destroys the queues and waits for the
\* display thread and the audio thread.
NothingToDestroy == ~destroying

\* As long as an Open is left to finish that block is dead code, whatever the
\* media, the tracks and what the threads were doing: the video packet queue it
\* tests has been flushed with its stream.  So no Shutdown can hang on a rendering
\* thread, and none waits for one to end, which is what lets tracks_reopen find two
\* display threads.  An Initialize that runs into a media that is still open
\* forgets its streams, and then the block does run.
THEOREM DestroyNeverRuns ==
    ASSUME LeftAlone
    PROVE  Spec => []NothingToDestroy
  <1>1. Init => EmptyWithoutStream
    BY DEF Init, EmptyWithoutStream
  <1>2. EmptyWithoutStream => NothingToDestroy
    BY DEF EmptyWithoutStream, NothingToDestroy
  <1> QED
    BY <1>1, <1>2, LInit, LStep, EmptyStep, PTL DEF Spec

-----------------------------------------------------------------------------
(***************************************************************************)
(* The read thread reads nothing until as many streams are open as were    *)
(* counted.  A count left over from the media before would hold it up for  *)
(* ever.                                                                   *)
(***************************************************************************)
\* A media that is open has its read thread.
ReaderIsThere ==
    CurrentState = "Preparing" /\ LockFree /\ game_pc = "idle"
        => read_tid # 0 /\ ReadThreadAlive(read_tid)

LEMMA ReaderKept ==
    ASSUME ReaderIsThere, UNCHANGED <<CurrentState, task, game_pc, read_tid, read_thread>>
    PROVE  ReaderIsThere'
  BY DEF ReaderIsThere, LockFree, ReadThreadAlive

LEMMA ReaderStep == LInv /\ ShutdownInv /\ ReaderIsThere /\ [Next]_vars => ReaderIsThere'
  <1> SUFFICES ASSUME LInv, ShutdownInv, ReaderIsThere, [Next]_vars PROVE ReaderIsThere'
    OBVIOUS
  <1>1. ASSUME NEW m \in Media, ReadContextFails(m) PROVE ReaderIsThere'
    BY <1>1 DEF ReadContextFails, tracks, LInv, LOpening, ReaderIsThere, streams
  <1>2. ASSUME NEW m \in Media, InitializeBegins(m) PROVE ReaderIsThere'
    <2>1. task'[m] = "initializing"
      BY <1>2 DEF InitializeBegins, LInv, LTypes
    <2> QED
      BY <2>1 DEF ReaderIsThere, LockFree
  <1>3. ASSUME NEW m \in Media, InitializeFails(m) PROVE ReaderIsThere'
    BY <1>3 DEF InitializeFails, ReaderIsThere, streams
  <1>4. ASSUME NEW m \in Media, InitializeEnds(m) PROVE ReaderIsThere'
    <2>1. read_tid' = m /\ read_thread'[m] = "loop" /\ m # 0
      BY <1>4 DEF InitializeEnds, LInv, LTypes, Media, streams
    <2> QED
      BY <2>1 DEF ReaderIsThere, ReadThreadAlive
  <1>5. CASE OpenClosed
    BY <1>5 DEF OpenClosed, tracks, ReaderIsThere, streams
  <1>6. CASE ShutdownBegins \/ JoinReadThread \/ CloseInput \/ JoinRenderThreads
    BY <1>6 DEF ShutdownBegins, JoinReadThread, CloseInput, JoinRenderThreads, ReaderIsThere, streams
  <1>7. CASE Reset
    BY <1>7 DEF Reset, ReaderIsThere
  <1>8. ASSUME NEW k \in Kinds, SelectTrack(k) \/ DeselectTrack(k) PROVE ReaderIsThere'
    BY <1>8, ReaderKept DEF SelectTrack, DeselectTrack, player
  <1>9. CASE CloseStream \/ PacketTaken
    BY <1>9, ReaderKept DEF CloseStream, PacketTaken, player, streams
  <1>10. ASSUME NEW m \in Media, ReadThreadEnds(m) PROVE ReaderIsThere'
    BY <1>10 DEF ReadThreadEnds, player, ShutdownInv, ReaderIsThere
  <1>11. ASSUME NEW m \in Media, ReadThreadReads(m) \/ PacketRead(m) PROVE ReaderIsThere'
    <2>1. /\ UNCHANGED <<CurrentState, task, game_pc, read_tid>>
          /\ ReadThreadAlive(m)' /\ \A n \in Media : n # m => read_thread'[n] = read_thread[n]
      BY <1>11 DEF ReadThreadReads, PacketRead, player, tracks, ReadThreadAlive, LInv, LTypes, streams
    <2>2. read_tid \in Media \cup {0}
      BY DEF ShutdownInv
    <2> QED
      BY <2>1, <2>2 DEF ReaderIsThere, LockFree, ReadThreadAlive
  <1>12. ASSUME NEW k \in Kinds, NEW i \in 1..Len(render_threads[k]), RenderTurn(k, i)
         PROVE  ReaderIsThere'
    BY <1>12, ReaderKept DEF RenderTurn, player, tracks, streams
  <1>13. CASE UNCHANGED vars
    BY <1>13, ReaderKept DEF vars, player, tracks, streams
  <1> QED
    BY <1>1, <1>2, <1>3, <1>4, <1>5, <1>6, <1>7, <1>8, <1>9, <1>10, <1>11, <1>12, <1>13
       DEF Next, Task, User, Shutdown, Threads

\* Nothing holds the read thread up once all tracks of its media are selected.
ReaderMayRead ==
    CurrentState = "Preparing" /\ LockFree /\ game_pc = "idle" /\ selected = Kinds =>
        /\ read_tid # 0 /\ ReadThreadAlive(read_tid)
        /\ ~abort_request /\ currentOpenStreamNumber >= streamTotalNumber

\* Whatever was opened, selected and closed before, a media whose tracks are all
\* selected has a read thread, which finds as many streams open as were counted.
THEOREM SelectedMayBeRead ==
    ASSUME LeftAlone
    PROVE  Spec => []ReaderMayRead
  <1>1. Init => ReaderIsThere
    BY DEF Init, ReaderIsThere
  <1>2. LInv /\ LCounts /\ ShutdownInv /\ ReaderIsThere => ReaderMayRead
    <2> SUFFICES ASSUME LCounts, ShutdownInv, ReaderIsThere, CurrentState = "Preparing", LockFree,
                        game_pc = "idle", selected = Kinds
                 PROVE  /\ read_tid # 0 /\ ReadThreadAlive(read_tid)
                        /\ ~abort_request /\ currentOpenStreamNumber >= streamTotalNumber
      BY DEF ReaderMayRead
    <2>1. currentOpenStreamNumber = Total /\ Total \in Nat /\ streamTotalNumber \in {0, Total}
      BY Sizes DEF LCounts, Total
    <2>2. ~abort_request
      BY Zenon DEF ShutdownInv
    <2> QED
      BY <2>1, <2>2 DEF ReaderIsThere
  <1>3. LInv /\ LCounts /\ [Next]_vars => LInv' /\ LCounts'
    BY LStep, CountsNext
  <1>4. Init => LInv /\ LCounts
    BY AllInit DEF LAll
  <1> QED
    BY <1>1, <1>2, <1>3, <1>4, ReaderStep, ShutdownInit, ShutdownStep, PTL DEF Spec
=============================================================================
