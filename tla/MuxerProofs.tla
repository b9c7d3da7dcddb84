----------------------------- MODULE MuxerProofs -----------------------------
(***************************************************************************)
(* Theorems about Muxer: the file keeps the promise of MediaFile, images   *)
(* stay with the sound, and the audio codec is flushed, for any numbers of *)
(* frames, any durations and any delay of the encoders.                    *)
(***************************************************************************)
EXTENDS Muxer, SequenceTheorems, TLAPS

-----------------------------------------------------------------------------
(***************************************************************************)
(* Sequences of numbers as sets in order.                                  *)
(***************************************************************************)
Elems(s) == {s[i] : i \in 1..Len(s)}

Sorted(s) == \A i, j \in 1..Len(s) : i < j => s[i] < s[j]

Before(S, T) == \A x \in S, y \in T : x < y

LEMMA AppendFrame ==
    ASSUME NEW s \in Seq(Nat), NEW n \in Nat
    PROVE  /\ Append(s, n) \in Seq(Nat)
           /\ Append(s, n) # <<>>
           /\ Len(Append(s, n)) = Len(s) + 1
           /\ Elems(Append(s, n)) = Elems(s) \cup {n}
           /\ Sorted(s) /\ Before(Elems(s), {n}) => Sorted(Append(s, n))
  <1>1. /\ Append(s, n) \in Seq(Nat)
        /\ Append(s, n) # <<>>
        /\ Len(Append(s, n)) = Len(s) + 1
        /\ Len(s) \in Nat
        /\ \A i \in 1..Len(s) : Append(s, n)[i] = s[i] /\ s[i] \in Nat
        /\ Append(s, n)[Len(s) + 1] = n
    BY AppendProperties, ElementOfSeq
  <1> DEFINE t == Append(s, n)
  <1> HIDE DEF t
  <1>2. Elems(t) = Elems(s) \cup {n}
    BY <1>1 DEF Elems, t
  <1>3. Sorted(s) /\ Before(Elems(s), {n}) => Sorted(t)
    <2> SUFFICES ASSUME Sorted(s), Before(Elems(s), {n}),
                        NEW i \in 1..Len(t), NEW j \in 1..Len(t), i < j
                 PROVE  t[i] < t[j]
      BY DEF Sorted
    <2>1. i \in 1..Len(s) /\ t[i] = s[i]
      BY <1>1 DEF t
    <2>2. CASE j \in 1..Len(s)
      BY <1>1, <2>1, <2>2 DEF Sorted, t
    <2>3. CASE j = Len(s) + 1
      BY <1>1, <2>1, <2>3 DEF Before, Elems, t
    <2> QED
      BY <1>1, <2>2, <2>3 DEF t
  <1> QED
    BY <1>1, <1>2, <1>3 DEF t

LEMMA TakeFrame ==
    ASSUME NEW s \in Seq(Nat), s # <<>>
    PROVE  /\ Head(s) \in Nat
           /\ Tail(s) \in Seq(Nat)
           /\ Len(s) = Len(Tail(s)) + 1
           /\ Len(Tail(s)) \in Nat
           /\ Elems(s) = {Head(s)} \cup Elems(Tail(s))
           /\ Sorted(s) => Sorted(Tail(s)) /\ Before({Head(s)}, Elems(Tail(s)))
  <1>1. /\ Head(s) \in Nat /\ Head(s) = s[1]
        /\ Tail(s) \in Seq(Nat)
        /\ Len(s) \in Nat /\ Len(s) > 0
        /\ Len(Tail(s)) = Len(s) - 1
        /\ \A i \in 1..Len(Tail(s)) : Tail(s)[i] = s[i + 1]
        /\ \A i \in 1..Len(s) : s[i] \in Nat
    BY HeadTailProperties, ElementOfSeq, EmptySeq, LenProperties
  <1> DEFINE t == Tail(s)
  <1> HIDE DEF t
  <1>2. Elems(s) = {Head(s)} \cup Elems(t)
    <2>1. ASSUME NEW i \in 1..Len(s) PROVE s[i] \in {Head(s)} \cup Elems(t)
      <3>1. CASE i = 1
        BY <3>1, <1>1
      <3>2. CASE i # 1
        <4>1. i - 1 \in 1..Len(t) /\ t[i - 1] = s[i]
          BY <3>2, <1>1 DEF t
        <4> QED
          BY <4>1 DEF Elems
      <3> QED
        BY <3>1, <3>2
    <2>2. ASSUME NEW i \in 1..Len(t) PROVE t[i] \in Elems(s)
      <3>1. i + 1 \in 1..Len(s) /\ t[i] = s[i + 1]
        BY <1>1 DEF t
      <3> QED
        BY <3>1 DEF Elems
    <2>3. Head(s) \in Elems(s)
      BY <1>1 DEF Elems
    <2> QED
      BY <2>1, <2>2, <2>3 DEF Elems
  <1>3. Sorted(s) => Sorted(t) /\ Before({Head(s)}, Elems(t))
    <2> SUFFICES ASSUME Sorted(s)
                 PROVE  Sorted(t) /\ Before({Head(s)}, Elems(t))
      OBVIOUS
    <2>1. ASSUME NEW i \in 1..Len(t), NEW j \in 1..Len(t), i < j
          PROVE  t[i] < t[j]
      BY <2>1, <1>1 DEF Sorted, t
    <2>2. ASSUME NEW i \in 1..Len(t)
          PROVE  Head(s) < t[i]
      BY <1>1 DEF Sorted, t
    <2> QED
      BY <2>1, <2>2 DEF Sorted, Before, Elems
  <1> QED
    BY <1>1, <1>2, <1>3 DEF t

-----------------------------------------------------------------------------
(***************************************************************************)
(* Types, and who is where.  A thread that has ended never comes back, and *)
(* the trailer is written when both have.                                  *)
(***************************************************************************)
\* A frame is in hand exactly while it is being encoded.
MHand == \A k \in Streams : pc[k] # "encode" => hand[k] = 0

MPlaces ==
    /\ closed <=> stop_pc \in {"trailer", "stopped"}
    /\ stop_pc \in {"join_video", "trailer", "stopped"} => pc["audio"] = "done"
    /\ closed => pc["video"] = "done"

MTypes == TypeOK /\ MHand /\ MPlaces

LEMMA TypesInit == Init => MTypes
  <1> SUFFICES ASSUME Init
               PROVE  MTypes
    OBVIOUS
  <1>1. <<>> \in Seq(Nat) /\ Len(<<>>) = 0
    BY EmptySeq
  <1>2. \A k \in Streams : /\ fed[k] = 0 /\ Len(codec[k]) = 0 /\ pc[k] = "loop" /\ hand[k] = 0
                            /\ 0 <= MaxFed[k] /\ 0 <= Delay
    BY <1>1, MuxerAssumption DEF Init
  <1>3. TypeOK
    BY <1>1, <1>2 DEF Init, TypeOK
  <1>4. MHand /\ MPlaces
    BY <1>2 DEF Init, MHand, MPlaces
  <1> QED
    BY <1>3, <1>4 DEF MTypes

\* What every step of an encoder thread k, on its way to p, leaves alone.
ThreadStep(k, p) ==
    /\ pc[k] # "done"
    /\ p \in {"loop", "read", "wait", "encode", "drain", "flush", "flushing", "done"}
    /\ pc' = [pc EXCEPT ![k] = p]
    /\ UNCHANGED <<synced, fed, ending, exit, stopping>>
    /\ \A m \in Streams \ {k} : codec'[m] = codec[m] /\ hand'[m] = hand[m]

LEMMA ThreadKeepsTypes ==
    ASSUME MTypes, NEW k \in Streams, NEW p, ThreadStep(k, p),
           error_code' \in BOOLEAN,
           queue' \in [Streams -> Seq(Nat)],
           codec' \in [Streams -> Seq(Nat)],
           file' \in [Streams -> Seq(Nat)],
           hand' \in [Streams -> Nat],
           pts' \in [Streams -> Nat],
           p # "encode" => hand'[k] = 0,
           p \in {"loop", "read", "wait", "encode"} => Len(codec'[k]) <= Delay,
           p = "drain" => Len(codec'[k]) <= Delay + 1
    PROVE  MTypes'
  <1>1. \A m \in Streams : pc'[m] = IF m = k THEN p ELSE pc[m]
    BY DEF MTypes, TypeOK, ThreadStep
  <1>2. pc' \in [Streams -> {"loop", "read", "wait", "encode", "drain", "flush", "flushing", "done"}]
    BY DEF MTypes, TypeOK, ThreadStep
  <1>3. TypeOK'
    BY <1>1, <1>2 DEF MTypes, TypeOK, stopping, ThreadStep
  <1>4. MHand'
    BY <1>1 DEF MTypes, MHand, ThreadStep
  <1>5. MPlaces'
    BY <1>1 DEF MTypes, MPlaces, stopping, Streams, ThreadStep
  <1> QED
    BY <1>3, <1>4, <1>5 DEF MTypes

\* A thread that waits is woken: by a frame, or by stop().
LEMMA NotifyKeepsTypes ==
    ASSUME MTypes, NEW k \in Streams, Notify(k),
           UNCHANGED <<synced, exit, hand, codec, pts, error_code, audio_eof, file, closed>>,
           queue' \in [Streams -> Seq(Nat)],
           ending' \in [Streams -> BOOLEAN],
           wait_end' \in BOOLEAN,
           fed' \in [Streams -> Nat], \A m \in Streams : fed'[m] <= MaxFed[m],
           \/ stop_pc' = stop_pc
           \/ stop_pc = "idle" /\ stop_pc' = "video"
           \/ stop_pc = "video" /\ stop_pc' = "eof"
    PROVE  MTypes'
  <1>1. /\ pc' \in [Streams -> {"loop", "read", "wait", "encode", "drain", "flush",
                                "flushing", "done"}]
        /\ \A m \in Streams : pc'[m] = pc[m] \/ (pc[m] = "wait" /\ pc'[m] = "read")
    BY DEF Notify, MTypes, TypeOK
  <1>2. TypeOK'
    BY <1>1 DEF MTypes, TypeOK
  <1>3. MHand' /\ MPlaces'
    BY <1>1 DEF MTypes, MHand, MPlaces, Streams
  <1> QED
    BY <1>2, <1>3 DEF MTypes

\* The head of the loop, the end of the queue and the end of the codec.
MoveOn(k) == \/ Wait(k) \/ Drained(k) \/ Flush(k) \/ FlushFails(k)
             \/ k = "audio" /\ (AudioLeave \/ AudioGoesOn \/ AudioEnds)
             \/ k = "video" /\ (VideoLeave \/ VideoGoesOn \/ VideoEnds)

LEMMA MoveOnIs ==
    ASSUME MTypes, NEW k \in Streams, MoveOn(k)
    PROVE  /\ \E p \in {"loop", "read", "wait", "flush", "flushing", "done"} :
                 /\ ThreadStep(k, p)
                 /\ p \in {"loop", "read", "wait"} => Len(codec[k]) <= Delay
           /\ UNCHANGED <<queue, codec, hand, pts, file>>
           /\ error_code' \in {error_code, TRUE}
           /\ pc[k] # "encode"
  BY DEF MoveOn, Wait, Drained, Flush, FlushFails, AudioLeave, AudioGoesOn, AudioEnds,
         VideoLeave, VideoGoesOn, VideoEnds, Leave, Goto, ThreadStep, MTypes, TypeOK, Streams,
         stopping

LEMMA TypesStep == MTypes /\ [Next]_vars => MTypes'
  <1> SUFFICES ASSUME MTypes, [Next]_vars
               PROVE  MTypes'
    OBVIOUS
  <1>0. /\ codec \in [Streams -> Seq(Nat)] /\ queue \in [Streams -> Seq(Nat)]
        /\ file \in [Streams -> Seq(Nat)]
        /\ hand \in [Streams -> Nat] /\ pts \in [Streams -> Nat]
        /\ error_code \in BOOLEAN
        /\ \A k \in Streams : pc[k] # "encode" => hand[k] = 0
    BY DEF MTypes, TypeOK, MHand
  <1>1. ASSUME NEW k \in Streams, MoveOn(k) PROVE MTypes'
    <2>1. PICK p \in {"loop", "read", "wait", "flush", "flushing", "done"} :
              /\ ThreadStep(k, p)
              /\ p \in {"loop", "read", "wait"} => Len(codec[k]) <= Delay
      BY <1>1, MoveOnIs
    <2>2. /\ UNCHANGED <<queue, codec, hand, pts, file>>
          /\ error_code' \in {error_code, TRUE} /\ pc[k] # "encode"
      BY <1>1, MoveOnIs
    <2> QED
      BY <1>0, <2>1, <2>2, ThreadKeepsTypes
  <1>2. ASSUME NEW k \in Streams, Take(k) PROVE MTypes'
    <2>1. /\ ThreadStep(k, "encode")
          /\ queue' \in [Streams -> Seq(Nat)] /\ hand' \in [Streams -> Nat]
          /\ UNCHANGED <<codec, pts, error_code, file>>
          /\ Len(codec[k]) <= Delay
      BY <1>0, <1>2, TakeFrame DEF Take, Goto, ThreadStep, MTypes, TypeOK, stopping
    <2> QED
      BY <1>0, <2>1, ThreadKeepsTypes
  <1>3. ASSUME NEW k \in Streams, Send(k) PROVE MTypes'
    <2>1. /\ codec' \in [Streams -> Seq(Nat)]
          /\ \A m \in Streams : m # k => codec'[m] = codec[m]
          /\ Len(codec'[k]) = Len(codec[k]) + 1 /\ Len(codec[k]) \in Nat
          /\ Len(codec[k]) <= Delay
      BY <1>0, <1>3, AppendFrame, LenProperties DEF Send, MTypes, TypeOK
    <2>2. /\ ThreadStep(k, "drain")
          /\ hand' \in [Streams -> Nat] /\ hand'[k] = 0 /\ pts' \in [Streams -> Nat]
          /\ UNCHANGED <<queue, error_code, file>>
      BY <1>0, <1>3, <2>1 DEF Send, Goto, ThreadStep, stopping
    <2>3. Len(codec'[k]) <= Delay + 1
      BY <2>1, MuxerAssumption
    <2> QED
      BY <1>0, <2>1, <2>2, <2>3, ThreadKeepsTypes
  <1>4. ASSUME NEW k \in Streams, Skip(k) \/ SendFails(k) PROVE MTypes'
    <2>1. /\ pc[k] = "encode"
          /\ hand' = [hand EXCEPT ![k] = 0] /\ pts' \in [Streams -> Nat]
          /\ UNCHANGED <<synced, fed, ending, exit, stopping, queue, codec, file>>
          /\ error_code' \in {error_code, TRUE}
      <3>1. pts[k] + 1 \in Nat
        BY <1>0
      <3>2. CASE Skip(k)
        BY <1>0, <3>1, <3>2 DEF Skip
      <3>3. CASE SendFails(k)
        BY <1>0, <3>1, <3>3 DEF SendFails
      <3> QED
        BY <1>4, <3>2, <3>3
    <2>2. PICK p \in {"loop", "flush", "done"} : pc' = [pc EXCEPT ![k] = p]
      BY <1>4 DEF Skip, SendFails, Leave, Goto
    <2>3. ThreadStep(k, p) /\ hand' \in [Streams -> Nat] /\ hand'[k] = 0
      BY <1>0, <2>1, <2>2 DEF ThreadStep
    <2>4. Len(codec[k]) <= Delay
      BY <2>1 DEF MTypes, TypeOK
    <2> QED
      BY <1>0, <2>1, <2>3, <2>4, ThreadKeepsTypes
  <1>5. ASSUME NEW k \in Streams, WritePacket(k) \/ WriteFails(k) PROVE MTypes'
    <2>1. /\ codec' \in [Streams -> Seq(Nat)]
          /\ \A m \in Streams : m # k => codec'[m] = codec[m]
          /\ Len(codec[k]) = Len(codec'[k]) + 1 /\ Len(codec'[k]) \in Nat
      <3>1. codec[k] # <<>> /\ codec' = [codec EXCEPT ![k] = Tail(@)]
        BY <1>5 DEF WritePacket, WriteFails
      <3>2. codec[k] \in Seq(Nat)
        BY <1>0
      <3>3. Tail(codec[k]) \in Seq(Nat) /\ Len(Tail(codec[k])) \in Nat
            /\ Len(codec[k]) = Len(Tail(codec[k])) + 1
        BY <3>1, <3>2, TakeFrame
      <3> QED
        BY <1>0, <3>1, <3>3
    <2>2. file' \in [Streams -> Seq(Nat)]
      <3>1. CASE WriteFails(k)
        BY <1>0, <3>1 DEF WriteFails
      <3>2. CASE WritePacket(k)
        <4>1. Head(codec[k]) \in Nat /\ file[k] \in Seq(Nat)
          BY <1>0, <3>2, TakeFrame DEF WritePacket
        <4>2. Append(file[k], Head(codec[k])) \in Seq(Nat)
          BY <4>1, AppendFrame
        <4> QED
          BY <1>0, <3>2, <4>2 DEF WritePacket
      <3> QED
        BY <1>5, <3>1, <3>2
    <2>3. pc[k] = "drain" => Len(codec'[k]) <= Delay
      BY <2>1, MuxerAssumption DEF MTypes, TypeOK
    <2>4. PICK p \in {"drain", "flushing", "loop", "done"} :
            /\ ThreadStep(k, p)
            /\ UNCHANGED <<queue, hand, pts>> /\ error_code' \in {error_code, TRUE}
            /\ pc[k] # "encode"
            /\ p \in {"drain", "loop"} => pc[k] = "drain"
      BY <1>0, <1>5, <2>1, ZenonT(30)
         DEF WritePacket, WriteFails, Goto, ThreadStep, stopping, MTypes, TypeOK
    <2>5. p = "drain" => Len(codec'[k]) <= Delay + 1
      BY <2>1, <2>3, <2>4, MuxerAssumption
    <2> QED
      BY <1>0, <2>1, <2>2, <2>3, <2>4, <2>5, ThreadKeepsTypes
  <1>6. ASSUME NEW k \in Streams, Feed(k) PROVE MTypes'
    <2>1. queue[k] \in Seq(Nat) /\ fed[k] + 1 \in Nat
      BY <1>0 DEF MTypes, TypeOK
    <2>2. Append(queue[k], fed[k] + 1) \in Seq(Nat)
      BY <2>1, AppendFrame
    <2>3. queue' \in [Streams -> Seq(Nat)]
      BY <1>0, <1>6, <2>2 DEF Feed
    <2>4. /\ fed' = [fed EXCEPT ![k] = @ + 1] /\ fed[k] < MaxFed[k]
          /\ UNCHANGED <<synced, ending, exit, hand, codec, pts, error_code, stopping, file>>
          /\ Notify(k)
      BY <1>6 DEF Feed
    <2>5. fed' \in [Streams -> Nat] /\ \A m \in Streams : fed'[m] <= MaxFed[m]
      <3>1. /\ fed \in [Streams -> Nat] /\ MaxFed \in [Streams -> Nat]
            /\ \A m \in Streams : fed[m] <= MaxFed[m]
        BY MuxerAssumption DEF MTypes, TypeOK
      <3>2. \A m \in Streams : fed'[m] = IF m = k THEN fed[k] + 1 ELSE fed[m]
        BY <2>4, <3>1
      <3>3. fed[k] + 1 <= MaxFed[k]
        BY <2>4, <3>1
      <3> QED
        BY <2>1, <2>4, <3>1, <3>2, <3>3
    <2>6. ending \in [Streams -> BOOLEAN] /\ wait_end \in BOOLEAN
      BY DEF MTypes, TypeOK
    <2>7. UNCHANGED <<audio_eof, stop_pc, wait_end, closed>>
      BY <2>4 DEF stopping
    <2> QED
      BY <2>3, <2>4, <2>5, <2>6, <2>7, NotifyKeepsTypes
  <1>13. CASE StopBegins
    <2>1. EndQueue("audio") /\ "audio" \in Streams
      BY <1>13 DEF StopBegins, Streams
    <2>2. ending' \in [Streams -> BOOLEAN] /\ Notify("audio")
      BY <2>1 DEF EndQueue, MTypes, TypeOK
    <2>3. /\ wait_end' \in BOOLEAN /\ stop_pc' = "video" /\ stop_pc = "idle"
          /\ UNCHANGED <<synced, fed, queue, exit, hand, codec, pts, error_code, audio_eof, file, closed>>
      BY <1>13, MuxerAssumption DEF StopBegins
    <2> QED
      BY <1>0, <2>1, <2>2, <2>3, NotifyKeepsTypes DEF MTypes, TypeOK, MPlaces
  <1>14. CASE StopVideo
    <2>1. EndQueue("video") /\ "video" \in Streams
      BY <1>14 DEF StopVideo, Streams
    <2>2. ending' \in [Streams -> BOOLEAN] /\ Notify("video")
      BY <2>1 DEF EndQueue, MTypes, TypeOK
    <2>3. /\ stop_pc' = "eof" /\ stop_pc = "video"
          /\ UNCHANGED <<synced, fed, queue, exit, hand, codec, pts, error_code, audio_eof, wait_end,
                         file, closed>>
      BY <1>14 DEF StopVideo
    <2> QED
      BY <1>0, <2>1, <2>2, <2>3, NotifyKeepsTypes DEF MTypes, TypeOK, MPlaces
  <1>7. CASE StopEof \/ ExitAudio \/ JoinAudio \/ JoinVideo
    <2>1. TypeOK'
      BY <1>7 DEF StopEof, ExitAudio, JoinAudio, JoinVideo, threads, MTypes, TypeOK
    <2>2. MHand' /\ MPlaces'
      BY <1>7 DEF StopEof, ExitAudio, JoinAudio, JoinVideo, threads, MTypes, TypeOK, MHand, MPlaces
    <2> QED
      BY <2>1, <2>2 DEF MTypes
  <1>8. CASE CleanupReset
    <2>1. codec' \in [Streams -> Seq(Nat)] /\ \A k \in Streams : Len(codec'[k]) = 0
      BY <1>8, EmptySeq DEF CleanupReset
    <2>2. /\ ending' \in [Streams -> BOOLEAN] /\ pts' \in [Streams -> Nat]
          /\ error_code' = FALSE /\ audio_eof' = FALSE /\ stop_pc' = "stopped"
          /\ stop_pc = "trailer" /\ synced' = FALSE
          /\ UNCHANGED <<fed, queue, pc, exit, hand, wait_end, file, closed>>
      BY <1>8 DEF CleanupReset, MTypes, TypeOK
    <2>3. 0 <= Delay /\ 0 <= Delay + 1
      BY MuxerAssumption
    <2>4. TypeOK'
      BY <2>1, <2>2, <2>3 DEF MTypes, TypeOK
    <2>5. MHand' /\ MPlaces'
      BY <2>2 DEF MTypes, MHand, MPlaces
    <2> QED
      BY <2>4, <2>5 DEF MTypes
  <1>9. CASE UNCHANGED vars
    <2>1. TypeOK'
      BY <1>9 DEF vars, threads, stopping, MTypes, TypeOK
    <2>2. MHand' /\ MPlaces'
      BY <1>9 DEF vars, threads, stopping, MTypes, MHand, MPlaces
    <2> QED
      BY <2>1, <2>2 DEF MTypes
  <1>10. CASE AudioThread
    BY <1>10, <1>1, <1>2, <1>3, <1>4, <1>5 DEF AudioThread, Encoder, MoveOn, Streams
  <1>11. CASE VideoThread
    BY <1>11, <1>1, <1>2, <1>3, <1>4, <1>5 DEF VideoThread, Encoder, MoveOn, Streams
  <1>12. CASE StopBegins \/ StopGoesOn
    BY <1>12, <1>13, <1>14, <1>7, <1>8 DEF StopGoesOn
  <1> QED
    BY <1>6, <1>9, <1>10, <1>11, <1>12 DEF Next

-----------------------------------------------------------------------------
(***************************************************************************)
(* The codec of the audio thread.  AudioFlushed is inductive: a thread     *)
(* that has not ended owes nothing, and only CleanupReset forgets an       *)
(* error, when it has freed the codecs.                                    *)
(***************************************************************************)
LEMMA FlushedStep == MTypes /\ AudioFlushed /\ [Next]_vars => AudioFlushed'
  <1> SUFFICES ASSUME MTypes, AudioFlushed, [Next]_vars
               PROVE  AudioFlushed'
    OBVIOUS
  <1>0. /\ pc \in [Streams -> {"loop", "read", "wait", "encode", "drain", "flush",
                               "flushing", "done"}]
        /\ codec \in [Streams -> Seq(Nat)] /\ "audio" \in Streams /\ "audio" # "video"
    BY DEF MTypes, TypeOK, Streams
  <1>1. CASE AudioThread
    <2>1. CASE Drained("audio")
      <3>1. pc["audio"] = "flushing" => codec["audio"] = <<>>
        <4>1. codec["audio"] \in Seq(Nat)
          BY <1>0
        <4>2. pc["audio"] = "flushing" => Len(codec["audio"]) <= 0
          BY <2>1 DEF Drained
        <4>3. Len(codec["audio"]) \in Nat
          BY <4>1, LenProperties
        <4> QED
          BY <4>1, <4>2, <4>3, EmptySeq
      <3> QED
        BY <1>0, <2>1, <3>1 DEF Drained, Goto, AudioFlushed
    <2>2. CASE WriteFails("audio") \/ SendFails("audio") \/ FlushFails("audio")
      BY <2>2 DEF WriteFails, SendFails, FlushFails, AudioFlushed
    <2>3. CASE \/ AudioLeave \/ AudioGoesOn \/ AudioEnds \/ Take("audio") \/ Wait("audio")
               \/ Send("audio") \/ Skip("audio") \/ WritePacket("audio") \/ Flush("audio")
      <3>1. pc'["audio"] # "done"
        BY <1>0, <2>3 DEF AudioLeave, AudioGoesOn, AudioEnds, Take, Wait, Send, Skip, WritePacket,
                          Flush, Leave, Goto
      <3> QED
        BY <3>1 DEF AudioFlushed
    <2> QED
      BY <1>1, <2>1, <2>2, <2>3 DEF AudioThread, Encoder
  <1>2. CASE VideoThread
    <2>1. /\ pc'["audio"] = pc["audio"] /\ codec'["audio"] = codec["audio"]
          /\ error_code' \in {error_code, TRUE}
      BY <1>0, <1>2 DEF VideoThread, Encoder, VideoLeave, VideoGoesOn, VideoEnds, Take, Wait, Send,
                        Skip, SendFails, WritePacket, WriteFails, Drained, Flush, FlushFails,
                        Leave, Goto
    <2> QED
      BY <2>1 DEF AudioFlushed
  <1>3. CASE CleanupReset
    BY <1>0, <1>3 DEF CleanupReset, AudioFlushed
  <1>4. CASE (\E k \in Streams : Feed(k)) \/ StopBegins \/ StopVideo
    <2>1. /\ codec' = codec /\ error_code' = error_code
          /\ pc'["audio"] = "done" => pc["audio"] = "done"
      BY <1>0, <1>4 DEF Feed, StopBegins, StopVideo, EndQueue, Notify
    <2> QED
      BY <2>1 DEF AudioFlushed
  <1>5. CASE StopEof \/ ExitAudio \/ JoinAudio \/ JoinVideo \/ UNCHANGED vars
    <2>1. UNCHANGED <<codec, error_code, pc>>
      BY <1>5 DEF StopEof, ExitAudio, JoinAudio, JoinVideo, vars, threads
    <2> QED
      BY <2>1 DEF AudioFlushed
  <1> QED
    BY <1>1, <1>2, <1>3, <1>4, <1>5 DEF Next, StopGoesOn

\* The types, and what an encoder may hold back at each place.
THEOREM MuxerTypes == Spec => []TypeOK
  BY TypesInit, TypesStep, PTL DEF Spec, MTypes

\* However it ends, the audio thread leaves nothing in its codec but for an error.
THEOREM MuxerFlushes == Spec => []AudioFlushed
  <1>1. Init => AudioFlushed
    BY DEF Init, AudioFlushed, Streams
  <1> QED
    BY <1>1, TypesInit, TypesStep, FlushedStep, PTL DEF Spec

-----------------------------------------------------------------------------
(***************************************************************************)
(* Images and sound.  InSync alone is not inductive: the video thread has  *)
(* compared the times before it waits for an image, and counts the image   *)
(* after it, so what the comparison found has to stay true in between.     *)
(***************************************************************************)
SPassed ==
    (synced /\ ~audio_eof /\ pc["video"] \in {"read", "wait", "encode"}) => ~Ahead

SInv == InSync /\ SPassed

\* The next frame of a stream is its duration later.
LEMMA NextTime ==
    ASSUME NEW n \in Nat, NEW t \in Nat \ {0}
    PROVE  /\ n * t \in Nat
           /\ (n + 1) * t = n * t + t
           /\ 0 * t = 0
  OBVIOUS

LEMMA SyncInit == Init => SInv
  BY NextTime, MuxerAssumption DEF Init, SInv, SPassed, InSync, Streams

LEMMA SyncStep == MTypes /\ SInv /\ [Next]_vars => SInv'
  <1> SUFFICES ASSUME MTypes, SInv, [Next]_vars
               PROVE  SInv'
    OBVIOUS
  <1> DEFINE vt == pts["video"] * ImageTime
             at == pts["audio"] * BufferTime
  <1>0. /\ pc \in [Streams -> {"loop", "read", "wait", "encode", "drain", "flush",
                               "flushing", "done"}]
        /\ pts \in [Streams -> Nat]
        /\ "audio" \in Streams /\ "video" \in Streams /\ "audio" # "video"
    BY DEF MTypes, TypeOK, Streams
  <1>a. /\ vt \in Nat /\ at \in Nat
        /\ ImageTime \in Nat /\ BufferTime \in Nat
        /\ (pts["video"] + 1) * ImageTime = vt + ImageTime
        /\ (pts["audio"] + 1) * BufferTime = at + BufferTime
    BY <1>0, NextTime, MuxerAssumption
  <1>b. /\ synced /\ ~audio_eof => vt <= at + ImageTime
        /\ synced /\ ~audio_eof /\ pc["video"] \in {"read", "wait", "encode"} => ~(vt > at)
    BY DEF SInv, InSync, SPassed, Ahead
  \* What has to be shown of the next state.
  <1>c. ASSUME synced' /\ ~audio_eof' => vt' <= at' + ImageTime,
               synced' /\ ~audio_eof' /\ pc'["video"] \in {"read", "wait", "encode"}
                   => ~(vt' > at')
        PROVE  SInv'
    BY <1>c DEF SInv, InSync, SPassed, Ahead
  <1>1. CASE AudioThread
    <2>1. /\ UNCHANGED <<synced, audio_eof>>
          /\ pts'["video"] = pts["video"] /\ pc'["video"] = pc["video"]
          /\ pts'["audio"] = pts["audio"] \/ pts'["audio"] = pts["audio"] + 1
      BY <1>0, <1>1 DEF AudioThread, Encoder, AudioLeave, AudioGoesOn, AudioEnds, Take, Wait, Send,
                        Skip, SendFails, WritePacket, WriteFails, Drained, Flush, FlushFails,
                        Leave, Goto, stopping
    <2>2. vt' = vt /\ (at' = at \/ at' = at + BufferTime)
      BY <2>1, <1>a
    <2> HIDE DEF vt, at
    <2>3. vt <= at + ImageTime => vt' <= at' + ImageTime
      BY <1>a, <2>2
    <2>4. ~(vt > at) => ~(vt' > at')
      BY <1>a, <2>2
    <2> QED
      BY <1>b, <1>c, <2>1, <2>3, <2>4
  <1>2. CASE VideoThread
    <2>1. /\ UNCHANGED <<synced, audio_eof>> /\ pts'["audio"] = pts["audio"]
      BY <1>0, <1>2 DEF VideoThread, Encoder, VideoLeave, VideoGoesOn, VideoEnds, Take, Wait, Send,
                        Skip, SendFails, WritePacket, WriteFails, Drained, Flush, FlushFails,
                        Leave, Goto, stopping
    <2>2. at' = at
      BY <2>1
    <2>3. CASE Send("video") \/ SendFails("video")
      <3>1. /\ pts'["video"] = pts["video"] + 1 /\ pc["video"] = "encode"
            /\ pc'["video"] \in {"drain", "done"}
        BY <1>0, <2>3 DEF Send, SendFails, Leave, Goto
      <3>2. vt' = vt + ImageTime
        BY <3>1, <1>a
      <3> HIDE DEF vt, at
      <3> QED
        BY <1>a, <1>b, <1>c, <2>1, <2>2, <3>1, <3>2
    <2>4. CASE VideoGoesOn
      <3>1. pts'["video"] = pts["video"] /\ (synced /\ ~audio_eof => ~(vt > at))
        BY <2>4 DEF VideoGoesOn, Ahead
      <3>2. vt' = vt
        BY <3>1
      <3> HIDE DEF vt, at
      <3> QED
        BY <1>a, <1>b, <1>c, <2>1, <2>2, <3>1, <3>2
    <2>5. CASE \/ VideoLeave \/ VideoEnds \/ Take("video") \/ Wait("video") \/ Skip("video")
               \/ WritePacket("video") \/ WriteFails("video") \/ Drained("video")
               \/ Flush("video") \/ FlushFails("video")
      <3>1. /\ pts'["video"] = pts["video"]
            /\ pc'["video"] \in {"read", "wait", "encode"}
                  => pc["video"] \in {"read", "wait", "encode"}
        BY <1>0, <2>5 DEF VideoLeave, VideoEnds, Take, Wait, Skip, WritePacket, WriteFails, Drained,
                          Flush, FlushFails, Leave, Goto
      <3>2. vt' = vt
        BY <3>1
      <3> HIDE DEF vt, at
      <3> QED
        BY <1>a, <1>b, <1>c, <2>1, <2>2, <3>1, <3>2
    <2> QED
      BY <1>2, <2>3, <2>4, <2>5 DEF VideoThread, Encoder
  <1>3. CASE CleanupReset
    <2>1. pc'["video"] = "done"
      BY <1>3 DEF CleanupReset, MTypes, MPlaces
    <2>2. pts'["video"] = 0 /\ pts'["audio"] = 0
      BY <1>0, <1>3 DEF CleanupReset
    <2>3. vt' = 0 /\ at' = 0
      BY <2>2, NextTime, MuxerAssumption
    <2> HIDE DEF vt, at
    <2> QED
      BY <1>a, <1>c, <2>1, <2>3
  <1>4. CASE StopEof
    BY <1>4, <1>c DEF StopEof
  <1>5. CASE \/ (\E k \in Streams : Feed(k)) \/ StopBegins \/ StopVideo
             \/ ExitAudio \/ JoinAudio \/ JoinVideo \/ UNCHANGED vars
    <2>1. /\ UNCHANGED <<synced, audio_eof, pts>>
          /\ pc'["video"] = pc["video"] \/ (pc["video"] = "wait" /\ pc'["video"] = "read")
      <3>1. ASSUME NEW k \in Streams, Notify(k)
            PROVE  pc'["video"] = pc["video"] \/ (pc["video"] = "wait" /\ pc'["video"] = "read")
        BY <1>0, <3>1 DEF Notify
      <3>2. CASE \E k \in Streams : Feed(k)
        BY <3>1, <3>2 DEF Feed, stopping
      <3>3. CASE StopBegins \/ StopVideo
        BY <1>0, <3>1, <3>3 DEF StopBegins, StopVideo, EndQueue
      <3>4. CASE ExitAudio \/ JoinAudio \/ JoinVideo \/ UNCHANGED vars
        BY <3>4 DEF ExitAudio, JoinAudio, JoinVideo, vars, threads, stopping
      <3> QED
        BY <1>5, <3>2, <3>3, <3>4
    <2>2. vt' = vt /\ at' = at
      BY <2>1
    <2> HIDE DEF vt, at
    <2> QED
      BY <1>b, <1>c, <2>1, <2>2
  <1> QED
    BY <1>1, <1>2, <1>3, <1>4, <1>5 DEF Next, StopGoesOn

\* The images are never more than one ahead of the sound, however long the video
\* thread waits between the comparison and the count.
THEOREM MuxerInSync == Spec => []InSync
  BY TypesInit, TypesStep, SyncInit, SyncStep, PTL DEF Spec, SInv

-----------------------------------------------------------------------------
(***************************************************************************)
(* Order.  What is in the file says nothing of what will be written, so    *)
(* the invariant follows a frame all the way: file, codec, hand and queue  *)
(* of a stream, one after the other, are in the order of feeding.          *)
(***************************************************************************)
InFile(k) == Elems(file[k])
InCodec(k) == Elems(codec[k])
InHand(k) == {hand[k]} \ {0}
InQueue(k) == Elems(queue[k])

Chain(k) ==
    /\ Sorted(file[k]) /\ Sorted(codec[k]) /\ Sorted(queue[k])
    /\ Before(InFile(k), InCodec(k)) /\ Before(InFile(k), InHand(k)) /\ Before(InFile(k), InQueue(k))
    /\ Before(InCodec(k), InHand(k)) /\ Before(InCodec(k), InQueue(k))
    /\ Before(InHand(k), InQueue(k))
    /\ InFile(k) \cup InCodec(k) \cup InHand(k) \cup InQueue(k) \subseteq 1..fed[k]
    /\ pc[k] = "encode" => hand[k] # 0

OInv == \A k \in Streams : Chain(k)

LEMMA EmptyInOrder == Elems(<<>>) = {} /\ Sorted(<<>>)
  BY EmptySeq DEF Elems, Sorted

LEMMA OrderInit == Init => OInv
  BY EmptyInOrder DEF Init, OInv, Chain, InFile, InCodec, InHand, InQueue, Before

\* A stream whose frames stay where they are keeps its order.
LEMMA ChainFrame ==
    ASSUME NEW k \in Streams, Chain(k),
           file'[k] = file[k], codec'[k] = codec[k], hand'[k] = hand[k], queue'[k] = queue[k],
           fed'[k] = fed[k], pc'[k] = "encode" => pc[k] = "encode"
    PROVE  Chain(k)'
  BY DEF Chain, InFile, InCodec, InHand, InQueue

\* A frame that is fed is later than all before it.
LEMMA ChainFeed ==
    ASSUME MTypes, NEW k \in Streams, Chain(k), Feed(k)
    PROVE  Chain(k)'
  <1>1. /\ fed[k] \in Nat /\ queue[k] \in Seq(Nat) /\ fed'[k] = fed[k] + 1
        /\ queue'[k] = Append(queue[k], fed[k] + 1)
        /\ file'[k] = file[k] /\ codec'[k] = codec[k] /\ hand'[k] = hand[k]
        /\ pc'[k] = "encode" => pc[k] = "encode"
    BY DEF MTypes, TypeOK, Feed, Notify
  <1>2. /\ InFile(k)' = InFile(k) /\ InCodec(k)' = InCodec(k) /\ InHand(k)' = InHand(k)
        /\ InQueue(k)' = InQueue(k) \cup {fed[k] + 1}
    <2>1. fed[k] + 1 \in Nat
      BY <1>1
    <2>2. Elems(queue'[k]) = Elems(queue[k]) \cup {fed[k] + 1}
      BY <1>1, <2>1, AppendFrame
    <2>3. InQueue(k)' = Elems(queue'[k])
      BY DEF InQueue, Elems
    <2> QED
      BY <1>1, <2>2, <2>3 DEF InFile, InCodec, InHand, InQueue
  <1>3. \A x \in InFile(k) \cup InCodec(k) \cup InHand(k) \cup InQueue(k) :
            x \in 1..fed[k] /\ x < fed[k] + 1 /\ x \in 1..fed'[k]
    BY <1>1 DEF Chain
  <1>4. Sorted(queue[k])'
    BY <1>1, <1>3, AppendFrame DEF Chain, Before, InQueue
  <1>5. fed[k] + 1 \in 1..fed'[k]
    BY <1>1
  <1> QED
    BY <1>1, <1>2, <1>3, <1>4, <1>5 DEF Chain, Before

LEMMA ChainTake ==
    ASSUME MTypes, NEW k \in Streams, Chain(k), Take(k)
    PROVE  Chain(k)'
  <1>1. /\ queue[k] \in Seq(Nat) /\ queue[k] # <<>>
        /\ queue'[k] = Tail(queue[k]) /\ hand'[k] = Head(queue[k]) /\ hand[k] = 0
        /\ file'[k] = file[k] /\ codec'[k] = codec[k] /\ fed'[k] = fed[k]
    BY DEF MTypes, TypeOK, MHand, Take
  <1>2. /\ InQueue(k) = {hand'[k]} \cup InQueue(k)'
        /\ Sorted(queue[k])' /\ Before({hand'[k]}, InQueue(k)')
    BY <1>1, TakeFrame DEF Chain, InQueue
  <1>3. hand'[k] # 0
    BY <1>2 DEF Chain
  <1>4. InFile(k)' = InFile(k) /\ InCodec(k)' = InCodec(k) /\ InHand(k)' = {hand'[k]}
    BY <1>1, <1>3 DEF InFile, InCodec, InHand
  <1> QED
    BY <1>1, <1>2, <1>3, <1>4 DEF Chain, Before

LEMMA ChainSend ==
    ASSUME MTypes, NEW k \in Streams, Chain(k), Send(k)
    PROVE  Chain(k)'
  <1>1. /\ codec[k] \in Seq(Nat) /\ hand[k] \in Nat /\ hand[k] # 0
        /\ codec'[k] = Append(codec[k], hand[k]) /\ hand'[k] = 0 /\ pc'[k] # "encode"
        /\ file'[k] = file[k] /\ queue'[k] = queue[k] /\ fed'[k] = fed[k]
    BY DEF MTypes, TypeOK, Chain, Send, Goto
  <1>2. InHand(k) = {hand[k]} /\ InHand(k)' = {}
    BY <1>1 DEF InHand
  <1>3. /\ InCodec(k)' = InCodec(k) \cup {hand[k]}
        /\ Sorted(codec[k])'
    <2>1. Sorted(codec[k]) /\ Before(Elems(codec[k]), {hand[k]})
      BY <1>2 DEF Chain, InCodec
    <2>2. /\ Elems(codec'[k]) = Elems(codec[k]) \cup {hand[k]}
          /\ Sorted(codec'[k])
      BY <1>1, <2>1, AppendFrame
    <2> QED
      BY <2>2 DEF InCodec
  <1>4. InFile(k)' = InFile(k) /\ InQueue(k)' = InQueue(k)
    BY <1>1 DEF InFile, InQueue
  <1> QED
    BY <1>1, <1>2, <1>3, <1>4 DEF Chain, Before

LEMMA ChainDrop ==
    ASSUME MTypes, NEW k \in Streams, Chain(k), Skip(k) \/ SendFails(k)
    PROVE  Chain(k)'
  <1>1. /\ hand'[k] = 0 /\ pc'[k] # "encode" /\ codec'[k] = codec[k]
        /\ file'[k] = file[k] /\ queue'[k] = queue[k] /\ fed'[k] = fed[k]
    BY DEF MTypes, TypeOK, Skip, SendFails, Leave, Goto
  <1>2. /\ InHand(k)' = {} /\ InFile(k)' = InFile(k) /\ InQueue(k)' = InQueue(k)
        /\ InCodec(k)' = InCodec(k)
    BY <1>1 DEF InHand, InFile, InQueue, InCodec
  <1> QED
    BY <1>1, <1>2 DEF Chain, Before

\* A packet is earlier than all the codec still holds, and later than the file.
LEMMA ChainWrite ==
    ASSUME MTypes, NEW k \in Streams, Chain(k), WritePacket(k) \/ WriteFails(k)
    PROVE  /\ Chain(k)'
           /\ Head(codec[k]) \in 1..fed[k]
           /\ \A i \in 1..Len(file[k]) : file[k][i] < Head(codec[k])
  <1> DEFINE n == Head(codec[k])
  <1>1. /\ codec[k] \in Seq(Nat) /\ codec[k] # <<>> /\ file[k] \in Seq(Nat)
        /\ codec'[k] = Tail(codec[k]) /\ hand'[k] = hand[k] /\ pc'[k] # "encode"
        /\ file'[k] = Append(file[k], n) \/ file'[k] = file[k]
        /\ queue'[k] = queue[k] /\ fed'[k] = fed[k]
    <2>1. CASE WritePacket(k)
      BY <2>1 DEF MTypes, TypeOK, WritePacket
    <2>2. CASE WriteFails(k)
      BY <2>2 DEF MTypes, TypeOK, WriteFails, Goto
    <2> QED
      BY <2>1, <2>2
  <1> HIDE DEF n
  <1>2. /\ InCodec(k) = {n} \cup InCodec(k)' /\ n \in Nat
        /\ Sorted(codec[k])' /\ Before({n}, InCodec(k)')
    BY <1>1, TakeFrame DEF Chain, InCodec, n
  <1>3. Before(InFile(k), {n})
    BY <1>2 DEF Chain, Before
  <1>4. /\ InFile(k)' \subseteq InFile(k) \cup {n}
        /\ Sorted(file[k])'
    BY <1>1, <1>2, <1>3, AppendFrame DEF Chain, InFile
  <1>5. InHand(k)' = InHand(k) /\ InQueue(k)' = InQueue(k)
    BY <1>1 DEF InHand, InQueue
  <1>6. Chain(k)'
    BY <1>1, <1>2, <1>4, <1>5 DEF Chain, Before
  <1>7. n \in 1..fed[k] /\ \A i \in 1..Len(file[k]) : file[k][i] < n
    BY <1>2, <1>3 DEF Chain, Before, InFile, Elems
  <1> QED
    BY <1>6, <1>7 DEF n

LEMMA OrderStep == MTypes /\ OInv /\ [Next]_vars => OInv'
  <1> SUFFICES ASSUME MTypes, OInv, [Next]_vars, NEW m \in Streams
               PROVE  Chain(m)'
    BY DEF OInv
  <1>0. /\ Chain(m)
        /\ pc \in [Streams -> {"loop", "read", "wait", "encode", "drain", "flush",
                               "flushing", "done"}]
        /\ codec \in [Streams -> Seq(Nat)] /\ queue \in [Streams -> Seq(Nat)]
        /\ file \in [Streams -> Seq(Nat)] /\ hand \in [Streams -> Nat]
        /\ fed \in [Streams -> Nat]
    BY DEF OInv, MTypes, TypeOK
  <1>1. ASSUME NEW k \in Streams, MoveOn(k) PROVE Chain(m)'
    <2>1. PICK p \in {"loop", "read", "wait", "flush", "flushing", "done"} : ThreadStep(k, p)
      BY <1>1, MoveOnIs
    <2>2. UNCHANGED <<queue, codec, hand, file, fed>>
      BY <1>1, <2>1, MoveOnIs DEF ThreadStep
    <2>3. pc'[m] = "encode" => pc[m] = "encode"
      BY <1>0, <2>1 DEF ThreadStep
    <2> QED
      BY <1>0, <2>2, <2>3, ChainFrame
  <1>2. ASSUME NEW k \in Streams,
               Take(k) \/ Send(k) \/ Skip(k) \/ SendFails(k) \/ WritePacket(k) \/ WriteFails(k)
        PROVE  Chain(m)'
    <2>1. CASE m = k
      BY <1>0, <1>2, <2>1, ChainTake, ChainSend, ChainDrop, ChainWrite
    <2>2. CASE m # k
      <3>1. /\ file'[m] = file[m] /\ codec'[m] = codec[m] /\ hand'[m] = hand[m]
            /\ queue'[m] = queue[m] /\ fed'[m] = fed[m] /\ pc'[m] = pc[m]
        BY <1>0, <1>2, <2>2 DEF Take, Send, Skip, SendFails, WritePacket, WriteFails, Leave, Goto
      <3> QED
        BY <1>0, <3>1, ChainFrame
    <2> QED
      BY <2>1, <2>2
  <1>3. ASSUME NEW k \in Streams, Feed(k) PROVE Chain(m)'
    <2>1. CASE m = k
      BY <1>0, <1>3, <2>1, ChainFeed
    <2>2. CASE m # k
      <3>1. /\ file'[m] = file[m] /\ codec'[m] = codec[m] /\ hand'[m] = hand[m]
            /\ queue'[m] = queue[m] /\ fed'[m] = fed[m] /\ pc'[m] = pc[m]
        BY <1>0, <1>3, <2>2 DEF Feed, Notify
      <3> QED
        BY <1>0, <3>1, ChainFrame
    <2> QED
      BY <2>1, <2>2
  <1>4. CASE StopBegins \/ StopVideo
    <2>1. /\ UNCHANGED <<file, codec, hand, queue, fed>>
          /\ pc'[m] = "encode" => pc[m] = "encode"
      BY <1>0, <1>4 DEF StopBegins, StopVideo, EndQueue, Notify
    <2> QED
      BY <1>0, <2>1, ChainFrame
  <1>5. CASE StopEof \/ ExitAudio \/ JoinAudio \/ JoinVideo \/ UNCHANGED vars
    <2>1. UNCHANGED <<file, codec, hand, queue, fed, pc>>
      BY <1>5 DEF StopEof, ExitAudio, JoinAudio, JoinVideo, vars, threads
    <2> QED
      BY <1>0, <2>1, ChainFrame
  <1>6. CASE CleanupReset
    <2>1. UNCHANGED <<file, hand, queue, fed, pc>> /\ codec'[m] = <<>>
      BY <1>6 DEF CleanupReset
    <2>2. InCodec(m)' = {} /\ Sorted(codec[m])'
      BY <2>1, EmptyInOrder DEF InCodec
    <2>3. /\ InFile(m)' = InFile(m) /\ InHand(m)' = InHand(m) /\ InQueue(m)' = InQueue(m)
      BY <2>1 DEF InFile, InHand, InQueue
    <2> QED
      BY <1>0, <2>1, <2>2, <2>3 DEF Chain, Before
  <1>7. CASE AudioThread
    BY <1>7, <1>1, <1>2 DEF AudioThread, Encoder, MoveOn, Streams
  <1>8. CASE VideoThread
    BY <1>8, <1>1, <1>2 DEF VideoThread, Encoder, MoveOn, Streams
  <1> QED
    BY <1>3, <1>4, <1>5, <1>6, <1>7, <1>8 DEF Next, StopGoesOn

-----------------------------------------------------------------------------
(***************************************************************************)
(* Muxer implements MediaFile.                                             *)
(***************************************************************************)
LEMMA FileInit == Init => Promise!MediaFileInit
  BY DEF Init, Promise!MediaFileInit

LEMMA FileStep ==
    MTypes /\ OInv /\ [Next]_vars => [Promise!MediaFileNext]_<<fed, file, closed>>
  <1> SUFFICES ASSUME MTypes, OInv, [Next]_vars
               PROVE  [Promise!MediaFileNext]_<<fed, file, closed>>
    OBVIOUS
  <1>1. ASSUME NEW k \in Streams, MoveOn(k) PROVE UNCHANGED <<fed, file, closed>>
    BY <1>1, MoveOnIs DEF ThreadStep, stopping
  <1>2. ASSUME NEW k \in Streams, WritePacket(k) PROVE Promise!WriteFrame(k)
    <2>1. ~closed
      BY <1>2 DEF WritePacket, MTypes, MPlaces, Streams
    <2>2. /\ Head(codec[k]) \in 1..fed[k]
          /\ \A i \in 1..Len(file[k]) : file[k][i] < Head(codec[k])
      BY <1>2, ChainWrite DEF OInv
    <2>3. /\ file' = [file EXCEPT ![k] = Append(@, Head(codec[k]))]
          /\ UNCHANGED <<fed, closed>>
      BY <1>2 DEF WritePacket, stopping
    <2> QED
      BY <2>1, <2>2, <2>3 DEF Promise!WriteFrame
  <1>3. ASSUME NEW k \in Streams,
               Take(k) \/ Send(k) \/ Skip(k) \/ SendFails(k) \/ WriteFails(k)
        PROVE  UNCHANGED <<fed, file, closed>>
    BY <1>3 DEF Take, Send, Skip, SendFails, WriteFails, stopping
  <1>4. ASSUME NEW k \in Streams, Feed(k) PROVE Promise!FeedFrame(k)
    BY <1>4 DEF Feed, Promise!FeedFrame, stopping
  <1>5. CASE JoinVideo
    <2>1. ~closed
      BY <1>5 DEF JoinVideo, MTypes, MPlaces
    <2> QED
      BY <1>5, <2>1 DEF JoinVideo, Promise!WriteTrailer, Promise!MediaFileNext
  <1>6. CASE StopBegins \/ StopVideo \/ StopEof \/ ExitAudio \/ JoinAudio \/ CleanupReset
             \/ UNCHANGED vars
    BY <1>6 DEF StopBegins, StopVideo, StopEof, ExitAudio, JoinAudio, CleanupReset, vars, stopping
  <1>7. CASE AudioThread
    BY <1>7, <1>1, <1>2, <1>3
       DEF AudioThread, Encoder, MoveOn, Streams, Promise!MediaFileNext
  <1>8. CASE VideoThread
    BY <1>8, <1>1, <1>2, <1>3
       DEF VideoThread, Encoder, MoveOn, Streams, Promise!MediaFileNext
  <1> QED
    BY <1>4, <1>5, <1>6, <1>7, <1>8 DEF Next, StopGoesOn, Promise!MediaFileNext

\* The file holds frames that were fed, in the order of feeding, none twice, and
\* nothing after the trailer.
THEOREM MuxerKeepsPromise == Spec => FileSpec
  BY TypesInit, TypesStep, OrderInit, OrderStep, FileInit, FileStep, PTL
     DEF Spec, FileSpec, Promise!MediaFileSpec

-----------------------------------------------------------------------------
(***************************************************************************)
(* Why stop() returns.  That it does rests on the scheduling of threads    *)
(* (StopReturns); what the code has to see to is that no encoder thread    *)
(* sleeps on a queue that has a frame or has ended, that the video thread  *)
(* does not wait for sound that will not come, and that a thread told to   *)
(* end gets nearer to its end with every step.                             *)
(***************************************************************************)
\* An encoder thread asleep in read() has nothing to wake for.
SleepsOnNothing == \A k \in Streams : pc[k] = "wait" => queue[k] = <<>> /\ ~ending[k]

\* How far stop() has got is what the threads have been told.
StopToldThem ==
    /\ stop_pc # "idle" => ending["audio"]
    /\ stop_pc \notin {"idle", "video", "stopped"} => ending["video"]
    /\ stop_pc \in {"exit", "join_audio", "join_video", "trailer"} => audio_eof
    /\ exit["audio"] => stop_pc \in {"join_audio", "join_video", "trailer", "stopped"}
    /\ exit["video"] => stop_pc \in {"join_video", "trailer", "stopped"}

WakeInv == SleepsOnNothing /\ StopToldThem

\* A step of an encoder thread that does not go to sleep.
LEMMA ThreadWakes ==
    ASSUME MTypes, WakeInv, NEW k \in Streams, NEW p, p # "wait",
           pc' = [pc EXCEPT ![k] = p],
           \A m \in Streams \ {k} : queue'[m] = queue[m],
           UNCHANGED <<ending, exit, stopping>>
    PROVE  WakeInv'
  <1>1. \A m \in Streams : pc'[m] = IF m = k THEN p ELSE pc[m]
    BY DEF MTypes, TypeOK
  <1>2. SleepsOnNothing'
    BY <1>1 DEF WakeInv, SleepsOnNothing
  <1>3. StopToldThem'
    BY DEF WakeInv, StopToldThem, stopping
  <1> QED
    BY <1>2, <1>3 DEF WakeInv

LEMMA MuxerWakeInit == Init => WakeInv
  BY DEF Init, WakeInv, SleepsOnNothing, StopToldThem, Streams

LEMMA MuxerWakeStep == MTypes /\ WakeInv /\ [Next]_vars => WakeInv'
  <1> SUFFICES ASSUME MTypes, WakeInv, [Next]_vars PROVE WakeInv'
    OBVIOUS
  <1>0. /\ DOMAIN pc = Streams /\ DOMAIN queue = Streams
        /\ ending \in [Streams -> BOOLEAN] /\ exit \in [Streams -> BOOLEAN]
        /\ pc = [m \in Streams |-> pc[m]]
        /\ "audio" \in Streams /\ "video" \in Streams /\ "audio" # "video"
    BY DEF MTypes, TypeOK, Streams
  <1>1. ASSUME NEW k \in Streams, Feed(k) PROVE WakeInv'
    <2>1. /\ \A m \in Streams : pc'[m] = "wait" => m # k /\ pc[m] = "wait"
          /\ \A m \in Streams : m # k => queue'[m] = queue[m]
          /\ UNCHANGED <<ending, exit, stopping>>
      BY <1>0, <1>1 DEF Feed, Notify
    <2> QED
      BY <2>1 DEF WakeInv, SleepsOnNothing, StopToldThem, stopping
  <1>2. ASSUME NEW k \in Streams, Wait(k) PROVE WakeInv'
    <2>1. /\ queue[k] = <<>> /\ ~ending[k] /\ UNCHANGED <<queue, ending, exit, stopping>>
          /\ \A m \in Streams : m # k => pc'[m] = pc[m]
      BY <1>0, <1>2 DEF Wait, Goto
    <2> QED
      BY <2>1 DEF WakeInv, SleepsOnNothing, StopToldThem, stopping
  <1>3. ASSUME NEW k \in Streams, Take(k) PROVE WakeInv'
    <2>1. /\ pc' = [pc EXCEPT ![k] = "encode"]
          /\ \A m \in Streams \ {k} : queue'[m] = queue[m]
          /\ UNCHANGED <<ending, exit, stopping>>
      BY <1>0, <1>3 DEF Take, Goto
    <2> QED
      BY <2>1, ThreadWakes
  <1>4. ASSUME NEW k \in Streams,
               Send(k) \/ Skip(k) \/ SendFails(k) \/ WriteFails(k) \/ Drained(k) \/ Flush(k) \/ FlushFails(k)
        PROVE  WakeInv'
    <2>1. PICK p \in {"drain", "loop", "flush", "done", "flushing"} : pc' = [pc EXCEPT ![k] = p]
      BY <1>4 DEF Send, Skip, SendFails, WriteFails, Drained, Flush, FlushFails, Leave, Goto
    <2>2. UNCHANGED <<queue, ending, exit, stopping>>
      BY <1>4 DEF Send, Skip, SendFails, WriteFails, Drained, Flush, FlushFails
    <2> QED
      BY <2>1, <2>2, ThreadWakes
  <1>5. ASSUME NEW k \in Streams, WritePacket(k) PROVE WakeInv'
    BY <1>5 DEF WritePacket, WakeInv, SleepsOnNothing, StopToldThem, stopping
  <1>6. CASE AudioLeave \/ AudioGoesOn \/ AudioEnds
    <2>1. PICK p \in {"flush", "read", "loop"} : pc' = [pc EXCEPT !["audio"] = p]
      BY <1>0, <1>6 DEF AudioLeave, AudioGoesOn, AudioEnds, Leave, Goto
    <2>2. UNCHANGED <<queue, ending, exit, stopping>>
      BY <1>6 DEF AudioLeave, AudioGoesOn, AudioEnds
    <2> QED
      BY <1>0, <2>1, <2>2, ThreadWakes
  <1>7. CASE VideoLeave \/ VideoGoesOn \/ VideoEnds
    <2>1. PICK p \in {"done", "read", "flush"} : pc' = [pc EXCEPT !["video"] = p]
      BY <1>0, <1>7 DEF VideoLeave, VideoGoesOn, VideoEnds, Leave, Goto
    <2>2. UNCHANGED <<queue, ending, exit, stopping>>
      BY <1>7 DEF VideoLeave, VideoGoesOn, VideoEnds
    <2> QED
      BY <1>0, <2>1, <2>2, ThreadWakes
  <1>8. CASE StopBegins \/ StopVideo
    <2>1. PICK k \in Streams : EndQueue(k) /\ UNCHANGED <<queue, exit, audio_eof>>
                               /\ \/ k = "audio" /\ stop_pc = "idle" /\ stop_pc' = "video"
                                  \/ k = "video" /\ stop_pc = "video" /\ stop_pc' = "eof"
      BY <1>0, <1>8 DEF StopBegins, StopVideo
    <2>2. /\ \A m \in Streams : pc'[m] = "wait" => m # k /\ pc[m] = "wait"
          /\ \A m \in Streams : ending'[m] = (m = k \/ ending[m])
      BY <1>0, <2>1 DEF EndQueue, Notify
    <2>3. SleepsOnNothing'
      BY <2>1, <2>2 DEF WakeInv, SleepsOnNothing
    <2>4. StopToldThem'
      BY <1>0, <2>1, <2>2 DEF WakeInv, StopToldThem
    <2> QED
      BY <2>3, <2>4 DEF WakeInv
  <1>9. CASE StopEof \/ ExitAudio \/ JoinAudio \/ JoinVideo
    <2>1. UNCHANGED <<pc, queue, ending>>
      BY <1>9 DEF StopEof, ExitAudio, JoinAudio, JoinVideo, threads
    <2>2. StopToldThem'
      BY <1>0, <1>9 DEF StopEof, ExitAudio, JoinAudio, JoinVideo, threads, WakeInv, StopToldThem
    <2> QED
      BY <2>1, <2>2 DEF WakeInv, SleepsOnNothing
  <1>10. CASE CleanupReset
    <2>1. pc["audio"] = "done" /\ pc["video"] = "done" /\ pc' = pc
      BY <1>10 DEF CleanupReset, MTypes, MPlaces
    <2>2. SleepsOnNothing'
      BY <2>1 DEF SleepsOnNothing, Streams
    <2>3. StopToldThem'
      BY <1>0, <1>10 DEF CleanupReset, WakeInv, StopToldThem
    <2> QED
      BY <2>2, <2>3 DEF WakeInv
  <1>11. CASE UNCHANGED vars
    BY <1>11 DEF vars, threads, stopping, WakeInv, SleepsOnNothing, StopToldThem
  <1> QED
    BY <1>0, <1>1, <1>2, <1>3, <1>4, <1>5, <1>6, <1>7, <1>8, <1>9, <1>10, <1>11
       DEF Next, AudioThread, VideoThread, Encoder, StopGoesOn

\* No wakeup is lost between the feeders, stop() and the encoder threads.
THEOREM NoSleepOnWork == Spec => []SleepsOnNothing
  BY TypesInit, TypesStep, MuxerWakeInit, MuxerWakeStep, PTL DEF Spec, WakeInv

\* Steps an encoder thread has before it at most once it is told to end, by where
\* it is; for each packet its codec holds there is one more.
PlaceLeft(place) == CASE place = "read"     -> 7
                      [] place = "encode"   -> 6
                      [] place = "drain"    -> 4
                      [] place = "loop"     -> 3
                      [] place = "flush"    -> 2
                      [] place = "flushing" -> 1
                      [] OTHER              -> 0

StepsLeft(k) == PlaceLeft(pc[k]) + Len(codec[k])

\* Once stop() has set audio_eof, nobody sleeps and no image waits for the sound.
NobodyHeldUp ==
    stop_pc \in {"exit", "join_audio", "join_video", "trailer"} =>
        audio_eof /\ \A k \in Streams : pc[k] # "wait"

\* A thread told to end goes on without sleeping, and only towards its end.
EndNearer ==
    /\ exit["audio"] /\ AudioThread => StepsLeft("audio")' < StepsLeft("audio")
    /\ exit["video"] /\ VideoThread => StepsLeft("video")' < StepsLeft("video")

LEMMA Places ==
    /\ PlaceLeft("read") = 7 /\ PlaceLeft("encode") = 6 /\ PlaceLeft("drain") = 4
    /\ PlaceLeft("loop") = 3 /\ PlaceLeft("flush") = 2 /\ PlaceLeft("flushing") = 1
    /\ PlaceLeft("done") = 0
  BY DEF PlaceLeft

\* A step of a thread that leaves its codec alone, and one that does not.
LEMMA NearerByPlace ==
    ASSUME MTypes, NEW k \in Streams, NEW p,
           pc' = [pc EXCEPT ![k] = p], codec' = codec, PlaceLeft(p) < PlaceLeft(pc[k])
    PROVE  StepsLeft(k)' < StepsLeft(k)
  <1>1. pc'[k] = p /\ Len(codec[k]) \in Nat
    BY LenProperties DEF MTypes, TypeOK
  <1>2. PlaceLeft(p) \in Nat /\ PlaceLeft(pc[k]) \in Nat
    BY DEF PlaceLeft
  <1>3. StepsLeft(k)' = PlaceLeft(p) + Len(codec[k])
    BY <1>1 DEF StepsLeft
  <1> QED
    BY <1>1, <1>2, <1>3 DEF StepsLeft

LEMMA NearerByCodec ==
    ASSUME MTypes, NEW k \in Streams, NEW i \in Int,
           Len(codec'[k]) = Len(codec[k]) + i, PlaceLeft(pc'[k]) + i < PlaceLeft(pc[k])
    PROVE  StepsLeft(k)' < StepsLeft(k)
  <1>1. Len(codec[k]) \in Nat
    BY LenProperties DEF MTypes, TypeOK
  <1>2. PlaceLeft(pc'[k]) \in Nat /\ PlaceLeft(pc[k]) \in Nat
    BY DEF PlaceLeft
  <1>3. StepsLeft(k)' = PlaceLeft(pc'[k]) + (Len(codec[k]) + i)
    BY DEF StepsLeft
  <1> DEFINE a == PlaceLeft(pc'[k])
             b == PlaceLeft(pc[k])
             n == Len(codec[k])
  <1>4. a \in Nat /\ b \in Nat /\ n \in Nat /\ a + i < b
        /\ StepsLeft(k)' = a + (n + i) /\ StepsLeft(k) = b + n
    BY <1>1, <1>2, <1>3 DEF StepsLeft
  <1> HIDE DEF a, b, n
  <1> QED
    BY <1>4

LEMMA EncoderNearer ==
    ASSUME MTypes, NEW k \in Streams, Encoder(k), ending[k]
    PROVE  StepsLeft(k)' < StepsLeft(k)
  <1>0. /\ DOMAIN pc = Streams /\ codec \in [Streams -> Seq(Nat)] /\ hand[k] \in Nat
        /\ codec[k] \in Seq(Nat) /\ Len(codec[k]) \in Nat
    BY LenProperties DEF MTypes, TypeOK
  <1>1. CASE Take(k)
    <2>1. PICK p : /\ pc' = [pc EXCEPT ![k] = p] /\ codec' = codec
                   /\ (pc[k] = "read" /\ p = "encode")
      BY <1>1 DEF Take, Goto
    <2>2. PlaceLeft(p) < PlaceLeft(pc[k])
      BY <2>1, Places
    <2> QED
      BY <1>1, <2>1, <2>2, NearerByPlace
  <1>2. CASE Send(k)
    <2>1. Len(codec'[k]) = Len(codec[k]) + 1
      BY <1>0, <1>2, AppendFrame DEF Send
    <2>2. pc[k] = "encode" /\ pc'[k] = "drain"
      BY <1>0, <1>2 DEF Send, Goto
    <2> QED
      BY <2>1, <2>2, NearerByCodec, Places
  <1>3. CASE Skip(k)
    <2>1. PICK p : /\ pc' = [pc EXCEPT ![k] = p] /\ codec' = codec
                   /\ (pc[k] = "encode" /\ p = "loop")
      BY <1>3 DEF Skip, Goto
    <2>2. PlaceLeft(p) < PlaceLeft(pc[k])
      BY <2>1, Places
    <2> QED
      BY <1>3, <2>1, <2>2, NearerByPlace
  <1>4. CASE SendFails(k)
    <2>1. PICK p : /\ pc' = [pc EXCEPT ![k] = p] /\ codec' = codec
                   /\ (pc[k] = "encode" /\ p = "flush") \/ (pc[k] = "encode" /\ p = "done")
      BY <1>4 DEF SendFails, Leave, Goto
    <2>2. PlaceLeft(p) < PlaceLeft(pc[k])
      BY <2>1, Places
    <2> QED
      BY <1>4, <2>1, <2>2, NearerByPlace
  <1>5. CASE WritePacket(k) \/ WriteFails(k)
    <2>1. codec[k] \in Seq(Nat) /\ codec[k] # <<>> /\ codec'[k] = Tail(codec[k])
      BY <1>0, <1>5 DEF WritePacket, WriteFails
    <2>2. Len(codec[k]) = Len(Tail(codec[k])) + 1 /\ Len(Tail(codec[k])) \in Nat
      BY <2>1, TakeFrame
    <2>3. Len(codec'[k]) = Len(codec[k]) + (-1)
      BY <2>1, <2>2
    <2>4. \/ pc'[k] = pc[k]
          \/ pc[k] = "drain" /\ pc'[k] = "loop"
          \/ pc[k] = "flushing" /\ pc'[k] = "done"
      BY <1>0, <1>5 DEF WritePacket, WriteFails, Goto
    <2>5. pc[k] \in {"drain", "flushing"}
      BY <1>5 DEF WritePacket, WriteFails
    <2>6. PlaceLeft(pc'[k]) + (-1) < PlaceLeft(pc[k])
      BY <2>4, <2>5, Places
    <2> QED
      BY <2>3, <2>6, NearerByCodec
  <1>6. CASE Drained(k)
    <2>1. PICK p \in {"loop", "done"} : pc' = [pc EXCEPT ![k] = p]
                                        /\ p = IF pc[k] = "flushing" THEN "done" ELSE "loop"
      BY <1>6 DEF Drained, Goto
    <2>2. PlaceLeft(p) < PlaceLeft(pc[k])
      BY <1>6, <2>1, Places DEF Drained
    <2> QED
      BY <1>6, <2>1, <2>2, NearerByPlace DEF Drained
  <1>7. CASE Flush(k) \/ FlushFails(k)
    BY <1>7, NearerByPlace, Places DEF Flush, FlushFails, Goto
  <1> QED
    BY <1>1, <1>2, <1>3, <1>4, <1>5, <1>6, <1>7 DEF Encoder, Wait

\* The joins of stop() end: past StopEof no thread sleeps or waits for sound, and
\* each thread told to end ends within seven steps and one for each packet held
\* back by its encoder.
THEOREM StopIsBounded == Spec => []NobodyHeldUp /\ [][EndNearer]_vars
  <1>1. MTypes /\ WakeInv => NobodyHeldUp
    BY DEF WakeInv, SleepsOnNothing, StopToldThem, NobodyHeldUp, Streams
  <1>2. MTypes /\ WakeInv /\ [Next]_vars => [EndNearer]_vars
    <2>0. "audio" \in Streams /\ "video" \in Streams
      BY DEF Streams
    <2>1. ASSUME MTypes, WakeInv, exit["audio"], AudioThread
          PROVE  StepsLeft("audio")' < StepsLeft("audio")
      <3>1. ending["audio"]
        BY <2>1 DEF WakeInv, StopToldThem
      <3>2. CASE AudioLeave
        <4>1. PICK p : /\ pc' = [pc EXCEPT !["audio"] = p] /\ codec' = codec
                       /\ (pc["audio"] = "loop" /\ p = "flush")
          BY <2>1, <3>2 DEF AudioLeave, Leave, Goto
        <4>2. PlaceLeft(p) < PlaceLeft(pc["audio"])
          BY <4>1, Places
        <4> QED
          BY <2>0, <2>1, <3>2, <4>1, <4>2, NearerByPlace
      <3>3. CASE AudioGoesOn
        BY <2>1, <3>3 DEF AudioGoesOn, MustLeave
      <3>4. CASE AudioEnds
        <4>1. PICK p : /\ pc' = [pc EXCEPT !["audio"] = p] /\ codec' = codec
                       /\ (pc["audio"] = "read" /\ p = "loop")
          BY <2>1, <3>4 DEF AudioEnds, Goto
        <4>2. PlaceLeft(p) < PlaceLeft(pc["audio"])
          BY <4>1, Places
        <4> QED
          BY <2>0, <2>1, <3>4, <4>1, <4>2, NearerByPlace
      <3> QED
        BY <2>0, <2>1, <3>1, <3>2, <3>3, <3>4, EncoderNearer DEF AudioThread
    <2>2. ASSUME MTypes, WakeInv, exit["video"], VideoThread
          PROVE  StepsLeft("video")' < StepsLeft("video")
      <3>1. pc["video"] # "done"
        BY <2>2 DEF VideoThread, Encoder, VideoLeave, VideoGoesOn, VideoEnds, Take, Wait, Send,
                    Skip, SendFails, WritePacket, WriteFails, Drained, Flush, FlushFails
      <3>2. ending["video"]
        BY <2>2, <3>1 DEF WakeInv, StopToldThem, MTypes, MPlaces
      <3>3. CASE VideoLeave
        <4>1. PICK p : /\ pc' = [pc EXCEPT !["video"] = p] /\ codec' = codec
                       /\ (pc["video"] = "loop" /\ p = "done")
          BY <2>2, <3>3 DEF VideoLeave, Leave, Goto
        <4>2. PlaceLeft(p) < PlaceLeft(pc["video"])
          BY <4>1, Places
        <4> QED
          BY <2>0, <2>2, <3>3, <4>1, <4>2, NearerByPlace
      <3>4. CASE VideoGoesOn
        BY <2>2, <3>4 DEF VideoGoesOn, MustLeave
      <3>5. CASE VideoEnds
        <4>1. PICK p : /\ pc' = [pc EXCEPT !["video"] = p] /\ codec' = codec
                       /\ (pc["video"] = "read" /\ p = "flush")
          BY <2>2, <3>5 DEF VideoEnds, Goto
        <4>2. PlaceLeft(p) < PlaceLeft(pc["video"])
          BY <4>1, Places
        <4> QED
          BY <2>0, <2>2, <3>5, <4>1, <4>2, NearerByPlace
      <3> QED
        BY <2>0, <2>2, <3>2, <3>3, <3>4, <3>5, EncoderNearer DEF VideoThread
    <2> QED
      BY <2>1, <2>2 DEF EndNearer
  <1> QED
    BY <1>1, <1>2, TypesInit, TypesStep, MuxerWakeInit, MuxerWakeStep, PTL DEF Spec
=============================================================================
