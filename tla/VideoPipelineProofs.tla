------------------------ MODULE VideoPipelineProofs ------------------------
(***************************************************************************)
(* Theorems about VideoPipeline, for any file, any key frames, any delay   *)
(* of the codec, any size of the queues and any number of seeks.           *)
(***************************************************************************)
EXTENDS VideoPipeline, SequenceTheorems, TLAPS

(***************************************************************************)
(* Types.                                                                  *)
(***************************************************************************)
\* TypeOK in three parts.
Flags ==
    /\ eof \in BOOLEAN /\ seek_req \in BOOLEAN /\ accurate_video_seek_flag \in BOOLEAN
    /\ paused \in BOOLEAN

Places ==
    /\ read_pos \in 0..(LastFrame + 1)
    /\ read_pc \in {"loop", "time", "flag", "served", "eof", "fill", "read"}
    /\ seek_pos \in Pts /\ accurate_seek_time \in Pts
    /\ game_pc \in {"idle", "requested", "resumed"}
    /\ contents \in Seq(Pts \cup {Eof}) /\ generation \in Nat
    /\ dec_pc \in {"check", "receive", "get", "compare", "send", "got", "clear", "queue"}
    /\ pkt \in Pts \cup {Eof} /\ pkt_serial \in Nat \cup {-1}
    /\ finished \in Nat /\ frame \in Pts
    /\ pending \in Seq(Picture) /\ shown \in Picture \cup {NoPicture}
    /\ disp_pc \in {"poll", "due", "show"} /\ vidclk_serial \in Nat \cup {-1}
    /\ screen \in Picture \cup {NoPicture}
    \* The decoder is past its Get only with the generation of a packet.
    /\ dec_pc \notin {"check", "get"} => pkt_serial # -1

Codecs == [held : Seq(Pts), draining : BOOLEAN]

CodecType == codec \in Codecs

LEMMA Parts == Flags /\ Places /\ CodecType => TypeOK
  BY Zenon DEF TypeOK, Flags, Places, CodecType, Codecs

LEMMA Ends == LastFrame \in Nat /\ 0 \in Pts /\ KeyFrames \subseteq Pts /\ Targets \subseteq Pts
  BY PipelineAssumption DEF PipelineAssumption, Pts

LEMMA FreshIsCodec ==
    FreshCodec \in Codecs /\ FreshCodec.held = <<>> /\ FreshCodec.draining = FALSE
  <1>1. <<>> \in Seq(Pts) /\ FALSE \in BOOLEAN
    OBVIOUS
  <1> QED
    BY <1>1, Zenon DEF FreshCodec, Codecs

LEMMA TypesInit == Init => Flags /\ Places /\ CodecType
  <1> SUFFICES ASSUME Init PROVE Flags /\ Places /\ CodecType
    OBVIOUS
  <1>1. Flags
    BY Zenon DEF Init, Flags, FreshCodec
  <1>2. Places
    BY Ends DEF Init, Places, FreshCodec, NoPicture, Picture
  <1>3. CodecType
    BY FreshIsCodec DEF Init, CodecType
  <1> QED
    BY <1>1, <1>2, <1>3

(***************************************************************************)
(* What the steps do to the codec.                                         *)
(***************************************************************************)
LEMMA WithHeld ==
    ASSUME NEW c \in Codecs, NEW h \in Seq(Pts)
    PROVE  /\ [c EXCEPT !.held = h] \in Codecs
           /\ [c EXCEPT !.held = h].held = h
           /\ [c EXCEPT !.held = h].draining = c.draining
  BY Zenon DEF Codecs

LEMMA WithDraining ==
    ASSUME NEW c \in Codecs
    PROVE  /\ [c EXCEPT !.draining = TRUE] \in Codecs
           /\ [c EXCEPT !.draining = TRUE].held = c.held
           /\ [c EXCEPT !.draining = TRUE].draining = TRUE
  <1>1. TRUE \in BOOLEAN
    OBVIOUS
  <1> QED
    BY <1>1, Zenon DEF Codecs

LEMMA CodecParts == CodecType => codec.held \in Seq(Pts) /\ codec.draining \in BOOLEAN
  BY Zenon DEF CodecType, Codecs

LEMMA CodecReceives ==
    ASSUME CodecType, ReceivePicture
    PROVE  /\ CodecType' /\ codec.held # <<>> /\ frame' = Head(codec.held) /\ frame' \in Pts
           /\ codec'.held = Tail(codec.held) /\ codec'.draining = codec.draining
  <1>1. codec.held # <<>> /\ codec.held \in Seq(Pts)
    <2>1. codec.held \in Seq(Pts)
      BY CodecParts
    <2>2. CASE codec.held = <<>>
      <3>1. Len(codec.held) = 0
        BY <2>2
      <3>2. Len(codec.held) > Delay
        BY <2>2, Zenon DEF ReceivePicture, HasOutput
      <3> QED
        BY <3>1, <3>2, PipelineAssumption DEF PipelineAssumption
    <2> QED
      BY <2>1, <2>2
  <1>2. Tail(codec.held) \in Seq(Pts) /\ Head(codec.held) \in Pts
    BY <1>1
  <1> QED
    BY <1>1, <1>2, WithHeld, Zenon DEF CodecType, ReceivePicture

LEMMA CodecSent ==
    ASSUME CodecType, Places, SendPacket
    PROVE  /\ CodecType'
           /\ pkt = Eof => codec'.held = codec.held /\ codec'.draining = TRUE
           /\ pkt # Eof => /\ codec'.held = Append(codec.held, pkt) /\ pkt \in Pts
                          /\ codec'.draining = codec.draining
  <1>1. CASE pkt = Eof
    BY <1>1, WithDraining, Zenon DEF CodecType, SendPacket
  <1>2. CASE pkt # Eof
    <2>1. pkt \in Pts /\ codec.held \in Seq(Pts)
      BY <1>2, CodecParts DEF Places
    <2>2. Append(codec.held, pkt) \in Seq(Pts)
      BY <2>1
    <2> QED
      BY <1>2, <2>1, <2>2, WithHeld, Zenon DEF CodecType, SendPacket
  <1> QED
    BY <1>1, <1>2

LEMMA CodecStep == CodecType /\ Places /\ [Next]_vars => CodecType'
  <1> SUFFICES ASSUME CodecType, Places, [Next]_vars PROVE CodecType'
    OBVIOUS
  <1>1. CASE ReceivePicture
    BY <1>1, CodecReceives
  <1>2. CASE SendPacket
    BY <1>2, CodecSent
  <1>3. CASE ReceiveEof \/ GetPacket
    BY <1>3, FreshIsCodec, Zenon DEF ReceiveEof, GetPacket, CodecType
  <1>4. CASE UNCHANGED codec
    BY <1>4, Zenon DEF CodecType
  <1> QED
    BY <1>1, <1>2, <1>3, <1>4, Zenon
       DEF Next, Seek, SeekResume, SetRateEof, Reader, SeekSteps, SeekFileFails, SeekFlush, SeekTime,
           SeekFlag, SeekServed, SeekEof, NoSeek, QueueFull, DetectEnd, ReadFrame, ReadEof, Decode,
           CheckSerial, ReceiveNothing, ComparePacket, DropEarly, TestAccurate, ClearAccurate,
           QueuePicture, Display, SkipStale, PictureDue, DropLate, TakePicture, ShowPicture, vars, decoder

LEMMA FlagsStep == Flags /\ [Next]_vars => Flags'
  <1> SUFFICES ASSUME Flags, [Next]_vars PROVE Flags'
    OBVIOUS
  <1> USE DEF Flags
  <1>1. CASE (\E t \in Targets : Seek(t)) \/ SeekResume \/ SetRateEof
    BY <1>1, Zenon DEF Seek, SeekResume, SetRateEof, reading, decoder, seeking
  <1>2. CASE Reader
    <2>2. CASE SeekSteps
      BY <2>2, Zenon DEF SeekSteps, SeekFileFails, SeekFlush, SeekTime, SeekFlag, SeekServed,
                  SeekEof, seeking, game
    <2>3. CASE NoSeek \/ QueueFull \/ ReadFrame \/ ReadEof
      BY <2>3, Zenon DEF NoSeek, QueueFull, ReadFrame, ReadEof, seeking, game
    <2>4. CASE DetectEnd
      <3>1. (paused \/ (Drained /\ eof)) \in BOOLEAN
        BY Zenon
      <3> QED
        BY <2>4, <3>1, Zenon DEF DetectEnd, seeking
    <2> QED
      BY <1>2, <2>2, <2>3, <2>4, Zenon DEF Reader
  <1>3. CASE Decode
    BY <1>3, Zenon DEF Decode, CheckSerial, ReceivePicture, ReceiveEof, ReceiveNothing, GetPacket,
           ComparePacket, SendPacket, DropEarly, TestAccurate, ClearAccurate, QueuePicture,
           reading, seeking, game
  <1>4. CASE Display
    BY <1>4, Zenon DEF Display, SkipStale, PictureDue, DropLate, TakePicture, ShowPicture, reading, seeking, game, decoder
  <1>5. CASE UNCHANGED vars
    BY <1>5, Zenon DEF vars, reading, seeking, game, decoder
  <1> QED
    BY <1>1, <1>2, <1>3, <1>4, <1>5, Zenon DEF Next

LEMMA PlacesStep == Places /\ CodecType /\ [Next]_vars => Places'
  <1> SUFFICES ASSUME Places, CodecType, [Next]_vars PROVE Places'
    OBVIOUS
  <1> USE DEF Places
  <1>1. ASSUME NEW t \in Targets, Seek(t) PROVE Places'
    BY <1>1, Ends DEF Seek, reading, packets, decoder, pictures, display
  <1>2. CASE SeekResume \/ SetRateEof
    BY <1>2, Ends DEF SeekResume, SetRateEof, reading, seeking, packets, decoder, pictures, display
  <1>3. CASE SeekFlush
    BY <1>3, Ends DEF SeekFlush, Packets!Renew, seeking, game, decoder, pictures, display, Pts
  <1>4. CASE SeekFileFails \/ SeekTime \/ SeekFlag \/ SeekServed \/ SeekEof
    BY <1>4 DEF SeekFileFails, SeekTime, SeekFlag, SeekServed, SeekEof, seeking, game, packets,
                decoder, pictures, display
  <1>5. CASE NoSeek \/ QueueFull \/ DetectEnd
    BY <1>5 DEF NoSeek, QueueFull, DetectEnd, seeking, game, packets, decoder, pictures, display
  <1>6. CASE ReadFrame \/ ReadEof
    <2>1. contents' \in Seq(Pts \cup {Eof})
      <3> DEFINE Packet == Pts \cup {Eof}
      <3>1. contents \in Seq(Packet) /\ Eof \in Packet
        OBVIOUS
      <3>2. ReadFrame => read_pos \in Packet
        BY Ends DEF ReadFrame, Pts
      <3>3. \/ contents' = contents
            \/ contents' = Append(contents, Eof)
            \/ ReadFrame /\ contents' = Append(contents, read_pos)
        BY <1>6 DEF ReadFrame, ReadEof, Packets!Enter, packets
      <3> HIDE DEF Packet
      <3>4. \A p \in Packet : Append(contents, p) \in Seq(Packet)
        BY <3>1
      <3>5. contents' \in Seq(Packet)
        BY <3>1, <3>2, <3>3, <3>4, Zenon
      <3> QED
        BY <3>5 DEF Packet
    <2>2. generation' = generation /\ read_pos' \in 0..(LastFrame + 1) /\ read_pc' = "loop"
      BY <1>6, Ends DEF ReadFrame, ReadEof, Packets!Enter, packets
    <2>3. UNCHANGED <<seeking, game, decoder, pictures, display>>
      BY <1>6 DEF ReadFrame, ReadEof
    <2> QED
      BY <2>1, <2>2, <2>3 DEF seeking, game, decoder, pictures, display
  <1>7. CASE CheckSerial \/ ReceiveNothing \/ ComparePacket \/ DropEarly \/ TestAccurate \/ ClearAccurate
    BY <1>7 DEF CheckSerial, ReceiveNothing, ComparePacket, DropEarly, TestAccurate, ClearAccurate,
                reading, seeking, game, packets, pictures, display
  <1>8. CASE ReceivePicture
    BY <1>8, CodecReceives DEF ReceivePicture, reading, seeking, game, packets, pictures, display
  <1>9. CASE ReceiveEof
    BY <1>9 DEF ReceiveEof, reading, seeking, game, packets, pictures, display
  <1>10. CASE GetPacket
    BY <1>10 DEF GetPacket, Packets!Leave, reading, seeking, game, pictures, display
  <1>11. CASE SendPacket
    BY <1>11 DEF SendPacket, reading, seeking, game, packets, pictures, display
  <1>12. CASE QueuePicture
    BY <1>12 DEF QueuePicture, Pictures!Produce, Picture, reading, seeking, game, packets, display
  <1>13. CASE Display
    <2>1. pending # <<>> => Head(pending) \in Picture /\ Tail(pending) \in Seq(Picture)
      OBVIOUS
    <2>2. UNCHANGED <<reading, seeking, game, packets, decoder>>
      BY <1>13 DEF Display, SkipStale, PictureDue, DropLate, TakePicture, ShowPicture
    <2>3. /\ pending' = pending /\ shown' = shown
          \/ /\ pending # <<>> /\ pending' = Tail(pending) /\ shown' = Head(pending)
      BY <1>13 DEF Display, SkipStale, PictureDue, DropLate, TakePicture, ShowPicture, Pictures!Consume, pictures
    <2>4. /\ disp_pc' \in {"poll", "due", "show"} /\ vidclk_serial' \in {vidclk_serial, generation}
          /\ screen' \in {screen, shown}
      BY <1>13 DEF Display, SkipStale, PictureDue, DropLate, TakePicture, ShowPicture, display
    <2>5. pending' \in Seq(Picture) /\ shown' \in Picture \cup {NoPicture}
          /\ screen' \in Picture \cup {NoPicture}
      BY <2>1, <2>3, <2>4
    <2> QED
      BY <2>2, <2>4, <2>5 DEF reading, seeking, game, packets, decoder
  <1>14. CASE UNCHANGED vars
    BY <1>14 DEF vars, reading, seeking, game, packets, decoder, pictures, display
  <1> QED
    BY <1>1, <1>2, <1>3, <1>4, <1>5, <1>6, <1>7, <1>8, <1>9, <1>10, <1>11, <1>12, <1>13, <1>14
       DEF Next, Reader, SeekSteps, Decode

\* The variables keep their types.
THEOREM PipelineTypes == Spec => []TypeOK
  BY Parts, TypesInit, FlagsStep, PlacesStep, CodecStep, PTL DEF Spec

-----------------------------------------------------------------------------
(***************************************************************************)
(* Packets in order.  The null packet may follow any other.                *)
(***************************************************************************)
Elems(s) == {s[i] : i \in 1..Len(s)}

Follows(x, y) == y = Eof \/ x < y

Sorted(s) == \A i, j \in 1..Len(s) : i < j => Follows(s[i], s[j])

Before(S, T) == \A x \in S, y \in T : Follows(x, y)

LEMMA NoPackets == Elems(<<>>) = {} /\ Sorted(<<>>)
  <1>1. 1..Len(<<>>) = {}
    BY EmptySeq
  <1> QED
    BY <1>1 DEF Elems, Sorted

LEMMA OnePacket == ASSUME NEW x PROVE Elems(<<x>>) = {x} /\ Sorted(<<x>>)
  <1>1. Len(<<x>>) = 1 /\ <<x>>[1] = x
    OBVIOUS
  <1>2. \A i \in 1..Len(<<x>>) : i = 1
    BY <1>1
  <1>3. 1 \in 1..Len(<<x>>)
    BY <1>1
  <1> QED
    BY <1>1, <1>2, <1>3 DEF Elems, Sorted

LEMMA JoinPackets ==
    ASSUME NEW s \in Seq(Int), NEW t \in Seq(Int), Sorted(s), Sorted(t), Before(Elems(s), Elems(t))
    PROVE  s \o t \in Seq(Int) /\ Sorted(s \o t) /\ Elems(s \o t) = Elems(s) \cup Elems(t)
  <1> DEFINE u == s \o t
  <1>1. /\ u \in Seq(Int) /\ Len(u) = Len(s) + Len(t) /\ Len(s) \in Nat /\ Len(t) \in Nat
        /\ \A i \in 1..Len(u) : u[i] = IF i <= Len(s) THEN s[i] ELSE t[i - Len(s)]
    BY ConcatProperties, LenProperties
  <1> HIDE DEF u
  <1>2. \A i \in 1..Len(s) : i \in 1..Len(u) /\ u[i] = s[i]
    BY <1>1
  <1>3. ASSUME NEW i \in 1..Len(t) PROVE i + Len(s) \in 1..Len(u) /\ u[i + Len(s)] = t[i]
    <2>1. i + Len(s) \in 1..Len(u) /\ ~(i + Len(s) <= Len(s)) /\ (i + Len(s)) - Len(s) = i
      BY <1>1
    <2> QED
      BY <1>1, <2>1
  <1>4. \A i \in 1..Len(u) : i \in 1..Len(s) \/ (i - Len(s) \in 1..Len(t) /\ u[i] = t[i - Len(s)])
    BY <1>1
  <1>5. Elems(u) = Elems(s) \cup Elems(t)
    <2>1. ASSUME NEW x \in Elems(u) PROVE x \in Elems(s) \cup Elems(t)
      BY <1>2, <1>4, <2>1 DEF Elems
    <2>2. ASSUME NEW x \in Elems(s) PROVE x \in Elems(u)
      BY <1>2, <2>2 DEF Elems
    <2>3. ASSUME NEW x \in Elems(t) PROVE x \in Elems(u)
      BY <1>3, <2>3 DEF Elems
    <2> QED
      BY <2>1, <2>2, <2>3
  <1>6. Sorted(u)
    <2> SUFFICES ASSUME NEW i \in 1..Len(u), NEW j \in 1..Len(u), i < j PROVE Follows(u[i], u[j])
      BY DEF Sorted
    <2>1. CASE i \in 1..Len(s) /\ j \in 1..Len(s)
      BY <2>1, <1>2 DEF Sorted
    <2>2. CASE i \in 1..Len(s) /\ j \notin 1..Len(s)
      <3>1. u[i] \in Elems(s) /\ u[j] \in Elems(t)
        BY <2>2, <1>2, <1>4 DEF Elems
      <3> QED
        BY <3>1 DEF Before
    <2>3. CASE i \notin 1..Len(s)
      <3>1. i \in Int /\ j \in Int /\ Len(s) \in Int /\ j \notin 1..Len(s)
        BY <2>3, <1>1
      <3>2. i - Len(s) \in 1..Len(t) /\ u[i] = t[i - Len(s)]
        BY <2>3, <1>4
      <3>3. j - Len(s) \in 1..Len(t) /\ u[j] = t[j - Len(s)]
        BY <3>1, <1>4
      <3>4. i - Len(s) < j - Len(s)
        BY <3>1
      <3> QED
        BY <3>2, <3>3, <3>4 DEF Sorted
    <2> QED
      BY <2>1, <2>2, <2>3
  <1> QED
    BY <1>1, <1>5, <1>6 DEF u

LEMMA AppendPacket ==
    ASSUME NEW s \in Seq(Int), NEW x \in Int, Sorted(s), Before(Elems(s), {x})
    PROVE  Sorted(Append(s, x)) /\ Elems(Append(s, x)) = Elems(s) \cup {x}
  <1>1. Append(s, x) = s \o <<x>> /\ <<x>> \in Seq(Int)
    BY AppendIsConcat
  <1>2. Elems(<<x>>) = {x} /\ Sorted(<<x>>)
    BY OnePacket
  <1>3. Sorted(s \o <<x>>) /\ Elems(s \o <<x>>) = Elems(s) \cup Elems(<<x>>)
    BY <1>1, <1>2, JoinPackets
  <1> QED
    BY <1>1, <1>2, <1>3

LEMMA TakePacket ==
    ASSUME NEW s \in Seq(Int), s # <<>>, Sorted(s)
    PROVE  /\ Elems(s) = {Head(s)} \cup Elems(Tail(s))
           /\ Sorted(Tail(s)) /\ Before({Head(s)}, Elems(Tail(s)))
  <1>1. /\ Head(s) = s[1] /\ Len(s) \in Nat /\ Len(s) > 0 /\ Len(Tail(s)) = Len(s) - 1
        /\ \A i \in 1..Len(Tail(s)) : Tail(s)[i] = s[i + 1]
    BY HeadTailProperties, EmptySeq, LenProperties
  <1> DEFINE t == Tail(s)
  <1> HIDE DEF t
  <1>2. \A i \in 1..Len(t) : i \in Nat /\ i + 1 \in 1..Len(s) /\ t[i] = s[i + 1]
    BY <1>1 DEF t
  <1>3. \A i \in 1..Len(s) : i = 1 \/ (i - 1 \in 1..Len(t) /\ t[i - 1] = s[i])
    BY <1>1 DEF t
  <1>4. Elems(s) = {Head(s)} \cup Elems(t)
    <2>1. Head(s) \in Elems(s)
      <3>1. 1 \in 1..Len(s) /\ Head(s) = s[1]
        BY <1>1
      <3> QED
        BY ONLY <3>1 DEF Elems
    <2>3. Elems(t) \subseteq Elems(s)
      BY ONLY <1>2 DEF Elems
    <2>2. ASSUME NEW x \in Elems(s) PROVE x = Head(s) \/ x \in Elems(t)
      <3>1. PICK i \in 1..Len(s) : x = s[i]
        BY <2>2 DEF Elems
      <3>2. CASE i = 1
        BY <1>1, <3>1, <3>2
      <3>3. CASE i - 1 \in 1..Len(t) /\ t[i - 1] = s[i]
        BY <3>1, <3>3 DEF Elems
      <3> QED
        BY <1>3, <3>2, <3>3
    <2> QED
      BY <2>1, <2>2, <2>3
  <1>5. Sorted(t)
    <2> SUFFICES ASSUME NEW i \in 1..Len(t), NEW j \in 1..Len(t), i < j PROVE Follows(t[i], t[j])
      BY DEF Sorted
    <2>1. /\ i + 1 \in 1..Len(s) /\ j + 1 \in 1..Len(s) /\ i + 1 < j + 1
          /\ t[i] = s[i + 1] /\ t[j] = s[j + 1]
      BY <1>2
    <2> QED
      BY <2>1 DEF Sorted
  <1>6. Before({Head(s)}, Elems(t))
    <2> SUFFICES ASSUME NEW i \in 1..Len(t) PROVE Follows(Head(s), t[i])
      BY DEF Before, Elems
    <2>1. 1 \in 1..Len(s) /\ i + 1 \in 1..Len(s) /\ 1 < i + 1 /\ t[i] = s[i + 1]
      BY <1>1, <1>2, LenProperties DEF t
    <2> QED
      BY <1>1, <2>1 DEF Sorted
  <1> QED
    BY <1>4, <1>5, <1>6 DEF t

-----------------------------------------------------------------------------
(***************************************************************************)
(* Order.  What is in flight says nothing of what will be read, so the     *)
(* invariant follows a frame all the way: what is in the queue is before   *)
(* read_pos, what the decoder has is before what is in the queue, and a    *)
(* picture that was queued is before both, each in its generation.         *)
(***************************************************************************)
InHand == IF dec_pc \in {"got", "clear", "queue"} THEN {frame} ELSE {}
InCodec == Elems(codec.held)
InGet == IF dec_pc \in {"compare", "send"} THEN {pkt} ELSE {}
InDecoder == InHand \cup InCodec \cup InGet
InQueue == Elems(contents)

Serials ==
    /\ generation # 0
    /\ pkt_serial # 0 /\ pkt_serial <= generation

DecoderOrder ==
    /\ Sorted(codec.held)
    /\ Before(InHand, InCodec) /\ Before(InHand, InGet) /\ Before(InCodec, InGet)

QueueOrder ==
    /\ Sorted(contents)
    /\ \A x \in InQueue : x < read_pos
    /\ pkt_serial = generation => /\ Before(InDecoder, InQueue)
                                 /\ \A x \in InDecoder : x < read_pos

Passed(p) ==
    /\ p.serial # 0 => p.serial <= pkt_serial
    /\ p.serial = pkt_serial => Before({p.pts}, InDecoder)
    /\ p.serial = generation => Before({p.pts}, InQueue) /\ p.pts < read_pos

Earlier(p, q) == p.serial < q.serial \/ (p.serial = q.serial /\ p.pts < q.pts)

PictureOrder ==
    /\ Passed(Displayed)
    /\ \A i \in 1..Len(pending) :
          Passed(pending[i]) /\ pending[i].serial # 0 /\ Earlier(Displayed, pending[i])
    /\ \A i, j \in 1..Len(pending) : i < j => Earlier(pending[i], pending[j])

VTypes == Places /\ CodecType

VOrder == Serials /\ DecoderOrder /\ QueueOrder /\ PictureOrder

LEMMA OrderInit == Init => VOrder
  <1> SUFFICES ASSUME Init PROVE VOrder
    OBVIOUS
  <1>1. codec.held = <<>> /\ InHand = {} /\ InCodec = {} /\ InGet = {} /\ InQueue = {}
        /\ Sorted(codec.held) /\ Sorted(contents)
    BY NoPackets, FreshIsCodec DEF Init, InHand, InCodec, InGet, InQueue
  <1>2. pending = <<>> /\ Len(pending) = 0 /\ Displayed.serial = 0 /\ Displayed.pts = -1 /\ generation = 1
        /\ pkt_serial = -1
    BY DEF Init, NoPicture, Displayed
  <1> QED
    BY <1>1, <1>2 DEF VOrder, Serials, DecoderOrder, QueueOrder, PictureOrder, Passed, Before, InDecoder

\* All numbers in flight are numbers.
LEMMA Numbers ==
    ASSUME VTypes
    PROVE  /\ Pts \subseteq Nat /\ Eof \in Int
           /\ contents \in Seq(Int) /\ codec.held \in Seq(Int) /\ pkt \in Int /\ frame \in Nat
           /\ InDecoder \subseteq Int /\ InQueue \subseteq Int /\ InHand \subseteq Nat /\ InCodec \subseteq Nat
           /\ pkt_serial \in Int /\ generation \in Nat /\ read_pos \in Nat
           /\ Displayed.serial \in Nat /\ Displayed.pts \in Int
           /\ \A i \in 1..Len(pending) : pending[i] \in Picture /\ pending[i].serial \in Nat /\ pending[i].pts \in Nat
  <1>1. Pts \subseteq Nat /\ Eof \in Int /\ Pts \cup {Eof} \subseteq Int
    BY Ends DEF Pts, Eof
  <1>2. codec.held \in Seq(Pts)
    BY CodecParts DEF VTypes
  <1>3. \A i \in 1..Len(codec.held) : codec.held[i] \in Pts
    BY <1>2, ElementOfSeq
  <1>4. \A i \in 1..Len(contents) : contents[i] \in Pts \cup {Eof}
    BY ElementOfSeq DEF VTypes, Places
  <1>5. contents \in Seq(Int) /\ codec.held \in Seq(Int)
    <2>1. contents \in Seq(Pts \cup {Eof})
      BY DEF VTypes, Places
    <2>2. Pts \subseteq Int
      BY <1>1
    <2> QED
      BY <1>1, <1>2, <2>1, <2>2, SeqMonotonic
  <1>6. pkt \in Int /\ frame \in Nat /\ pkt_serial \in Int /\ generation \in Nat /\ read_pos \in Nat
    BY <1>1, Ends DEF VTypes, Places
  <1>7. InQueue \subseteq Int /\ InCodec \subseteq Nat
    BY <1>1, <1>3, <1>4 DEF InQueue, InCodec, Elems
  <1>8. InHand \subseteq Nat /\ InGet \subseteq Int
    BY <1>6 DEF InHand, InGet
  <1>9. Displayed.serial \in Nat /\ Displayed.pts \in Int
    <2>1. CASE Displayed = NoPicture
      BY <2>1 DEF NoPicture
    <2>2. CASE Displayed \in Picture
      BY <1>1, <2>2 DEF Picture
    <2> QED
      BY <2>1, <2>2 DEF VTypes, Places, Displayed
  <1>10. \A i \in 1..Len(pending) : pending[i] \in Picture
    BY ElementOfSeq DEF VTypes, Places
  <1>11. \A p \in Picture : p.serial \in Nat /\ p.pts \in Nat
    BY <1>1 DEF Picture
  <1> QED
    BY <1>1, <1>5, <1>6, <1>7, <1>8, <1>9, <1>10, <1>11 DEF InDecoder

-----------------------------------------------------------------------------
(***************************************************************************)
(* One lemma for each way a frame moves.                                   *)
(***************************************************************************)
\* The decoder lets go of something, or nothing moves.
LEMMA OrderShrinks ==
    ASSUME VOrder, UNCHANGED <<generation, pkt_serial, contents, read_pos, pending, Displayed>>,
           Sorted(codec.held)', InHand' \subseteq InHand, InCodec' \subseteq InCodec, InGet' \subseteq InGet
    PROVE  VOrder'
  <1>1. InQueue' = InQueue /\ InDecoder' \subseteq InDecoder
    BY DEF InQueue, InDecoder
  <1>2. Serials' /\ DecoderOrder'
    BY DEF VOrder, Serials, DecoderOrder, Before
  <1>3. QueueOrder'
    BY <1>1 DEF VOrder, QueueOrder, Before
  <1>4. \A p : Passed(p) => Passed(p)'
    BY <1>1 DEF Passed, Before
  <1>5. PictureOrder'
    BY <1>4 DEF VOrder, PictureOrder
  <1> QED
    BY <1>2, <1>3, <1>5 DEF VOrder

LEMMA OrderFlush ==
    ASSUME VTypes, VOrder, SeekFlush
    PROVE  VOrder'
  <1>1. /\ generation' = generation + 1 /\ contents' = <<>> /\ generation \in Nat /\ pkt_serial \in Int
        /\ UNCHANGED <<dec_pc, pkt, pkt_serial, codec, frame, pending, Displayed>>
    BY DEF SeekFlush, Packets!Renew, VTypes, Places, decoder, pictures, display, Displayed
  <1>2. InDecoder' = InDecoder /\ InQueue' = {} /\ Sorted(contents)'
    BY <1>1, NoPackets DEF InDecoder, InHand, InCodec, InGet, InQueue
  <1>3. Serials' /\ pkt_serial' # generation'
    BY <1>1 DEF VOrder, Serials
  <1>4. DecoderOrder'
    BY <1>1 DEF VOrder, DecoderOrder, InHand, InCodec, InGet
  <1>5. QueueOrder'
    BY <1>2, <1>3 DEF QueueOrder
  <1>6. ASSUME NEW q, q.serial \in Nat, Passed(q) PROVE Passed(q)'
    <2>1. q.serial # generation'
      BY <1>1, <1>6 DEF Passed, VOrder, Serials
    <2> QED
      BY <1>1, <1>2, <1>6, <2>1 DEF Passed
  <1>7. PictureOrder'
    BY <1>1, <1>6, Numbers DEF VOrder, PictureOrder
  <1> QED
    BY <1>3, <1>4, <1>5, <1>7 DEF VOrder

LEMMA OrderEnters ==
    ASSUME VTypes, VOrder, ReadFrame \/ ReadEof
    PROVE  VOrder'
  <1>1. /\ UNCHANGED <<generation, dec_pc, pkt, pkt_serial, codec, frame, pending, Displayed>>
        /\ \/ UNCHANGED <<contents, read_pos>>
           \/ contents' = Append(contents, Eof) /\ read_pos' = read_pos
           \/ contents' = Append(contents, read_pos) /\ read_pos' = read_pos + 1
    BY DEF ReadFrame, ReadEof, Packets!Enter, packets, decoder, pictures, display, Displayed
  <1>2. InDecoder' = InDecoder /\ InHand' = InHand /\ InCodec' = InCodec /\ InGet' = InGet
    BY <1>1 DEF InDecoder, InHand, InCodec, InGet
  <1>3. CASE UNCHANGED <<contents, read_pos>>
    BY <1>1, <1>2, <1>3, OrderShrinks DEF VOrder, DecoderOrder
  <1>4. ASSUME NEW x \in {Eof, read_pos}, contents' = Append(contents, x), x < read_pos', read_pos <= read_pos'
        PROVE  VOrder'
    <2>1. contents \in Seq(Int) /\ x \in Int /\ read_pos \in Nat /\ InDecoder \subseteq Int /\ InQueue \subseteq Int
          /\ read_pos' \in Nat
      BY <1>1, Numbers
    <2>2. Before(InQueue, {x})
      BY <2>1 DEF VOrder, QueueOrder, Before, Follows
    <2>3. Sorted(contents)' /\ InQueue' = InQueue \cup {x}
      BY <1>4, <2>1, <2>2, AppendPacket DEF InQueue, VOrder, QueueOrder
    <2>4. QueueOrder'
      BY <1>1, <1>2, <1>4, <2>1, <2>3 DEF VOrder, QueueOrder, Before, Follows
    <2>5. ASSUME NEW q, q.pts \in Int, Passed(q) PROVE Passed(q)'
      BY <1>1, <1>2, <1>4, <2>1, <2>3, <2>5 DEF Passed, Before, Follows
    <2>6. Passed(Displayed)'
      <3>1. Displayed.pts \in Int /\ Passed(Displayed)
        BY Numbers DEF VOrder, PictureOrder
      <3> QED
        BY <1>1, <2>5, <3>1
    <2>7. ASSUME NEW n \in 1..Len(pending) PROVE Passed(pending[n])'
      <3>1. pending[n].pts \in Int /\ Passed(pending[n])
        BY <2>7, Numbers DEF VOrder, PictureOrder
      <3> QED
        BY <1>1, <2>5, <3>1
    <2>8. PictureOrder'
      BY <1>1, <2>6, <2>7 DEF VOrder, PictureOrder
    <2> QED
      BY <1>1, <1>2, <2>4, <2>8 DEF VOrder, Serials, DecoderOrder
  <1>5. Eof < read_pos /\ read_pos \in Nat
    BY Numbers DEF Eof
  <1> QED
    BY <1>1, <1>3, <1>4, <1>5

LEMMA OrderReceives ==
    ASSUME VTypes, VOrder, ReceivePicture
    PROVE  VOrder'
  <1>1. /\ UNCHANGED <<generation, pkt_serial, contents, read_pos, pending, Displayed>>
        /\ InHand = {} /\ InGet = {} /\ InGet' = {} /\ InHand' = {frame'}
    BY DEF ReceivePicture, reading, packets, pictures, display, Displayed, InHand, InGet
  <1>2. codec.held # <<>> /\ frame' = Head(codec.held) /\ codec'.held = Tail(codec.held)
    BY CodecReceives DEF VTypes
  <1>3. InCodec = {frame'} \cup Elems(codec'.held) /\ Sorted(codec'.held)
        /\ Before({frame'}, Elems(codec'.held))
    BY <1>2, Numbers, TakePacket DEF InCodec, VOrder, DecoderOrder
  <1>4. InCodec' = Elems(codec'.held)
    BY DEF InCodec, Elems
  <1>5. InDecoder' = InDecoder /\ InQueue' = InQueue
    BY <1>1, <1>3, <1>4 DEF InDecoder, InQueue
  <1>6. DecoderOrder'
    BY <1>1, <1>3, <1>4 DEF DecoderOrder, Before
  <1>7. \A q : Passed(q) => Passed(q)'
    BY <1>1, <1>5 DEF Passed
  <1> QED
    BY <1>1, <1>5, <1>6, <1>7 DEF VOrder, Serials, QueueOrder, PictureOrder

LEMMA OrderGets ==
    ASSUME VTypes, VOrder, GetPacket
    PROVE  VOrder'
  <1>1. /\ UNCHANGED <<generation, read_pos, pending, Displayed>>
        /\ contents # <<>> /\ contents' = Tail(contents) /\ pkt' = Head(contents)
        /\ pkt_serial' = generation
        /\ InHand = {} /\ InGet = {} /\ InHand' = {} /\ InGet' = {pkt'}
    BY DEF GetPacket, Packets!Leave, reading, pictures, display, Displayed, InHand, InGet
  <1>2. /\ InQueue = {pkt'} \cup InQueue' /\ Sorted(contents)' /\ Before({pkt'}, InQueue')
    BY <1>1, Numbers, TakePacket DEF InQueue, VOrder, QueueOrder
  <1>3. Sorted(codec'.held)
        /\ \/ InCodec' = InCodec /\ pkt_serial = generation
           \/ InCodec' = {} /\ pkt_serial # generation
    <2>1. CASE pkt_serial = generation
      BY <1>1, <2>1 DEF GetPacket, VOrder, DecoderOrder, InCodec
    <2>2. CASE pkt_serial # generation
      BY <1>1, <2>2, FreshIsCodec, NoPackets DEF GetPacket, InCodec
    <2> QED
      BY <2>1, <2>2
  <1>4. /\ InDecoder' \subseteq InDecoder \cup {pkt'}
        /\ pkt_serial # generation => InDecoder' = {pkt'}
    BY <1>1, <1>3 DEF InDecoder
  <1>5. DecoderOrder'
    BY <1>1, <1>2, <1>3 DEF DecoderOrder, VOrder, QueueOrder, InDecoder, Before
  <1>6. QueueOrder'
    BY <1>1, <1>2, <1>4 DEF VOrder, QueueOrder, Before
  <1>7. Serials'
    BY <1>1, Numbers DEF VOrder, Serials
  <1>8. ASSUME NEW q, q.serial \in Nat, Passed(q) PROVE Passed(q)'
    <2>1. q.serial # 0 => q.serial <= generation
      BY <1>8, Numbers DEF Passed, VOrder, Serials
    <2>2. q.serial = generation => pkt_serial = generation
      BY <1>8, Numbers DEF Passed, VOrder, Serials
    <2>3. q.serial = generation => Before({q.pts}, InDecoder \cup {pkt'}) /\ Before({q.pts}, InQueue')
      BY <1>2, <1>8, <2>2 DEF Passed, Before
    <2> QED
      BY <1>1, <1>4, <1>8, <2>1, <2>3 DEF Passed, Before
  <1>9. PictureOrder'
    BY <1>1, <1>8, Numbers DEF VOrder, PictureOrder
  <1> QED
    BY <1>5, <1>6, <1>7, <1>9 DEF VOrder

LEMMA OrderSends ==
    ASSUME VTypes, VOrder, SendPacket
    PROVE  VOrder'
  <1>1. /\ UNCHANGED <<generation, pkt_serial, contents, read_pos, pending, Displayed>>
        /\ InHand = {} /\ InGet = {pkt} /\ InHand' = {} /\ InGet' = {}
    BY DEF SendPacket, reading, packets, pictures, display, Displayed, InHand, InGet
  <1>2. CASE pkt = Eof
    <2>1. codec'.held = codec.held
      BY <1>2, CodecSent DEF VTypes
    <2>2. Sorted(codec.held)' /\ InCodec' = InCodec
      BY <2>1 DEF VOrder, DecoderOrder, InCodec, Sorted, Elems
    <2> QED
      BY <1>1, <2>2, OrderShrinks
  <1>3. CASE pkt # Eof
    <2>1. codec'.held = Append(codec.held, pkt)
      BY <1>3, CodecSent DEF VTypes
    <2>2. Sorted(codec'.held) /\ Elems(codec'.held) = InCodec \cup {pkt}
      BY <1>1, <2>1, Numbers, AppendPacket DEF VOrder, DecoderOrder, InCodec
    <2>3. InCodec' = Elems(codec'.held)
      BY DEF InCodec, Elems
    <2>4. InDecoder' = InDecoder /\ InQueue' = InQueue
      BY <1>1, <2>2, <2>3 DEF InDecoder, InQueue
    <2>5. DecoderOrder'
      BY <1>1, <2>2 DEF DecoderOrder, Before
    <2>6. \A q : Passed(q) => Passed(q)'
      BY <1>1, <2>4 DEF Passed
    <2> QED
      BY <1>1, <2>4, <2>5, <2>6 DEF VOrder, Serials, QueueOrder, PictureOrder
  <1> QED
    BY <1>2, <1>3

LEMMA OrderQueues ==
    ASSUME VTypes, VOrder, QueuePicture
    PROVE  VOrder'
  <1> PICK new : new = [pts |-> frame, serial |-> pkt_serial]
    OBVIOUS
  <1>1. /\ UNCHANGED <<generation, pkt_serial, contents, read_pos, Displayed, codec>>
        /\ pending' = Append(pending, new)
        /\ InHand = {frame} /\ InGet = {} /\ InHand' = {} /\ InGet' = {}
    BY DEF QueuePicture, Pictures!Produce, reading, packets, display, Displayed, InHand, InGet
  <1>2. new.pts = frame /\ new.serial = pkt_serial
    OBVIOUS
  <1>3. frame \in Nat /\ pkt_serial \in Nat /\ pkt_serial # 0 /\ frame # Eof
    BY Numbers DEF QueuePicture, VTypes, Places, VOrder, Serials, Eof
  <1>4. InCodec' = InCodec /\ InQueue' = InQueue /\ InDecoder = InDecoder' \cup {frame}
        /\ InDecoder' = InCodec
    BY <1>1 DEF InCodec, InQueue, InDecoder
  <1>5. Serials' /\ DecoderOrder'
    BY <1>1, <1>4 DEF VOrder, Serials, DecoderOrder, Before
  <1>6. QueueOrder'
    BY <1>1, <1>4 DEF VOrder, QueueOrder, Before
  <1>7. \A q : Passed(q) => Passed(q)'
    BY <1>1, <1>4 DEF Passed, Before
  <1>8. ASSUME NEW q, q.serial \in Nat, Passed(q) PROVE Earlier(q, new)
    <2>1. CASE q.serial = pkt_serial
      <3>1. Follows(q.pts, frame)
        BY <1>1, <1>8, <2>1 DEF Passed, Before, InDecoder
      <3> QED
        BY <1>2, <1>3, <2>1, <3>1 DEF Earlier, Follows
    <2>2. CASE q.serial # pkt_serial
      <3>1. q.serial < pkt_serial
        BY <1>3, <1>8, <2>2 DEF Passed
      <3> QED
        BY <1>2, <3>1 DEF Earlier
    <2> QED
      BY <2>1, <2>2
  <1>9. Passed(new)'
    <2>1. Before({frame}, InCodec)
      BY <1>1 DEF VOrder, DecoderOrder
    <2>2. pkt_serial = generation => Before({frame}, InQueue) /\ frame < read_pos
      BY <1>1 DEF VOrder, QueueOrder, InDecoder, Before
    <2> QED
      BY <1>1, <1>2, <1>3, <1>4, <2>1, <2>2 DEF Passed
  <1>10. /\ Len(pending) \in Nat /\ Len(pending') = Len(pending) + 1
         /\ pending'[Len(pending) + 1] = new
         /\ \A i \in 1..Len(pending) : pending'[i] = pending[i]
    <2>1. pending \in Seq(Picture)
      BY DEF VTypes, Places
    <2> QED
      BY <1>1, <2>1
  <1>11. ASSUME NEW i \in 1..Len(pending')
         PROVE  /\ Passed(pending[i])' /\ pending'[i].serial # 0 /\ Earlier(Displayed, pending'[i])
                /\ \A j \in 1..Len(pending') : i < j => Earlier(pending'[i], pending'[j])
    <2>1. CASE i \in 1..Len(pending)
      <3>1. /\ pending'[i] = pending[i] /\ Passed(pending[i]) /\ pending[i].serial # 0
            /\ pending[i].serial \in Nat /\ Earlier(Displayed, pending[i])
        BY <1>10, <2>1, Numbers DEF VOrder, PictureOrder
      <3>2. ASSUME NEW j \in 1..Len(pending'), i < j PROVE Earlier(pending[i], pending'[j])
        <4>1. CASE j = Len(pending) + 1
          BY <1>8, <1>10, <3>1, <4>1
        <4>2. CASE j # Len(pending) + 1
          BY <1>10, <2>1, <3>2, <4>2 DEF VOrder, PictureOrder
        <4> QED
          BY <4>1, <4>2
      <3> QED
        BY <1>7, <3>1, <3>2
    <2>2. CASE i = Len(pending) + 1
      <3>1. pending'[i] = new /\ \A j \in 1..Len(pending') : ~(i < j)
        BY <1>10, <2>2
      <3>2. Earlier(Displayed, new)
        BY <1>8, Numbers DEF VOrder, PictureOrder
      <3> QED
        BY <1>2, <1>3, <1>9, <3>1, <3>2
    <2> QED
      BY <1>10, <2>1, <2>2
  <1>12. PictureOrder'
    <2>1. Displayed' = Displayed
      BY <1>1
    <2>2. Passed(Displayed)'
      BY <1>7, <2>1 DEF VOrder, PictureOrder
    <2>3. \A i \in 1..Len(pending') : Earlier(Displayed, pending[i])'
      BY <1>11, <2>1 DEF Earlier
    <2>4. \A i, j \in 1..Len(pending') : i < j => Earlier(pending[i], pending[j])'
      BY <1>11 DEF Earlier
    <2> QED
      BY <1>11, <2>2, <2>3, <2>4 DEF PictureOrder
  <1> QED
    BY <1>5, <1>6, <1>12 DEF VOrder

LEMMA OrderConsumes ==
    ASSUME VTypes, VOrder, Display
    PROVE  VOrder'
  <1>1. /\ UNCHANGED <<read_pos, contents, generation, dec_pc, pkt, pkt_serial, codec, frame>>
        /\ \/ pending' = pending /\ Displayed' = Displayed
           \/ /\ pending # <<>> /\ pending' = Tail(pending)
              /\ Displayed' = Displayed \/ Displayed' = Head(pending)
    BY DEF Display, SkipStale, PictureDue, DropLate, TakePicture, ShowPicture, Pictures!Consume, reading, packets,
           decoder, pictures, display, Displayed
  <1>2. InHand' = InHand /\ InCodec' = InCodec /\ InGet' = InGet /\ InDecoder' = InDecoder /\ InQueue' = InQueue
    BY <1>1 DEF InHand, InCodec, InGet, InDecoder, InQueue
  <1>3. Serials' /\ DecoderOrder' /\ QueueOrder'
    BY <1>1, <1>2 DEF VOrder, Serials, DecoderOrder, QueueOrder
  <1>4. \A q : Passed(q) => Passed(q)'
    BY <1>1, <1>2 DEF Passed
  <1>5. CASE pending' = pending /\ Displayed' = Displayed
    <2>1. Passed(Displayed)' /\ \A i \in 1..Len(pending') : Passed(pending[i])'
      BY <1>4, <1>5 DEF VOrder, PictureOrder
    <2>2. PictureOrder'
      BY <1>5, <2>1 DEF VOrder, PictureOrder, Earlier
    <2> QED
      BY <1>3, <2>2 DEF VOrder
  <1>6. CASE pending # <<>> /\ pending' = Tail(pending) /\ (Displayed' = Displayed \/ Displayed' = Head(pending))
    <2>1. pending \in Seq(Picture)
      BY DEF VTypes, Places
    <2>2. /\ Len(pending) \in Nat /\ Len(pending) > 0 /\ Head(pending) = pending[1]
          /\ Len(pending') = Len(pending) - 1
          /\ \A i \in 1..Len(pending') : pending'[i] = pending[i + 1]
      BY <1>6, <2>1, HeadTailProperties, EmptySeq, LenProperties
    <2>3. 1 \in 1..Len(pending)
          /\ \A i \in 1..Len(pending') : i \in Nat /\ i + 1 \in 1..Len(pending) /\ 1 < i + 1
      BY <2>2
    <2>4. Passed(Displayed)'
      BY <1>4, <1>6, <2>2, <2>3 DEF VOrder, PictureOrder
    <2>5. ASSUME NEW i \in 1..Len(pending')
          PROVE  Passed(pending[i])' /\ pending'[i].serial # 0 /\ Earlier(Displayed', pending'[i])
      <3>1. /\ pending'[i] = pending[i + 1] /\ i + 1 \in 1..Len(pending) /\ 1 < i + 1
            /\ 1 \in 1..Len(pending)
        BY <2>2, <2>3
      <3>2. Passed(pending[i + 1]) /\ pending[i + 1].serial # 0 /\ Earlier(Displayed, pending[i + 1])
            /\ Earlier(pending[1], pending[i + 1])
        BY <3>1 DEF VOrder, PictureOrder
      <3> QED
        BY <1>4, <1>6, <2>2, <3>1, <3>2
    <2>6. ASSUME NEW i \in 1..Len(pending'), NEW j \in 1..Len(pending'), i < j
          PROVE  Earlier(pending'[i], pending'[j])
      <3>1. i + 1 \in 1..Len(pending) /\ j + 1 \in 1..Len(pending) /\ i + 1 < j + 1
        BY <2>3, <2>6
      <3> QED
        BY <2>2, <3>1 DEF VOrder, PictureOrder
    <2>7. \A i \in 1..Len(pending') : Earlier(Displayed, pending[i])'
      BY <2>5 DEF Earlier
    <2>8. \A i, j \in 1..Len(pending') : i < j => Earlier(pending[i], pending[j])'
      BY <2>6 DEF Earlier
    <2>9. PictureOrder'
      BY <2>4, <2>5, <2>7, <2>8 DEF PictureOrder
    <2> QED
      BY <1>3, <2>9 DEF VOrder
  <1> QED
    BY <1>1, <1>3, <1>5, <1>6 DEF VOrder

LEMMA OrderStep == VTypes /\ VOrder /\ [Next]_vars => VOrder'
  <1> SUFFICES ASSUME VTypes, VOrder, [Next]_vars PROVE VOrder'
    OBVIOUS
  <1>1. CASE SeekFlush
    BY <1>1, OrderFlush
  <1>2. CASE ReadFrame \/ ReadEof
    BY <1>2, OrderEnters
  <1>3. CASE ReceivePicture
    BY <1>3, OrderReceives
  <1>4. CASE GetPacket
    BY <1>4, OrderGets
  <1>5. CASE SendPacket
    BY <1>5, OrderSends
  <1>6. CASE QueuePicture
    BY <1>6, OrderQueues
  <1>7. CASE Display
    BY <1>7, OrderConsumes
  <1>8. CASE ReceiveEof
    <2>1. /\ UNCHANGED <<generation, pkt_serial, contents, read_pos, pending, Displayed>>
          /\ InHand' = {} /\ InGet' = {}
      BY <1>8 DEF ReceiveEof, reading, packets, pictures, display, Displayed, InHand, InGet
    <2>2. Sorted(codec.held)' /\ InCodec' = {}
      BY <1>8, FreshIsCodec, NoPackets DEF ReceiveEof, InCodec
    <2> QED
      BY <2>1, <2>2, OrderShrinks
  <1>9. ASSUME UNCHANGED <<generation, pkt_serial, contents, read_pos, pending, Displayed, codec>>,
               InHand' \subseteq InHand, InGet' \subseteq InGet
        PROVE  VOrder'
    <2>1. Sorted(codec.held)' /\ InCodec' = InCodec
      BY <1>9 DEF VOrder, DecoderOrder, InCodec
    <2> QED
      BY <1>9, <2>1, OrderShrinks
  <1>10. ASSUME NEW t \in Targets, Seek(t) PROVE VOrder'
    BY <1>9, <1>10 DEF Seek, reading, packets, decoder, pictures, display, Displayed, InHand, InGet
  <1>11. CASE SeekResume \/ SetRateEof \/ SeekFileFails \/ SeekTime \/ SeekFlag \/ SeekServed \/ SeekEof
    BY <1>9, <1>11 DEF SeekResume, SetRateEof, SeekFileFails, SeekTime, SeekFlag, SeekServed, SeekEof,
       reading, packets, decoder, pictures, display, Displayed, InHand, InGet
  <1>12. CASE NoSeek \/ QueueFull \/ DetectEnd
    BY <1>9, <1>12 DEF NoSeek, QueueFull, DetectEnd, reading, packets, decoder, pictures, display, Displayed,
       InHand, InGet
  <1>13. CASE CheckSerial \/ ReceiveNothing \/ ComparePacket \/ DropEarly \/ TestAccurate \/ ClearAccurate
    BY <1>9, <1>13 DEF CheckSerial, ReceiveNothing, ComparePacket, DropEarly, TestAccurate,
       ClearAccurate, reading, packets, pictures, display, Displayed, InHand, InGet
  <1>14. CASE UNCHANGED vars
    BY <1>9, <1>14 DEF vars, reading, packets, decoder, pictures, display, Displayed, InHand, InGet
  <1> QED
    BY <1>1, <1>2, <1>3, <1>4, <1>5, <1>6, <1>7, <1>8, <1>10, <1>11, <1>12, <1>13, <1>14
       DEF Next, Reader, SeekSteps, Decode

-----------------------------------------------------------------------------
(***************************************************************************)
(* What follows from the order.                                            *)
(***************************************************************************)
Hand == IF dec_pc \in {"got", "clear", "queue"} THEN <<frame>> ELSE <<>>
Got == IF dec_pc \in {"compare", "send"} THEN <<pkt>> ELSE <<>>

\* InFlight is sorted, and holds what the decoder has (if it is of the current
\* generation) and what the packet queue has.
LEMMA FlightSorted ==
    ASSUME VTypes, VOrder
    PROVE  /\ InFlight \in Seq(Int) /\ Sorted(InFlight)
           /\ Elems(InFlight) = InQueue \cup (IF pkt_serial = generation THEN InDecoder ELSE {})
  <1>1. /\ Hand \in Seq(Int) /\ Elems(Hand) = InHand /\ Sorted(Hand)
        /\ Got \in Seq(Int) /\ Elems(Got) = InGet /\ Sorted(Got)
    <2>1. <<>> \in Seq(Int) /\ <<frame>> \in Seq(Int) /\ <<pkt>> \in Seq(Int)
      BY Numbers
    <2> QED
      BY <2>1, NoPackets, OnePacket DEF Hand, Got, InHand, InGet
  <1>2. /\ codec.held \in Seq(Int) /\ Elems(codec.held) = InCodec /\ Sorted(codec.held)
        /\ contents \in Seq(Int) /\ Elems(contents) = InQueue /\ Sorted(contents)
    BY Numbers DEF InCodec, InQueue, VOrder, DecoderOrder, QueueOrder
  <1>3. /\ Hand \o codec.held \in Seq(Int) /\ Sorted(Hand \o codec.held)
        /\ Elems(Hand \o codec.held) = InHand \cup InCodec
    BY <1>1, <1>2, JoinPackets DEF VOrder, DecoderOrder
  <1> DEFINE s == Hand \o codec.held \o Got
  <1>4. s \in Seq(Int) /\ Sorted(s) /\ Elems(s) = InDecoder
    <2>1. Before(InHand \cup InCodec, InGet)
      BY DEF VOrder, DecoderOrder, Before
    <2> QED
      BY <1>1, <1>3, <2>1, JoinPackets DEF InDecoder
  <1> HIDE DEF s
  <1>5. InFlight = (IF pkt_serial = generation THEN s ELSE <<>>) \o contents
    BY Zenon DEF InFlight, s, Hand, Got
  <1>6. CASE pkt_serial = generation
    <2>1. Before(Elems(s), Elems(contents))
      BY <1>2, <1>4, <1>6 DEF VOrder, QueueOrder
    <2> QED
      BY <1>2, <1>4, <1>5, <1>6, <2>1, JoinPackets
  <1>7. CASE pkt_serial # generation
    <2>1. Before(Elems(<<>>), Elems(contents)) /\ <<>> \in Seq(Int)
      BY NoPackets DEF Before
    <2>2. Sorted(<<>> \o contents) /\ <<>> \o contents \in Seq(Int)
          /\ Elems(<<>> \o contents) = Elems(<<>>) \cup Elems(contents)
      BY <1>2, <2>1, NoPackets, JoinPackets
    <2> QED
      BY <1>2, <1>5, <1>7, <2>2, NoPackets
  <1> QED
    BY <1>6, <1>7

LEMMA OrderShown == VTypes /\ VOrder => InOrder
  <1> SUFFICES ASSUME VTypes, VOrder PROVE InOrder
    OBVIOUS
  <1>1. \A i, j \in 1..Len(InFlight) : i < j => InFlight[j] = Eof \/ InFlight[i] < InFlight[j]
    BY FlightSorted DEF Sorted, Follows
  <1>2. Current \subseteq 1..Len(pending) /\ \A i \in Current : pending[i].serial = generation
    BY DEF Current
  <1>3. ASSUME NEW i \in Current, NEW j \in Current, i < j PROVE pending[i].pts < pending[j].pts
    <2>1. Earlier(pending[i], pending[j])
      BY <1>2, <1>3 DEF VOrder, PictureOrder
    <2> QED
      BY <1>2, <2>1, Numbers DEF Earlier
  <1>4. ASSUME NEW i \in Current, NEW j \in 1..Len(InFlight)
        PROVE  InFlight[j] = Eof \/ pending[i].pts < InFlight[j]
    <2>1. Passed(pending[i]) /\ pending[i].serial = generation
      BY <1>2 DEF VOrder, PictureOrder
    <2>2. InFlight[j] \in InQueue \/ (pkt_serial = generation /\ InFlight[j] \in InDecoder)
      <3>1. InFlight[j] \in Elems(InFlight)
        BY DEF Elems
      <3> QED
        BY <3>1, FlightSorted
    <2> QED
      BY <2>1, <2>2 DEF Passed, Before, Follows
  <1> QED
    BY <1>1, <1>3, <1>4 DEF InOrder

\* The frames of one generation stay in order all the way from the demuxer to
\* the display, and never mix with those of another.
THEOREM FramesInOrder == Spec => []InOrder
  <1>1. Init => VTypes /\ VOrder
    BY TypesInit, OrderInit DEF VTypes
  <1>2. VTypes /\ VOrder /\ [Next]_vars => VTypes' /\ VOrder'
    BY PlacesStep, CodecStep, OrderStep DEF VTypes
  <1> QED
    BY <1>1, <1>2, OrderShown, PTL DEF Spec

\* The picture the display thread is about to hand over comes after the one on
\* the screen; and the last to leave the queue is that picture, unless there are
\* more to come or what is on the screen is from before a seek.
Handed ==
    /\ disp_pc = "show" => Earlier(screen, shown)
    /\ Displayed = shown \/ pending # <<>> \/ Displayed.serial < generation

LEMMA HandedInit == Init => Handed
  BY DEF Init, Handed, Displayed

\* What a picture goes by when it leaves the queue.
LEMMA HeadIsLater ==
    ASSUME VTypes, VOrder, pending # <<>>
    PROVE  /\ Earlier(Displayed, Head(pending))
           /\ Head(pending).serial \in Nat /\ Head(pending).pts \in Nat
           /\ Head(pending).serial <= generation
           /\ Len(pending) > 1 => Tail(pending) # <<>>
  <1>1. pending \in Seq(Picture)
    BY DEF VTypes, Places
  <1>2. Head(pending) = pending[1] /\ 1 \in 1..Len(pending) /\ Len(Tail(pending)) = Len(pending) - 1
    BY <1>1, HeadTailProperties, EmptySeq, LenProperties
  <1>3. Earlier(Displayed, pending[1]) /\ Passed(pending[1]) /\ pending[1].serial # 0
    BY <1>2 DEF VOrder, PictureOrder
  <1>4. pending[1].serial \in Nat /\ pending[1].pts \in Nat /\ pkt_serial \in Int /\ generation \in Nat
    BY <1>2, Numbers
  <1>5. pending[1].serial <= pkt_serial /\ pkt_serial <= generation
    BY <1>3 DEF Passed, VOrder, Serials
  <1>6. pending[1].serial <= generation
    BY <1>4, <1>5
  <1>7. Len(pending) > 1 => Tail(pending) # <<>>
    BY <1>1, <1>2
  <1> QED
    BY <1>2, <1>3, <1>4, <1>6, <1>7

LEMMA HandedStep == VTypes /\ VOrder /\ Handed /\ [Next]_vars => Handed'
  <1> SUFFICES ASSUME VTypes, VOrder, Handed, [Next]_vars PROVE Handed'
    OBVIOUS
  <1>1. generation \in Nat /\ Displayed.serial \in Nat
    BY Numbers
  <1>2. ASSUME UNCHANGED <<shown, display>>, generation' \in {generation, generation + 1},
               pending' = pending \/ pending' # <<>>
        PROVE  Handed'
    BY <1>1, <1>2 DEF Handed, Displayed, Earlier, display
  <1>3. CASE SeekFlush
    BY <1>2, <1>3 DEF SeekFlush, Packets!Renew, pictures
  <1>4. CASE QueuePicture
    <2>1. pending \in Seq(Picture)
      BY DEF VTypes, Places
    <2>2. pending' # <<>>
      BY <1>4, <2>1 DEF QueuePicture, Pictures!Produce
    <2>3. UNCHANGED <<shown, display, generation>>
      BY <1>4 DEF QueuePicture, Pictures!Produce, packets
    <2> QED
      BY <1>2, <2>2, <2>3
  <1>5. CASE SkipStale
    <2>1. /\ pending # <<>> /\ Head(pending).serial # generation
          /\ disp_pc = "poll" /\ UNCHANGED <<disp_pc, screen, generation>>
      BY <1>5 DEF SkipStale, display, packets
    <2>2. Displayed = screen /\ Displayed' = screen /\ generation' = generation /\ disp_pc' = "poll"
      BY <2>1 DEF Displayed
    <2>3. Displayed.serial < generation
      BY <1>1, <2>1, HeadIsLater DEF Earlier
    <2> QED
      BY <2>2, <2>3 DEF Handed
  <1>6. CASE PictureDue
    <2>1. UNCHANGED <<pictures, screen, generation>> /\ disp_pc = "poll" /\ disp_pc' = "due"
      BY <1>6 DEF PictureDue, packets
    <2> QED
      BY <2>1 DEF Handed, Displayed, pictures
  <1>7. CASE DropLate
    <2>1. pending # <<>> /\ pending' = Tail(pending) /\ Len(pending) > 1 /\ disp_pc' = "poll"
      BY <1>7 DEF DropLate, Pictures!Consume
    <2> QED
      BY <2>1, HeadIsLater DEF Handed
  <1>8. CASE TakePicture
    <2>1. /\ pending # <<>> /\ shown' = Head(pending)
          /\ disp_pc = "due" /\ disp_pc' = "show" /\ screen' = screen
      BY <1>8 DEF TakePicture, Pictures!Consume
    <2>2. Displayed = screen /\ Displayed' = shown'
      BY <2>1 DEF Displayed
    <2>3. Earlier(screen, shown')
      BY <2>1, <2>2, HeadIsLater
    <2> QED
      BY <2>1, <2>2, <2>3 DEF Handed, Earlier
  <1>9. CASE ShowPicture
    BY <1>9 DEF ShowPicture, Handed, Displayed, pictures
  <1>10. CASE \E t \in Targets : Seek(t)
    BY <1>2, <1>10 DEF Seek, pictures, packets
  <1>11. CASE SeekResume \/ SetRateEof
    BY <1>2, <1>11 DEF SeekResume, SetRateEof, pictures, packets
  <1>12. CASE SeekFileFails \/ SeekTime \/ SeekFlag \/ SeekServed \/ SeekEof \/ NoSeek \/ QueueFull \/ DetectEnd
    BY <1>2, <1>12 DEF SeekFileFails, SeekTime, SeekFlag, SeekServed, SeekEof, NoSeek, QueueFull, DetectEnd,
       pictures, packets
  <1>13. CASE ReadFrame \/ ReadEof
    BY <1>2, <1>13 DEF ReadFrame, ReadEof, Packets!Enter, pictures, packets
  <1>14. CASE CheckSerial \/ ReceivePicture \/ ReceiveEof \/ ReceiveNothing \/ GetPacket \/ ComparePacket
    BY <1>2, <1>14 DEF CheckSerial, ReceivePicture, ReceiveEof, ReceiveNothing, GetPacket, Packets!Leave,
       ComparePacket, pictures, packets
  <1>15. CASE SendPacket \/ DropEarly \/ TestAccurate \/ ClearAccurate
    BY <1>2, <1>15 DEF SendPacket, DropEarly, TestAccurate, ClearAccurate, pictures, packets
  <1>16. CASE UNCHANGED vars
    BY <1>2, <1>16 DEF vars, pictures, packets
  <1> QED
    BY <1>3, <1>4, <1>5, <1>6, <1>7, <1>8, <1>9, <1>10, <1>11, <1>12, <1>13, <1>14, <1>15, <1>16
       DEF Next, Reader, SeekSteps, Decode, Display

LEMMA ScreenStep ==
    ASSUME VTypes, Handed, [Next]_vars, screen' # screen
    PROVE  \/ screen'.serial > screen.serial
           \/ screen'.serial = screen.serial /\ screen'.pts > screen.pts
  <1>1. ShowPicture
    BY DEF Next, Seek, SeekResume, SetRateEof, Reader, SeekSteps, SeekFileFails, SeekFlush, SeekTime,
           SeekFlag, SeekServed, SeekEof, NoSeek, QueueFull, DetectEnd, ReadFrame, ReadEof, Decode,
           CheckSerial, ReceivePicture, ReceiveEof, ReceiveNothing, GetPacket, ComparePacket,
           SendPacket, DropEarly, TestAccurate, ClearAccurate, QueuePicture, Display, SkipStale,
           PictureDue, DropLate, TakePicture, vars, display
  <1>2. Earlier(screen, screen')
    BY <1>1 DEF ShowPicture, Handed
  <1>3. \A p \in Picture \cup {NoPicture} : p.serial \in Int /\ p.pts \in Int
    BY Ends DEF Picture, NoPicture, Pts
  <1>4. screen \in Picture \cup {NoPicture} /\ screen' \in Picture \cup {NoPicture}
    BY <1>1 DEF ShowPicture, VTypes, Places
  <1> QED
    BY <1>2, <1>3, <1>4 DEF Earlier

\* Between two seeks the screen only goes forward.
THEOREM ScreenGoesForward == Spec => ScreenForward
  <1>1. Init => VTypes /\ VOrder /\ Handed
    BY TypesInit, OrderInit, HandedInit DEF VTypes
  <1>2. VTypes /\ VOrder /\ Handed /\ [Next]_vars => VTypes' /\ VOrder' /\ Handed'
    BY PlacesStep, CodecStep, OrderStep, HandedStep DEF VTypes
  <1>3. VTypes /\ Handed /\ [Next]_vars
        => [screen' # screen =>
              \/ screen'.serial > screen.serial
              \/ screen'.serial = screen.serial /\ screen'.pts > screen.pts]_screen
    BY ScreenStep
  <1> QED
    BY <1>1, <1>2, <1>3, PTL DEF Spec, ScreenForward

-----------------------------------------------------------------------------
(***************************************************************************)
(* The end.  Of one generation the null packet is the last: once it is in  *)
(* the queue the demuxer is at the end, once the decoder has it nothing    *)
(* else is in the queue, once the codec is drained nothing is in flight.   *)
(***************************************************************************)
NothingLeft == read_pos = LastFrame + 1 /\ InQueue \subseteq {Eof}

NullLast ==
    /\ Eof \in InQueue => read_pos = LastFrame + 1
    /\ \A i, j \in 1..Len(contents) : i < j /\ contents[i] = Eof => contents[j] = Eof

NullDecoded ==
    /\ pkt_serial = generation /\ Eof \in InGet => NothingLeft
    /\ pkt_serial = generation /\ codec.draining => NothingLeft /\ InGet \subseteq {Eof}

AllDecoded ==
    /\ finished # 0 => finished = pkt_serial
    /\ finished = generation => NothingLeft /\ InDecoder \subseteq {Eof}

VEnd == NullLast /\ NullDecoded /\ AllDecoded

LEMMA EndInit == Init => VEnd
  <1> SUFFICES ASSUME Init PROVE VEnd
    OBVIOUS
  <1>1. InGet = {} /\ InQueue = {} /\ ~codec.draining /\ Len(contents) = 0
    BY NoPackets, FreshIsCodec DEF Init, InGet, InQueue
  <1>2. finished = 0 /\ generation = 1
    BY DEF Init
  <1> QED
    BY <1>1, <1>2 DEF VEnd, NullLast, NullDecoded, AllDecoded

\* Nothing moves, or the decoder lets go of something.
LEMMA EndShrinks ==
    ASSUME VEnd, UNCHANGED <<generation, pkt_serial, contents, read_pos, finished>>,
           InHand' \subseteq InHand, InCodec' \subseteq InCodec, InGet' \subseteq InGet,
           codec'.draining => codec.draining
    PROVE  VEnd'
  <1>1. InQueue' = InQueue /\ InDecoder' \subseteq InDecoder
    BY DEF InQueue, InDecoder
  <1>2. NothingLeft' = NothingLeft
    BY <1>1 DEF NothingLeft
  <1>3. NullLast'
    BY <1>1 DEF VEnd, NullLast
  <1>4. NullDecoded' /\ AllDecoded'
    BY <1>1, <1>2 DEF VEnd, NullDecoded, AllDecoded
  <1> QED
    BY <1>3, <1>4 DEF VEnd

LEMMA EndFlush ==
    ASSUME VTypes, VOrder, VEnd, SeekFlush
    PROVE  VEnd'
  <1>1. /\ generation' = generation + 1 /\ contents' = <<>> /\ generation \in Nat /\ pkt_serial \in Int
        /\ pkt_serial <= generation /\ UNCHANGED <<pkt_serial, finished>>
    BY DEF SeekFlush, Packets!Renew, VTypes, Places, decoder, VOrder, Serials
  <1>2. InQueue' = {} /\ Len(contents') = 0
    BY <1>1, NoPackets DEF InQueue
  <1>3. pkt_serial' # generation' /\ finished' # generation'
    BY <1>1 DEF VEnd, AllDecoded
  <1> QED
    BY <1>1, <1>2, <1>3 DEF VEnd, NullLast, NullDecoded, AllDecoded

LEMMA EndEnters ==
    ASSUME VTypes, VOrder, VEnd, ReadFrame \/ ReadEof
    PROVE  VEnd'
  <1>1. /\ UNCHANGED <<generation, dec_pc, pkt, pkt_serial, codec, finished, frame>>
        /\ \/ UNCHANGED <<contents, read_pos>>
           \/ contents' = Append(contents, Eof) /\ read_pos' = read_pos /\ read_pos = LastFrame + 1
           \/ contents' = Append(contents, read_pos) /\ read_pos # LastFrame + 1
    <2>1. read_pos \in 0..(LastFrame + 1) /\ LastFrame \in Nat
      BY Ends DEF VTypes, Places
    <2> QED
      BY <2>1 DEF ReadFrame, ReadEof, Packets!Enter, packets, decoder
  <1>2. InDecoder' = InDecoder /\ InHand' = InHand /\ InCodec' = InCodec /\ InGet' = InGet
    BY <1>1 DEF InDecoder, InHand, InCodec, InGet
  <1>3. CASE UNCHANGED <<contents, read_pos>>
    BY <1>1, <1>2, <1>3, EndShrinks
  <1>4. ASSUME NEW x \in {Eof, read_pos}, contents' = Append(contents, x)
        PROVE  /\ InQueue' = InQueue \cup {x}
               /\ Len(contents) \in Nat /\ Len(contents') = Len(contents) + 1
               /\ contents'[Len(contents) + 1] = x
               /\ \A i \in 1..Len(contents) : contents'[i] = contents[i] /\ contents[i] \in InQueue
    <2>1. contents \in Seq(Int) /\ x \in Int /\ x < read_pos + 1 /\ read_pos \in Nat
      BY Numbers DEF Eof
    <2>2. Before(InQueue, {x})
      BY <2>1 DEF VOrder, QueueOrder, Before, Follows
    <2>3. InQueue' = InQueue \cup {x}
      BY <1>4, <2>1, <2>2, AppendPacket DEF InQueue, VOrder, QueueOrder
    <2> QED
      BY <1>4, <2>1, <2>3 DEF InQueue, Elems
  <1>5. CASE contents' = Append(contents, Eof) /\ read_pos' = read_pos /\ read_pos = LastFrame + 1
    <2>1. NullLast'
      <3>1. \A i, j \in 1..Len(contents') : i < j /\ contents'[i] = Eof => contents'[j] = Eof
        BY <1>4, <1>5 DEF VEnd, NullLast
      <3> QED
        BY <1>5, <3>1 DEF NullLast
    <2>2. NothingLeft => NothingLeft'
      BY <1>4, <1>5 DEF NothingLeft
    <2> QED
      BY <1>1, <1>2, <2>1, <2>2 DEF VEnd, NullDecoded, AllDecoded
  <1>6. CASE contents' = Append(contents, read_pos) /\ read_pos # LastFrame + 1
    <2>1. ~NothingLeft /\ Eof \notin InQueue
      BY <1>6 DEF NothingLeft, VEnd, NullLast
    <2>2. read_pos # Eof
      BY Numbers DEF Eof
    <2>3. NullLast'
      <3>1. Eof \notin InQueue'
        BY <1>4, <1>6, <2>1, <2>2
      <3>2. \A i, j \in 1..Len(contents') : ~(i < j /\ contents'[i] = Eof)
        BY <1>4, <1>6, <2>1, <2>2
      <3> QED
        BY <3>1, <3>2 DEF NullLast
    <2> QED
      BY <1>1, <1>2, <2>1, <2>3 DEF VEnd, NullDecoded, AllDecoded
  <1> QED
    BY <1>1, <1>3, <1>5, <1>6

LEMMA EndGets ==
    ASSUME VTypes, VOrder, VEnd, GetPacket
    PROVE  VEnd'
  <1>1. /\ UNCHANGED <<generation, read_pos>>
        /\ contents # <<>> /\ contents' = Tail(contents) /\ pkt' = Head(contents)
        /\ pkt_serial' = generation
        /\ InHand = {} /\ InGet = {} /\ InHand' = {} /\ InGet' = {pkt'}
    BY DEF GetPacket, Packets!Leave, reading, InHand, InGet
  <1>2. InQueue = {pkt'} \cup InQueue'
    BY <1>1, Numbers, TakePacket DEF InQueue, VOrder, QueueOrder
  <1>3. /\ pkt' = contents[1] /\ Len(contents) \in Nat /\ Len(contents) > 0
        /\ Len(contents') = Len(contents) - 1
        /\ \A i \in 1..Len(contents') : contents'[i] = contents[i + 1]
    BY <1>1, Numbers, HeadTailProperties, EmptySeq, LenProperties
  <1>4. 1 \in 1..Len(contents)
        /\ \A i \in 1..Len(contents') : i \in Nat /\ i + 1 \in 1..Len(contents) /\ 1 < i + 1
    BY <1>3
  <1>5. NullLast'
    <2>1. ASSUME NEW i \in 1..Len(contents'), NEW j \in 1..Len(contents'), i < j, contents'[i] = Eof
          PROVE  contents'[j] = Eof
      <3>1. i + 1 \in 1..Len(contents) /\ j + 1 \in 1..Len(contents) /\ i + 1 < j + 1
        BY <1>4, <2>1
      <3> QED
        BY <1>3, <2>1, <3>1 DEF VEnd, NullLast
    <2> QED
      BY <1>1, <1>2, <2>1 DEF VEnd, NullLast
  <1>6. pkt' = Eof => NothingLeft'
    <2> SUFFICES ASSUME pkt' = Eof PROVE NothingLeft'
      OBVIOUS
    <2>1. \A i \in 1..Len(contents') : contents'[i] = Eof
      BY <1>3, <1>4 DEF VEnd, NullLast
    <2>2. read_pos' = LastFrame + 1
      BY <1>1, <1>2 DEF VEnd, NullLast
    <2> QED
      BY <2>1, <2>2 DEF NothingLeft, InQueue, Elems
  <1>7. NothingLeft => NothingLeft' /\ pkt' = Eof
    BY <1>1, <1>2 DEF NothingLeft
  <1>8. CASE pkt_serial = generation
    <2>1. codec' = codec /\ finished' = finished
      BY <1>1, <1>8 DEF GetPacket
    <2>2. InDecoder' \subseteq InDecoder \cup {pkt'}
      BY <1>1, <2>1 DEF InDecoder, InCodec
    <2> QED
      BY <1>1, <1>5, <1>6, <1>7, <1>8, <2>1, <2>2 DEF VEnd, NullDecoded, AllDecoded
  <1>9. CASE pkt_serial # generation
    <2>1. ~codec'.draining /\ finished' = 0 /\ generation # 0
      BY <1>1, <1>9, FreshIsCodec DEF GetPacket, VOrder, Serials
    <2> QED
      BY <1>1, <1>5, <1>6, <2>1 DEF VEnd, NullDecoded, AllDecoded
  <1> QED
    BY <1>8, <1>9

LEMMA EndSends ==
    ASSUME VTypes, VEnd, SendPacket
    PROVE  VEnd'
  <1>1. /\ UNCHANGED <<generation, pkt_serial, contents, read_pos, finished>>
        /\ InHand = {} /\ InGet = {pkt} /\ InHand' = {} /\ InGet' = {}
    BY DEF SendPacket, reading, packets, InHand, InGet
  <1>2. NothingLeft' = NothingLeft /\ NullLast'
    BY <1>1 DEF NothingLeft, InQueue, VEnd, NullLast
  <1>3. CASE pkt = Eof
    <2>1. codec'.held = codec.held
      BY <1>3, CodecSent DEF VTypes
    <2>2. InCodec' = InCodec
      BY <2>1 DEF InCodec, Elems
    <2>3. pkt_serial = generation => NothingLeft
      BY <1>1, <1>3 DEF VEnd, NullDecoded
    <2> QED
      BY <1>1, <1>2, <2>2, <2>3 DEF VEnd, NullDecoded, AllDecoded, InDecoder
  <1>4. CASE pkt # Eof
    <2>1. codec'.draining = codec.draining
      BY <1>4, CodecSent DEF VTypes
    <2>2. finished # generation
      BY <1>1, <1>4 DEF VEnd, AllDecoded, InDecoder
    <2> QED
      BY <1>1, <1>2, <2>1, <2>2 DEF VEnd, NullDecoded, AllDecoded
  <1> QED
    BY <1>3, <1>4

LEMMA EndReceives ==
    ASSUME VTypes, VOrder, VEnd, ReceivePicture
    PROVE  VEnd'
  <1>1. /\ UNCHANGED <<generation, pkt_serial, contents, read_pos, finished>>
        /\ InHand = {} /\ InGet = {} /\ InGet' = {} /\ InHand' = {frame'}
    BY DEF ReceivePicture, reading, packets, InHand, InGet
  <1>2. codec.held # <<>> /\ frame' = Head(codec.held) /\ codec'.held = Tail(codec.held)
        /\ codec'.draining = codec.draining /\ frame' \in Pts
    BY CodecReceives DEF VTypes
  <1>3. frame' \in InCodec
    BY <1>2, Numbers, TakePacket DEF InCodec, VOrder, DecoderOrder
  <1>4. finished # generation
    BY <1>2, <1>3, Numbers DEF VEnd, AllDecoded, InDecoder, Eof
  <1>5. NothingLeft' = NothingLeft /\ NullLast'
    BY <1>1 DEF NothingLeft, InQueue, VEnd, NullLast
  <1> QED
    BY <1>1, <1>2, <1>4, <1>5 DEF VEnd, NullDecoded, AllDecoded

LEMMA EndFinishes ==
    ASSUME VTypes, VOrder, VEnd, ReceiveEof
    PROVE  VEnd'
  <1>1. /\ UNCHANGED <<generation, pkt_serial, contents, read_pos>>
        /\ finished' = pkt_serial /\ InHand' = {} /\ InGet' = {}
    BY DEF ReceiveEof, reading, packets, InHand, InGet
  <1>2. codec.draining
    BY Zenon DEF ReceiveEof, Exhausted
  <1>3. ~codec'.draining /\ InCodec' = {}
    BY FreshIsCodec, NoPackets DEF ReceiveEof, InCodec
  <1>4. NothingLeft' = NothingLeft /\ NullLast'
    BY <1>1 DEF NothingLeft, InQueue, VEnd, NullLast
  <1> QED
    BY <1>1, <1>2, <1>3, <1>4 DEF VEnd, NullDecoded, AllDecoded, InDecoder

LEMMA EndStep == VTypes /\ VOrder /\ VEnd /\ [Next]_vars => VEnd'
  <1> SUFFICES ASSUME VTypes, VOrder, VEnd, [Next]_vars PROVE VEnd'
    OBVIOUS
  <1>1. CASE SeekFlush
    BY <1>1, EndFlush
  <1>2. CASE ReadFrame \/ ReadEof
    BY <1>2, EndEnters
  <1>3. CASE ReceivePicture
    BY <1>3, EndReceives
  <1>4. CASE GetPacket
    BY <1>4, EndGets
  <1>5. CASE SendPacket
    BY <1>5, EndSends
  <1>6. CASE ReceiveEof
    BY <1>6, EndFinishes
  <1>7. ASSUME UNCHANGED <<generation, pkt_serial, contents, read_pos, finished, codec>>,
               InHand' \subseteq InHand, InGet' \subseteq InGet
        PROVE  VEnd'
    BY <1>7, EndShrinks DEF InCodec
  <1>8. ASSUME NEW t \in Targets, Seek(t) PROVE VEnd'
    BY <1>7, <1>8 DEF Seek, reading, packets, decoder, InHand, InGet
  <1>9. CASE SeekResume \/ SetRateEof \/ SeekFileFails \/ SeekTime \/ SeekFlag \/ SeekServed \/ SeekEof
    BY <1>7, <1>9 DEF SeekResume, SetRateEof, SeekFileFails, SeekTime, SeekFlag, SeekServed, SeekEof,
       reading, packets, decoder, InHand, InGet
  <1>10. CASE NoSeek \/ QueueFull \/ DetectEnd
    BY <1>7, <1>10 DEF NoSeek, QueueFull, DetectEnd, packets, decoder, InHand, InGet
  <1>11. CASE CheckSerial \/ ReceiveNothing \/ ComparePacket \/ DropEarly \/ TestAccurate
              \/ ClearAccurate \/ QueuePicture
    BY <1>7, <1>11 DEF CheckSerial, ReceiveNothing, ComparePacket, DropEarly, TestAccurate,
       ClearAccurate, QueuePicture, reading, packets, InHand, InGet
  <1>12. CASE Display
    BY <1>7, <1>12 DEF Display, SkipStale, PictureDue, DropLate, TakePicture, ShowPicture, reading, packets,
       decoder, InHand, InGet
  <1>13. CASE UNCHANGED vars
    BY <1>7, <1>13 DEF vars, reading, packets, decoder, InHand, InGet
  <1> QED
    BY <1>1, <1>2, <1>3, <1>4, <1>5, <1>6, <1>8, <1>9, <1>10, <1>11, <1>12, <1>13
       DEF Next, Reader, SeekSteps, Decode

(***************************************************************************)
(* A picture is taken to be shown.  Pictures are dropped in four places,   *)
(* each for a reason of its own; the last frame of the film gets through   *)
(* them all unless another one of its generation has been taken.           *)
(***************************************************************************)
Seen == Displayed.serial = generation

Pictured == Seen \/ Current # {}

\* The last frame is on its way to the picture queue.
Coming ==
    \/ read_pos <= LastFrame
    \/ LastFrame \in InQueue
    \/ pkt_serial = generation /\ LastFrame \in InDecoder

\* The clock that lets a frame be dropped early was set by a picture that is
\* taken to be shown or followed by another one.
ClockSet ==
    /\ vidclk_serial <= generation
    /\ vidclk_serial = generation => Pictured

VShown == (Pictured \/ Coming) /\ ClockSet

LEMMA ShownInit == Init => VShown
  BY Ends DEF Init, VShown, Coming, ClockSet

\* Nothing happens to the pictures and the clock.
LEMMA ShownComes ==
    ASSUME VShown, UNCHANGED <<generation, vidclk_serial, pending, Displayed>>, Coming => Coming' \/ Pictured
    PROVE  VShown'
  <1>1. Pictured' = Pictured
    BY DEF Pictured, Seen, Current
  <1> QED
    BY <1>1 DEF VShown, ClockSet

LEMMA ShownFlush ==
    ASSUME VTypes, VShown, SeekFlush
    PROVE  VShown'
  <1>1. /\ generation' = generation + 1 /\ generation \in Nat /\ vidclk_serial \in Int
        /\ vidclk_serial <= generation /\ vidclk_serial' = vidclk_serial /\ read_pos' \in KeyFrames
    BY DEF SeekFlush, Packets!Renew, display, Displayed, VTypes, Places, VShown, ClockSet
  <1>2. read_pos' <= LastFrame
    BY <1>1, Ends DEF Pts
  <1>3. vidclk_serial' <= generation' /\ vidclk_serial' # generation'
    BY <1>1
  <1> QED
    BY <1>2, <1>3 DEF VShown, Coming, ClockSet

LEMMA ShownEnters ==
    ASSUME VTypes, VOrder, VShown, ReadFrame \/ ReadEof
    PROVE  VShown'
  <1>1. /\ UNCHANGED <<generation, dec_pc, pkt, pkt_serial, codec, frame, pending, Displayed, vidclk_serial>>
        /\ \/ UNCHANGED <<contents, read_pos>>
           \/ contents' = Append(contents, Eof) /\ read_pos' = read_pos
           \/ contents' = Append(contents, read_pos) /\ read_pos' = read_pos + 1
    BY DEF ReadFrame, ReadEof, Packets!Enter, packets, decoder, pictures, display, Displayed
  <1>2. InDecoder' = InDecoder
    BY <1>1 DEF InDecoder, InHand, InCodec, InGet
  <1>3. ASSUME NEW x \in {Eof, read_pos}, contents' = Append(contents, x)
        PROVE  InQueue' = InQueue \cup {x}
    <2>1. contents \in Seq(Int) /\ x \in Int /\ x < read_pos + 1 /\ read_pos \in Nat
      BY Numbers DEF Eof
    <2>2. Before(InQueue, {x})
      BY <2>1 DEF VOrder, QueueOrder, Before, Follows
    <2> QED
      BY <1>3, <2>1, <2>2, AppendPacket DEF InQueue, VOrder, QueueOrder
  <1>4. Coming => Coming'
    <2>1. CASE UNCHANGED <<contents, read_pos>>
      BY <1>1, <1>2, <2>1 DEF Coming, InQueue
    <2>2. CASE contents' = Append(contents, Eof) /\ read_pos' = read_pos
      BY <1>1, <1>2, <1>3, <2>2 DEF Coming
    <2>3. CASE contents' = Append(contents, read_pos) /\ read_pos' = read_pos + 1
      <3>1. read_pos \in Nat /\ LastFrame \in Nat
        BY Numbers, Ends
      <3>2. read_pos <= LastFrame => read_pos = LastFrame \/ read_pos' <= LastFrame
        BY <2>3, <3>1
      <3> QED
        BY <1>1, <1>2, <1>3, <2>3, <3>2 DEF Coming
    <2> QED
      BY <1>1, <2>1, <2>2, <2>3
  <1> QED
    BY <1>1, <1>4, ShownComes

LEMMA ShownReceives ==
    ASSUME VTypes, VOrder, VShown, ReceivePicture
    PROVE  VShown'
  <1>1. /\ UNCHANGED <<generation, pkt_serial, contents, read_pos, pending, Displayed, vidclk_serial>>
        /\ InHand = {} /\ InGet = {} /\ InHand' = {frame'}
    BY DEF ReceivePicture, reading, packets, pictures, display, Displayed, InHand, InGet
  <1>2. codec.held # <<>> /\ frame' = Head(codec.held) /\ codec'.held = Tail(codec.held)
    BY CodecReceives DEF VTypes
  <1>3. InCodec = {frame'} \cup InCodec'
    BY <1>2, Numbers, TakePacket DEF InCodec, VOrder, DecoderOrder
  <1> QED
    BY <1>1, <1>3, ShownComes DEF Coming, InDecoder, InQueue

LEMMA ShownGets ==
    ASSUME VTypes, VOrder, VShown, GetPacket
    PROVE  VShown'
  <1>1. /\ UNCHANGED <<generation, read_pos, pending, Displayed, vidclk_serial>>
        /\ contents # <<>> /\ contents' = Tail(contents) /\ pkt' = Head(contents)
        /\ pkt_serial' = generation
        /\ InHand = {} /\ InGet = {} /\ InGet' = {pkt'}
        /\ pkt_serial = generation => codec' = codec
    BY DEF GetPacket, Packets!Leave, reading, pictures, display, Displayed, InHand, InGet
  <1>2. InQueue = {pkt'} \cup InQueue'
    BY <1>1, Numbers, TakePacket DEF InQueue, VOrder, QueueOrder
  <1>3. pkt_serial = generation => InCodec' = InCodec
    BY <1>1 DEF InCodec
  <1> QED
    BY <1>1, <1>2, <1>3, ShownComes DEF Coming, InDecoder

LEMMA ShownSends ==
    ASSUME VTypes, VOrder, VShown, SendPacket
    PROVE  VShown'
  <1>1. /\ UNCHANGED <<generation, pkt_serial, contents, read_pos, pending, Displayed, vidclk_serial>>
        /\ InHand = {} /\ InGet = {pkt}
    BY DEF SendPacket, reading, packets, pictures, display, Displayed, InHand, InGet
  <1>2. InQueue' = InQueue
    BY <1>1 DEF InQueue
  <1>3. CASE pkt = Eof
    <2>1. codec'.held = codec.held
      BY <1>3, CodecSent DEF VTypes
    <2>2. InCodec' = InCodec /\ LastFrame # pkt
      BY <1>3, <2>1, Ends DEF InCodec, Eof
    <2> QED
      BY <1>1, <1>2, <2>2, ShownComes DEF Coming, InDecoder
  <1>4. CASE pkt # Eof
    <2>1. codec'.held = Append(codec.held, pkt)
      BY <1>4, CodecSent DEF VTypes
    <2>2. Sorted(codec.held) /\ Before(InCodec, {pkt})
      BY <1>1 DEF VOrder, DecoderOrder
    <2>3. InCodec' = InCodec \cup {pkt}
      BY <2>1, <2>2, Numbers, AppendPacket DEF InCodec
    <2> QED
      BY <1>1, <1>2, <2>3, ShownComes DEF Coming, InDecoder
  <1> QED
    BY <1>3, <1>4

\* The last frame is not before any target.
LEMMA ShownTests ==
    ASSUME VTypes, VShown, TestAccurate
    PROVE  VShown'
  <1>1. /\ UNCHANGED <<generation, pkt_serial, contents, read_pos, codec, pending, Displayed, vidclk_serial>>
        /\ InHand = {frame} /\ InGet = {}
        /\ dec_pc' \in {"queue", "clear"} \/ frame < accurate_seek_time
        /\ frame' = frame
    BY DEF TestAccurate, reading, packets, pictures, display, Displayed, InHand, InGet
  <1>2. accurate_seek_time \in Pts /\ LastFrame \in Nat
    BY Ends DEF VTypes, Places
  <1>3. frame = LastFrame => InHand' = InHand
    BY <1>1, <1>2 DEF InHand, Pts
  <1>4. InCodec' = InCodec /\ InQueue' = InQueue
    BY <1>1 DEF InCodec, InQueue
  <1> QED
    BY <1>1, <1>3, <1>4, ShownComes DEF Coming, InDecoder

LEMMA ShownQueues ==
    ASSUME VTypes, VShown, QueuePicture
    PROVE  VShown'
  <1> PICK new : new = [pts |-> frame, serial |-> pkt_serial]
    OBVIOUS
  <1>1. /\ UNCHANGED <<generation, pkt_serial, contents, read_pos, Displayed, codec, vidclk_serial>>
        /\ pending' = Append(pending, new) /\ new.serial = pkt_serial
        /\ InHand = {frame} /\ InGet = {}
    BY DEF QueuePicture, Pictures!Produce, reading, packets, display, Displayed, InHand, InGet
  <1>2. /\ Len(pending) \in Nat /\ Len(pending') = Len(pending) + 1
        /\ pending'[Len(pending) + 1] = new
        /\ \A i \in 1..Len(pending) : pending'[i] = pending[i]
    <2>1. pending \in Seq(Picture)
      BY DEF VTypes, Places
    <2> QED
      BY <1>1, <2>1
  <1>3. Current \subseteq Current' /\ (pkt_serial = generation => Len(pending) + 1 \in Current')
    BY <1>1, <1>2 DEF Current
  <1>4. Pictured => Pictured'
    BY <1>1, <1>3 DEF Pictured, Seen
  <1>5. Coming => Coming' \/ Pictured'
    <2>1. InQueue' = InQueue
      BY <1>1 DEF InQueue
    <2> QED
      BY <1>1, <1>3, <2>1 DEF Coming, Pictured
  <1> QED
    BY <1>1, <1>4, <1>5 DEF VShown, ClockSet

\* A picture that is dropped for being late leaves another one behind it.
LEMMA ShownDisplays ==
    ASSUME VTypes, VOrder, VShown, Display
    PROVE  VShown'
  <1>1. /\ UNCHANGED <<read_pos, contents, generation, dec_pc, pkt, pkt_serial, codec, frame>>
        /\ \/ UNCHANGED <<pending, Displayed, vidclk_serial>>
           \/ pending' = pending /\ Displayed' = Displayed /\ 1 \in Current /\ vidclk_serial' = generation
           \/ /\ pending # <<>> /\ pending' = Tail(pending) /\ vidclk_serial' = vidclk_serial
              /\ \/ Displayed' = Head(pending)
                 \/ Displayed' = Displayed /\ (Head(pending).serial # generation \/ Len(pending) > 1)
    <2>1. pending \in Seq(Picture)
      BY DEF VTypes, Places
    <2>2. pending # <<>> => Head(pending) = pending[1] /\ 1 \in 1..Len(pending)
      BY <2>1, HeadTailProperties, EmptySeq, LenProperties
    <2>3. CASE SkipStale \/ PictureDue \/ DropLate
      BY <2>2, <2>3 DEF SkipStale, PictureDue, DropLate, Pictures!Consume, reading, packets, decoder, pictures,
         display, Displayed, Current
    <2>4. CASE TakePicture
      BY <2>4 DEF TakePicture, Pictures!Consume, reading, packets, decoder, Displayed
    <2>5. CASE ShowPicture
      BY <2>5 DEF ShowPicture, reading, packets, decoder, pictures, Displayed
    <2> QED
      BY <2>3, <2>4, <2>5 DEF Display
  <1>2. Coming => Coming'
    BY <1>1 DEF Coming, InQueue, InDecoder, InHand, InCodec, InGet
  <1>3. CASE pending' = pending /\ Displayed' = Displayed /\ 1 \in Current /\ vidclk_serial' = generation
    <2>1. Pictured'
      BY <1>1, <1>3 DEF Pictured, Current
    <2> QED
      BY <1>1, <1>3, <2>1, Numbers DEF VShown, ClockSet
  <1>4. CASE /\ pending # <<>> /\ pending' = Tail(pending) /\ vidclk_serial' = vidclk_serial
             /\ \/ Displayed' = Head(pending)
                \/ Displayed' = Displayed /\ (Head(pending).serial # generation \/ Len(pending) > 1)
    <2>1. pending \in Seq(Picture)
      BY DEF VTypes, Places
    <2>2. /\ Len(pending) \in Nat /\ Len(pending) > 0 /\ Head(pending) = pending[1]
          /\ Len(pending') = Len(pending) - 1
          /\ \A i \in 1..Len(pending') : pending'[i] = pending[i + 1]
      BY <1>4, <2>1, HeadTailProperties, EmptySeq, LenProperties
    <2>3. ASSUME NEW i \in Current, i # 1 PROVE i - 1 \in Current'
      <3>1. i \in 1..Len(pending) /\ pending[i].serial = generation
        BY DEF Current
      <3>2. i - 1 \in 1..Len(pending') /\ (i - 1) + 1 = i
        BY <2>2, <2>3, <3>1
      <3>3. pending'[i - 1] = pending[i]
        BY <2>2, <3>2
      <3> QED
        BY <1>1, <3>1, <3>2, <3>3 DEF Current
    \* What is behind a picture of the current generation is of it too.
    <2>4. ASSUME 1 \in Current, Len(pending) > 1 PROVE 2 \in Current
      <3>1. 1 \in 1..Len(pending) /\ 2 \in 1..Len(pending) /\ pending[1].serial = generation
        BY <2>2, <2>4 DEF Current
      <3>2. Earlier(pending[1], pending[2]) /\ Passed(pending[2]) /\ pending[2].serial # 0
        BY <3>1 DEF VOrder, PictureOrder
      <3>3. pending[2].serial <= pkt_serial /\ pkt_serial <= generation
        BY <3>2 DEF Passed, VOrder, Serials
      <3>4. pending[2].serial \in Nat /\ pkt_serial \in Int /\ generation \in Nat
        BY <3>1, Numbers
      <3>5. pending[2].serial >= generation
        BY <3>1, <3>2, <3>4 DEF Earlier
      <3> QED
        BY <3>1, <3>3, <3>4, <3>5 DEF Current
    <2>5. Pictured => Pictured'
      <3>1. CASE \E i \in Current : i # 1
        BY <2>3, <3>1 DEF Pictured
      <3>2. CASE Seen /\ Displayed' = Displayed
        BY <1>1, <3>2 DEF Pictured, Seen
      <3>3. CASE Seen /\ Displayed' # Displayed
        <4>1. Displayed' = pending[1] /\ 1 \in 1..Len(pending)
          BY <1>4, <2>2, <3>3
        <4>2. Earlier(Displayed, pending[1]) /\ Passed(pending[1]) /\ pending[1].serial # 0
          BY <4>1 DEF VOrder, PictureOrder
        <4>3. /\ pending[1].serial <= pkt_serial /\ pkt_serial <= generation
              /\ pending[1].serial \in Nat /\ pkt_serial \in Int /\ generation \in Nat
          BY <4>1, <4>2, Numbers DEF Passed, VOrder, Serials
        <4>4. pending[1].serial >= generation
          BY <3>3, <4>2, <4>3 DEF Earlier, Seen
        <4>5. pending[1].serial = generation
          BY <4>3, <4>4
        <4> QED
          BY <1>1, <4>1, <4>5 DEF Pictured, Seen
      <3>4. CASE 1 \in Current /\ ~(\E i \in Current : i # 1)
        <4>1. pending[1].serial = generation /\ ~(Len(pending) > 1)
          BY <2>4, <3>4 DEF Current
        <4>2. Displayed' = pending[1]
          BY <1>4, <2>2, <4>1
        <4> QED
          BY <1>1, <4>1, <4>2 DEF Pictured, Seen
      <3> QED
        BY <3>1, <3>2, <3>3, <3>4 DEF Pictured
    <2> QED
      BY <1>1, <1>2, <1>4, <2>5 DEF VShown, ClockSet
  <1>5. CASE UNCHANGED <<pending, Displayed, vidclk_serial>>
    BY <1>1, <1>2, <1>5 DEF VShown, ClockSet, Pictured, Seen, Current
  <1> QED
    BY <1>1, <1>3, <1>4, <1>5

LEMMA ShownStep == VTypes /\ VOrder /\ VShown /\ [Next]_vars => VShown'
  <1> SUFFICES ASSUME VTypes, VOrder, VShown, [Next]_vars PROVE VShown'
    OBVIOUS
  <1>1. CASE SeekFlush
    BY <1>1, ShownFlush
  <1>2. CASE ReadFrame \/ ReadEof
    BY <1>2, ShownEnters
  <1>3. CASE ReceivePicture
    BY <1>3, ShownReceives
  <1>4. CASE GetPacket
    BY <1>4, ShownGets
  <1>5. CASE SendPacket
    BY <1>5, ShownSends
  <1>6. CASE TestAccurate
    BY <1>6, ShownTests
  <1>7. CASE QueuePicture
    BY <1>7, ShownQueues
  <1>8. CASE Display
    BY <1>8, ShownDisplays
  <1>9. CASE ReceiveEof
    <2>1. /\ UNCHANGED <<generation, pkt_serial, contents, read_pos, pending, Displayed, vidclk_serial>>
          /\ InHand = {} /\ InGet = {}
      BY <1>9 DEF ReceiveEof, reading, packets, pictures, display, Displayed, InHand, InGet
    <2>2. InCodec = {}
      BY <1>9, NoPackets, Zenon DEF ReceiveEof, Exhausted, InCodec
    <2> QED
      BY <2>1, <2>2, ShownComes DEF Coming, InDecoder, InQueue
  <1>10. CASE DropEarly
    <2>1. /\ UNCHANGED <<generation, pkt_serial, contents, read_pos, pending, Displayed, vidclk_serial>>
          /\ pkt_serial = vidclk_serial
      BY <1>10 DEF DropEarly, reading, packets, pictures, display, Displayed
    <2>2. pkt_serial = generation => Pictured
      BY <2>1 DEF VShown, ClockSet
    <2> QED
      BY <2>1, <2>2, ShownComes DEF Coming, InQueue
  <1>11. ASSUME UNCHANGED <<generation, pkt_serial, contents, read_pos, codec, pending, Displayed, vidclk_serial>>,
                InHand \subseteq InHand', InGet \subseteq InGet' \/ pkt_serial # generation
         PROVE  VShown'
    <2>1. InCodec' = InCodec /\ InQueue' = InQueue
      BY <1>11 DEF InCodec, InQueue
    <2> QED
      BY <1>11, <2>1, ShownComes DEF Coming, InDecoder
  <1>12. ASSUME NEW t \in Targets, Seek(t) PROVE VShown'
    BY <1>11, <1>12 DEF Seek, reading, packets, decoder, pictures, display, Displayed, InHand, InGet
  <1>13. CASE SeekResume \/ SetRateEof \/ SeekFileFails \/ SeekTime \/ SeekFlag \/ SeekServed \/ SeekEof
    BY <1>11, <1>13 DEF SeekResume, SetRateEof, SeekFileFails, SeekTime, SeekFlag, SeekServed, SeekEof,
       reading, packets, decoder, pictures, display, Displayed, InHand, InGet
  <1>14. CASE NoSeek \/ QueueFull \/ DetectEnd
    BY <1>11, <1>14 DEF NoSeek, QueueFull, DetectEnd, reading, packets, decoder, pictures, display, Displayed,
       InHand, InGet
  <1>15. CASE CheckSerial \/ ReceiveNothing \/ ComparePacket \/ ClearAccurate
    BY <1>11, <1>15 DEF CheckSerial, ReceiveNothing, ComparePacket, ClearAccurate, reading, packets,
       pictures, display, Displayed, InHand, InGet
  <1>16. CASE UNCHANGED vars
    BY <1>11, <1>16 DEF vars, reading, packets, decoder, pictures, display, Displayed, InHand, InGet
  <1> QED
    BY <1>1, <1>2, <1>3, <1>4, <1>5, <1>6, <1>7, <1>8, <1>9, <1>10, <1>12, <1>13, <1>14, <1>15, <1>16
       DEF Next, Reader, SeekSteps, Decode

LEMMA EndDetected ==
    ASSUME VTypes, VOrder, VEnd, VShown, Handed, [Next]_vars, ~paused, paused'
    PROVE  /\ read_pos = LastFrame + 1
           /\ shown.serial = generation /\ Displayed = shown
           /\ Current = {}
           /\ \A i \in 1..Len(InFlight) : InFlight[i] = Eof
  <1>1. DetectEnd
    BY Zenon DEF Next, Seek, SeekResume, SetRateEof, Reader, SeekSteps, SeekFileFails, SeekFlush,
       SeekTime, SeekFlag, SeekServed, SeekEof, NoSeek, QueueFull, ReadFrame, ReadEof, Decode,
       CheckSerial, ReceivePicture, ReceiveEof, ReceiveNothing, GetPacket, ComparePacket, SendPacket,
       DropEarly, TestAccurate, ClearAccurate, QueuePicture, Display, SkipStale, PictureDue, DropLate,
       TakePicture, ShowPicture, vars, game
  <1>2. finished = generation /\ pending = <<>>
    BY <1>1, Zenon DEF DetectEnd, Drained
  <1>3. NothingLeft /\ InDecoder \subseteq {Eof}
    BY <1>2 DEF VEnd, AllDecoded
  <1>4. Current = {}
    BY <1>2 DEF Current
  <1>5. \A i \in 1..Len(InFlight) : InFlight[i] \in InQueue \cup InDecoder
    <2>1. \A i \in 1..Len(InFlight) : InFlight[i] \in Elems(InFlight)
      BY DEF Elems
    <2> QED
      BY <2>1, FlightSorted
  <1>6. Seen
    <2>1. finished = pkt_serial
      BY <1>2 DEF VEnd, AllDecoded, VOrder, Serials
    <2>2. LastFrame \in Nat /\ LastFrame # Eof /\ ~(read_pos <= LastFrame)
      BY <1>3, Ends DEF NothingLeft, Eof
    <2>3. ~Coming
      BY <1>3, <2>2 DEF Coming, NothingLeft
    <2> QED
      BY <1>4, <2>3 DEF VShown, Pictured
  <1>7. shown.serial = generation /\ Displayed = shown
    BY <1>2, <1>6, Numbers DEF Handed, Seen
  <1> QED
    BY <1>3, <1>4, <1>5, <1>7 DEF NothingLeft

\* Playback is only ended when every frame read since the last seek has gone
\* through the decoder and has left the picture queue.  The last to leave was not
\* dropped: it is on the screen, or in the hands of the display thread on the way.
THEOREM EndsAfterLastFrame == Spec => EndIsTheEnd
  <1>1. Init => VTypes /\ VOrder /\ VEnd /\ VShown /\ Handed
    BY TypesInit, OrderInit, EndInit, ShownInit, HandedInit DEF VTypes
  <1>2. VTypes /\ VOrder /\ VEnd /\ VShown /\ Handed /\ [Next]_vars
        => VTypes' /\ VOrder' /\ VEnd' /\ VShown' /\ Handed'
    BY PlacesStep, CodecStep, OrderStep, EndStep, ShownStep, HandedStep DEF VTypes
  <1>3. VTypes /\ VOrder /\ VEnd /\ VShown /\ Handed /\ [Next]_vars
        => [~paused /\ paused' =>
              /\ read_pos = LastFrame + 1
              /\ shown.serial = generation /\ Displayed = shown
              /\ Current = {}
              /\ \A i \in 1..Len(InFlight) : InFlight[i] = Eof]_vars
    BY EndDetected
  <1> QED
    BY <1>1, <1>2, <1>3, PTL DEF Spec, EndIsTheEnd

-----------------------------------------------------------------------------
(***************************************************************************)
(* The end is not missed.  Only one null packet is queued at the end of    *)
(* the file, and a seek may fail or flush it: while eof is set it is on    *)
(* its way, or has done its work.                                          *)
(***************************************************************************)
\* A seek is being served; SeekEof will clear eof.
Serving == read_pc \in {"time", "flag", "served", "eof"}

Draining == codec.draining /\ pkt_serial = generation

NullOnItsWay ==
    eof /\ ~Serving =>
        Eof \in InQueue \/ (pkt_serial = generation /\ Eof \in InGet) \/ Draining \/ finished = generation

\* A draining codec gives pictures or the end: the decoder needs no packet.
DrainsToTheEnd == Draining => dec_pc \notin {"get", "compare", "send"}

VNull == NullOnItsWay /\ DrainsToTheEnd

\* A decoder that sleeps on its empty queue has noted the end, if the demuxer
\* is there.
EndNoted == eof /\ ~Serving /\ dec_pc = "get" /\ contents = <<>> => finished = generation

LEMMA NullInit == Init => VNull
  <1> SUFFICES ASSUME Init PROVE VNull
    OBVIOUS
  <1>1. ~eof /\ dec_pc = "check"
    BY DEF Init
  <1> QED
    BY <1>1 DEF VNull, NullOnItsWay, DrainsToTheEnd

\* The null packet stays where it is, and the decoder does not go for packets.
LEMMA NullStays ==
    ASSUME VNull, UNCHANGED <<contents, generation, pkt, pkt_serial, codec, finished>>,
           eof' /\ ~Serving' => eof /\ ~Serving,
           Eof \in InGet /\ pkt_serial = generation => Eof \in InGet',
           Draining /\ dec_pc' \in {"get", "compare", "send"} => dec_pc \in {"get", "compare", "send"}
    PROVE  VNull'
  <1>1. InQueue' = InQueue /\ Draining' = Draining
    BY DEF InQueue, Draining
  <1> QED
    BY <1>1 DEF VNull, NullOnItsWay, DrainsToTheEnd

LEMMA NullEnters ==
    ASSUME VTypes, VOrder, VNull, ReadFrame \/ ReadEof
    PROVE  VNull'
  <1>1. UNCHANGED <<generation, dec_pc, pkt, pkt_serial, codec, finished>>
    BY DEF ReadFrame, ReadEof, Packets!Enter, packets, decoder
  <1>2. Draining' = Draining /\ InGet' = InGet /\ DrainsToTheEnd'
    BY <1>1 DEF Draining, InGet, VNull, DrainsToTheEnd
  <1>3. CASE ReadFrame
    <2>1. ~eof'
      BY <1>3 DEF ReadFrame
    <2> QED
      BY <1>2, <2>1 DEF VNull, NullOnItsWay
  <1>4. CASE ReadEof /\ eof
    <2>1. UNCHANGED contents /\ ~Serving
      BY <1>4 DEF ReadEof, packets, Serving
    <2> QED
      BY <1>1, <1>2, <1>4, <2>1 DEF VNull, NullOnItsWay, InQueue
  <1>5. CASE ReadEof /\ ~eof
    <2>1. contents' = Append(contents, Eof)
      BY <1>5 DEF ReadEof, Packets!Enter
    <2>2. contents \in Seq(Int) /\ Eof \in Int
      BY Numbers DEF Eof
    <2>3. Before(InQueue, {Eof})
      BY DEF Before, Follows
    <2>4. Eof \in InQueue'
      BY <2>1, <2>2, <2>3, AppendPacket DEF InQueue, VOrder, QueueOrder
    <2> QED
      BY <1>2, <2>4 DEF VNull, NullOnItsWay
  <1> QED
    BY <1>3, <1>4, <1>5

LEMMA NullTaken ==
    ASSUME VTypes, VOrder, VNull, VEnd, GetPacket
    PROVE  VNull'
  <1>1. /\ UNCHANGED <<generation, read_pc, eof>>
        /\ contents # <<>> /\ contents' = Tail(contents) /\ pkt' = Head(contents)
        /\ pkt_serial' = generation
        /\ dec_pc = "get" /\ InGet = {} /\ InGet' = {pkt'}
    BY DEF GetPacket, Packets!Leave, reading, InGet
  <1>2. InQueue = {pkt'} \cup InQueue'
    BY <1>1, Numbers, TakePacket DEF InQueue, VOrder, QueueOrder
  <1>3. ~codec'.draining
    <2>1. CASE pkt_serial = generation
      <3>1. ~Draining
        BY <1>1 DEF VNull, DrainsToTheEnd
      <3> QED
        BY <1>1, <2>1, <3>1 DEF GetPacket, Draining
    <2>2. CASE pkt_serial # generation
      BY <1>1, <2>2, FreshIsCodec DEF GetPacket
    <2> QED
      BY <2>1, <2>2
  <1>4. finished = generation => finished' = generation
    <2>1. generation # 0
      BY DEF VOrder, Serials
    <2> QED
      BY <1>1, <2>1 DEF GetPacket, VEnd, AllDecoded
  <1>5. eof' /\ ~Serving' => eof /\ ~Serving
    BY <1>1 DEF Serving
  <1>6. ~Draining
    BY <1>1 DEF VNull, DrainsToTheEnd
  <1> QED
    BY <1>1, <1>2, <1>3, <1>4, <1>5, <1>6 DEF VNull, NullOnItsWay, DrainsToTheEnd, Draining

LEMMA NullSent ==
    ASSUME VTypes, VNull, SendPacket
    PROVE  VNull'
  <1>1. /\ UNCHANGED <<generation, read_pc, eof, contents, pkt_serial, finished>>
        /\ dec_pc = "send" /\ dec_pc' = "check" /\ InGet = {pkt}
    BY DEF SendPacket, reading, packets, InGet
  <1>2. ~Draining
    BY <1>1 DEF VNull, DrainsToTheEnd
  <1>3. pkt = Eof => codec'.draining
    BY CodecSent DEF VTypes
  <1>4. InQueue' = InQueue /\ Serving' = Serving
    BY <1>1 DEF InQueue, Serving
  <1> QED
    BY <1>1, <1>2, <1>3, <1>4 DEF VNull, NullOnItsWay, DrainsToTheEnd, Draining

LEMMA NullReceives ==
    ASSUME VTypes, VOrder, VEnd, VNull, ReceivePicture \/ ReceiveEof
    PROVE  VNull'
  <1>1. /\ UNCHANGED <<generation, read_pc, eof, contents, pkt_serial>>
        /\ dec_pc' \notin {"get", "compare", "send"} /\ InGet = {}
    BY DEF ReceivePicture, ReceiveEof, reading, packets, InGet
  <1>2. InQueue' = InQueue /\ Serving' = Serving
    BY <1>1 DEF InQueue, Serving
  <1>3. Draining => Draining' \/ finished' = generation
    BY <1>1, CodecReceives DEF ReceiveEof, Draining, VTypes
  <1>4. finished = generation => pkt_serial = generation
    BY DEF VOrder, Serials, VEnd, AllDecoded
  <1>5. CASE ReceivePicture
    <2>1. finished' = finished
      BY <1>5 DEF ReceivePicture
    <2> QED
      BY <1>1, <1>2, <1>3, <2>1 DEF VNull, NullOnItsWay, DrainsToTheEnd
  <1>6. CASE ReceiveEof
    <2>1. finished' = pkt_serial /\ codec' = FreshCodec
      BY <1>6, Zenon DEF ReceiveEof
    <2>2. ~Draining'
      BY <2>1, FreshIsCodec DEF Draining
    <2> QED
      BY <1>1, <1>2, <1>3, <1>4, <2>1, <2>2 DEF VNull, NullOnItsWay, DrainsToTheEnd
  <1> QED
    BY <1>5, <1>6

LEMMA NullFlushed ==
    ASSUME VTypes, VOrder, VEnd, SeekFlush
    PROVE  VNull'
  <1>1. /\ generation' = generation + 1 /\ generation \in Nat /\ pkt_serial \in Int
        /\ pkt_serial <= generation /\ pkt_serial' = pkt_serial /\ read_pc' = "time"
    BY DEF SeekFlush, Packets!Renew, VTypes, Places, decoder, VOrder, Serials
  <1>2. Serving' /\ ~Draining'
    BY <1>1 DEF Serving, Draining
  <1> QED
    BY <1>2 DEF VNull, NullOnItsWay, DrainsToTheEnd

LEMMA NullStep == VTypes /\ VOrder /\ VEnd /\ VNull /\ [Next]_vars => VNull'
  <1> SUFFICES ASSUME VTypes, VOrder, VEnd, VNull, [Next]_vars PROVE VNull'
    OBVIOUS
  <1>1. CASE SeekFlush
    BY <1>1, NullFlushed
  <1>2. CASE ReadFrame \/ ReadEof
    BY <1>2, NullEnters
  <1>3. CASE ReceivePicture \/ ReceiveEof
    BY <1>3, NullReceives
  <1>4. CASE GetPacket
    BY <1>4, NullTaken
  <1>5. CASE SendPacket
    BY <1>5, NullSent
  <1>6. ASSUME NEW t \in Targets, Seek(t) PROVE VNull'
    BY <1>6, NullStays DEF Seek, reading, packets, decoder, InGet, Serving
  <1>7. CASE SeekResume \/ SetRateEof \/ Display \/ UNCHANGED vars
    BY <1>7, NullStays DEF SeekResume, SetRateEof, Display, SkipStale, PictureDue, DropLate,
       TakePicture, ShowPicture, reading, packets, decoder, vars, InGet, Serving
  <1>8. CASE SeekFileFails \/ SeekTime \/ SeekFlag \/ SeekServed \/ SeekEof
    BY <1>8, NullStays DEF SeekFileFails, SeekTime, SeekFlag, SeekServed, SeekEof, packets, decoder,
       InGet, Serving
  <1>9. CASE NoSeek \/ QueueFull \/ DetectEnd
    BY <1>9, NullStays DEF NoSeek, QueueFull, DetectEnd, packets, decoder, InGet, Serving
  <1>10. CASE CheckSerial
    BY <1>10, NullStays DEF CheckSerial, reading, packets, InGet, Serving, Draining
  <1>11. CASE ComparePacket
    <2>1. dec_pc = "compare" /\ (pkt_serial = generation => dec_pc' = "send")
      BY <1>11 DEF ComparePacket
    <2> QED
      BY <1>11, <2>1, NullStays DEF ComparePacket, reading, packets, InGet, Serving
  <1>12. CASE ReceiveNothing
    <2>1. ~codec.draining
      BY <1>12, Zenon DEF ReceiveNothing, HasOutput, Exhausted
    <2> QED
      BY <1>12, <2>1, NullStays DEF ReceiveNothing, reading, packets, InGet, Serving, Draining
  <1>13. CASE DropEarly \/ TestAccurate \/ ClearAccurate \/ QueuePicture
    BY <1>13, NullStays DEF DropEarly, TestAccurate, ClearAccurate, QueuePicture, reading, packets,
       InGet, Serving
  <1> QED
    BY <1>1, <1>2, <1>3, <1>4, <1>5, <1>6, <1>7, <1>8, <1>9, <1>10, <1>11, <1>12, <1>13
       DEF Next, Reader, SeekSteps, Decode

LEMMA NullNoted == VNull => EndNoted
  <1> SUFFICES ASSUME VNull, eof, ~Serving, dec_pc = "get", contents = <<>> PROVE finished = generation
    BY DEF EndNoted
  <1>1. InQueue = {} /\ InGet = {}
    BY NoPackets DEF InQueue, InGet
  <1>2. ~Draining
    BY DEF VNull, DrainsToTheEnd
  <1> QED
    BY <1>1, <1>2 DEF VNull, NullOnItsWay

\* The null packet is queued only once, and never lost, whatever seeks come and
\* fail in between: the decoder cannot fall asleep on an empty queue at the end
\* of the file without having noted the end that read_thread waits for.
THEOREM EndIsNotMissed == Spec => []EndNoted
  <1>1. Init => VTypes /\ VOrder /\ VEnd /\ VNull
    BY TypesInit, OrderInit, EndInit, NullInit DEF VTypes
  <1>2. VTypes /\ VOrder /\ VEnd /\ VNull /\ [Next]_vars => VTypes' /\ VOrder' /\ VEnd' /\ VNull'
    BY PlacesStep, CodecStep, OrderStep, EndStep, NullStep DEF VTypes
  <1>3. VNull => EndNoted
    BY NullNoted
  <1> QED
    BY <1>1, <1>2, <1>3, PTL DEF Spec
=============================================================================
