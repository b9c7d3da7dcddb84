------------------------- MODULE FrameQueueProofs -------------------------
(***************************************************************************)
(* Theorems about FrameQueue, for every capacity of two slots or more,     *)
(* with and without keep_last: those about slots and indices under the     *)
(* assumption OneStart below, those about sleeping threads without it.     *)
(***************************************************************************)
EXTENDS FrameQueue, SequenceTheorems, TLAPS

\* A reader that waits in PeekReadable outlives no restart of the decoder.
\* Without it the ring is not safe: see the run frame_queue_reselect.
OneStart == MaxStarts[TRUE] <= 1

(***************************************************************************)
(* The inductive invariant.  RingConsistent says nothing of what the       *)
(* threads know from their earlier tests; these conjuncts carry it.        *)
(***************************************************************************)
\* Once PeekWritable let the writer in, there is room until it has pushed: only
\* the writer makes size grow.
WriterKnows ==
    /\ writer = "recheck" => size < max_size \/ abort_request
    /\ writer \in {"slot", "filled", "moved"} => size < max_size
    /\ writer = "filled" => queue[windex] # NoFrame

\* Once the reader has seen a frame it stays: only the reader makes size shrink.
ReaderKnows ==
    /\ rindex_shown = 1 => keep_last
    /\ reader = "recheck" => abort_request \/ NbRemaining > 0
    /\ reader = "peeked" =>
          NbRemaining > 0 /\ ridx = PeekIndex /\ held = queue[ridx]
    /\ reader = "moved" => size > 0
    /\ (reader = "moved" /\ keep_last) \/ reader = "using" =>
          rindex_shown = 1 /\ ridx = rindex /\ held = queue[ridx]

\* Who lives when.
Lifetimes ==
    /\ owner \in {"started", "open"} => ~abort_request
    /\ owner \in {"closed", "aborted", "joining"} => abort_request
    /\ owner = "closed" => writer = "off"
    /\ owner # "closed" => starts > 0
    /\ starts = 0 => reader = "off"
    /\ reader \in {"test", "wait", "recheck"} => blocking

RingInv == TypeOK /\ RingConsistent /\ WriterKnows /\ ReaderKnows /\ Lifetimes

-----------------------------------------------------------------------------
LEMMA RingInit == Init => RingInv
  <1> SUFFICES ASSUME Init
               PROVE  RingInv
    OBVIOUS
  <1> USE RingAssumption DEF Init
  <1>1. TypeOK
    <2>1. abort_request \in BOOLEAN /\ event \in BOOLEAN
      OBVIOUS
    <2>2. 0 \in Slots /\ queue \in [Slots -> Frame \cup {NoFrame}]
      BY DEF Slots
    <2> QED
      BY <2>1, <2>2 DEF TypeOK, WriterStates, ReaderStates
  <1>2. RingConsistent
    BY DEF RingConsistent, Stored, Wrap
  <1>3. WriterKnows /\ ReaderKnows /\ Lifetimes
    BY DEF WriterKnows, ReaderKnows, Lifetimes
  <1> QED
    BY <1>1, <1>2, <1>3 DEF RingInv

\* The steps that only move a thread from one place to the next.
LEMMA MoveKeeps ==
    ASSUME OneStart, RingInv, 
           \/ Decoded \/ DecodeAborted \/ WritableTest \/ WritableRecheck \/ Skip
           \/ CallReadable \/ ReadableTest \/ PutOff \/ Used
           \/ CreateReader \/ AbortQueue \/ SignalRing \/ JoinDecoder \/ UNCHANGED vars
    PROVE  RingInv'
  <1> USE RingAssumption DEF RingInv, TypeOK, RingConsistent, WriterKnows, ReaderKnows,
        Lifetimes, Slots, Stored, WriterStates, ReaderStates, ring, Full, NbRemaining,
        PeekIndex
  <1>1. CASE Decoded
    BY <1>1 DEF Decoded
  <1>2. CASE DecodeAborted
    BY <1>2 DEF DecodeAborted
  <1>3. CASE WritableTest
    <2>1. /\ writer \in {"test", "wait"} /\ writer' \in {"wait", "recheck"}
          /\ writer' = "recheck" => size < max_size \/ abort_request
          /\ UNCHANGED <<queue, windex, rindex, rindex_shown, size, event, abort_request,
                         reader, ridx, held, owner, starts, blocking>>
      BY <1>3 DEF WritableTest
    <2>2. Stored' = Stored
      BY <2>1
    <2>3. RingConsistent'
      BY <2>1, <2>2
    <2> QED
      BY <2>1, <2>3
  <1>4. CASE WritableRecheck
    <2>1. CASE abort_request
      BY <1>4, <2>1 DEF WritableRecheck
    <2>2. CASE ~abort_request
      BY <1>4, <2>2 DEF WritableRecheck
    <2> QED BY <2>1, <2>2
  <1>5. CASE Skip
    BY <1>5 DEF Skip
  <1>6. CASE CallReadable
    BY <1>6 DEF CallReadable
  <1>7. CASE ReadableTest
    <2>1. /\ reader \in {"test", "wait"} /\ reader' \in {"wait", "recheck"}
          /\ reader' = "recheck" => NbRemaining > 0 \/ abort_request
          /\ UNCHANGED <<queue, windex, rindex, rindex_shown, size, event, abort_request,
                         writer, ridx, held, owner, starts, blocking>>
      BY <1>7 DEF ReadableTest
    <2>2. TypeOK' /\ RingConsistent'
      BY <2>1
    <2>3. ReaderKnows' /\ WriterKnows'
      BY <2>1
    <2> QED
      BY <2>1, <2>2, <2>3
  <1>8. CASE PutOff
    BY <1>8 DEF PutOff
  <1>9. CASE Used
    BY <1>9 DEF Used
  <1>10. CASE CreateReader
    <2>1. /\ owner = "started" /\ owner' = "open"
          /\ reader' = reader \/ (reader = "off" /\ reader' = "idle")
          /\ UNCHANGED <<queue, windex, rindex, rindex_shown, size, event, abort_request,
                         writer, ridx, held, starts, blocking>>
      BY <1>10 DEF CreateReader
    <2>2. TypeOK' /\ RingConsistent'
      <3>1. Stored' = Stored
        BY <2>1
      <3>2. RingConsistent'
        BY <2>1, <3>1
      <3> QED
        BY <2>1, <3>2
    <2>3. ReaderKnows' /\ WriterKnows'
      BY <2>1
    <2> QED
      BY <2>1, <2>2, <2>3
  <1>11. CASE AbortQueue
    BY <1>11 DEF AbortQueue
  <1>12. CASE SignalRing
    BY <1>12 DEF SignalRing, Signal
  <1>13. CASE JoinDecoder
    BY <1>13 DEF JoinDecoder
  <1>14. CASE UNCHANGED vars
    BY <1>14 DEF vars
  <1> QED
    BY <1>1, <1>2, <1>3, <1>4, <1>5, <1>6, <1>7, <1>8, <1>9, <1>10, <1>11, <1>12, <1>13, <1>14

\* Peeking: the frame found is one of those stored.
LEMMA PeekKeeps ==
    ASSUME OneStart, RingInv, PollPeek \/ ReadableRecheck
    PROVE  RingInv'
  <1> USE RingAssumption DEF RingInv, TypeOK, RingConsistent, WriterKnows, ReaderKnows,
        Lifetimes, Slots, Stored, WriterStates, ReaderStates, ring, Full, NbRemaining
  <1>1. ASSUME NbRemaining > 0 PROVE PeekIndex \in Slots
    BY <1>1 DEF PeekIndex, Wrap
  <1>2. CASE PollPeek
    BY <1>1, <1>2 DEF PollPeek, PeekIndex
  <1>3. CASE ReadableRecheck /\ abort_request
    BY <1>3, ZenonT(30) DEF ReadableRecheck, PeekIndex
  <1>4. CASE ReadableRecheck /\ ~abort_request
    BY <1>1, <1>4, ZenonT(30) DEF ReadableRecheck, PeekIndex
  <1> QED
    BY <1>2, <1>3, <1>4

\* Writing a slot: it is not one of those stored.
LEMMA FillKeeps ==
    ASSUME OneStart, RingInv, Fill
    PROVE  RingInv'
  <1> USE RingAssumption DEF RingInv, TypeOK, RingConsistent, WriterKnows, ReaderKnows,
        Lifetimes, Slots, Stored, WriterStates, ReaderStates, ring, Full, NbRemaining
  <1>1. PICK f \in Frame : queue' = [queue EXCEPT ![windex] = f]
    BY DEF Fill
  <1>2. queue'[windex] = f /\ \A j \in Slots : j # windex => queue'[j] = queue[j]
    BY <1>1
  <1>3. \A i \in 0..(Stored - 1) : Wrap(rindex + i) # windex /\ Wrap(rindex + i) \in Slots
    BY DEF Fill, Wrap
  <1>4. TypeOK'
    BY <1>1 DEF Fill
  <1>5. RingConsistent'
    <2>1. Stored' = Stored /\ windex' = windex /\ rindex' = rindex /\ rindex_shown' = rindex_shown
      BY DEF Fill
    <2>2. ASSUME NEW i \in 0..(Stored - 1) PROVE queue'[Wrap(rindex + i)] # NoFrame
      <3>1. Wrap(rindex + i) \in Slots /\ Wrap(rindex + i) # windex
        BY <1>3
      <3>2. queue'[Wrap(rindex + i)] = queue[Wrap(rindex + i)]
        BY ONLY <1>2, <3>1
      <3> QED
        BY <3>2
    <2> QED
      BY <2>1, <2>2
  <1>6. WriterKnows'
    BY <1>2 DEF Fill
  <1>7. ReaderKnows'
    <2>1. reader = "peeked" => ridx # windex
      <3>1. SUFFICES ASSUME reader = "peeked" PROVE ridx # windex
        OBVIOUS
      <3>2. ridx = Wrap(rindex + rindex_shown) /\ rindex_shown \in 0..(Stored - 1)
        BY <3>1 DEF PeekIndex
      <3> QED
        BY ONLY <1>3, <3>2
    <2>2. (reader = "moved" /\ keep_last) \/ reader = "using" => ridx # windex
      BY DEF Wrap, Fill
    <2> QED
      BY <1>2, <2>1, <2>2 DEF Fill, PeekIndex
  <1>8. Lifetimes'
    BY DEF Fill
  <1> QED
    BY <1>4, <1>5, <1>6, <1>7, <1>8

\* Push: the slot written becomes the last one stored, then it is counted.
LEMMA PushKeeps ==
    ASSUME OneStart, RingInv, PushIndex \/ PushCount
    PROVE  RingInv'
  <1> USE RingAssumption DEF RingInv, TypeOK, RingConsistent, WriterKnows, ReaderKnows,
        Lifetimes, Slots, Stored, WriterStates, ReaderStates, ring, Full, NbRemaining
  <1>1. CASE PushIndex
    <2>1. /\ Stored' = Stored + 1 /\ Stored < max_size
          /\ UNCHANGED <<queue, rindex, rindex_shown>>
      BY <1>1 DEF PushIndex
    <2>2. windex' = Wrap(rindex + Stored + 1) /\ windex' \in Slots
      BY <1>1, <2>1 DEF PushIndex, Wrap
    <2>3. queue[Wrap(rindex + Stored)] # NoFrame
      BY <1>1 DEF PushIndex
    <2>4. RingConsistent'
      <3>1. \A i \in 0..(Stored' - 1) : queue'[Wrap(rindex' + i)] # NoFrame
        <4> TAKE i \in 0..(Stored' - 1)
        <4>1. CASE i = Stored
          BY <2>1, <2>3, <4>1
        <4>2. CASE i # Stored
          <5>1. i \in 0..(Stored - 1)
            BY <2>1, <4>2
          <5> QED
            BY <2>1, <5>1
        <4> QED BY <4>1, <4>2
      <3>2. Stored' \in rindex_shown'..max_size
        BY <2>1
      <3>3. windex' = Wrap(rindex' + Stored')
        <4>1. rindex' = rindex /\ rindex' + Stored' = rindex + Stored + 1
          BY <2>1
        <4> QED
          BY <2>2, <4>1
      <3> QED
        BY <3>1, <3>2, <3>3
    <2>5. /\ writer = "filled" /\ writer' = "moved"
          /\ UNCHANGED <<size, event, abort_request, reader, ridx, held, owner, starts, blocking>>
      BY <1>1 DEF PushIndex
    <2>6. TypeOK'
      BY <2>1, <2>2, <2>5
    <2>7. WriterKnows'
      BY <2>5
    <2>8. PeekIndex' = PeekIndex
      BY <2>1 DEF PeekIndex
    <2>9. ReaderKnows'
      BY <2>1, <2>5, <2>8
    <2>10. Lifetimes'
      BY <2>5
    <2> QED
      BY <2>4, <2>6, <2>7, <2>9, <2>10
  <1>2. CASE PushCount
    <2>1. /\ Stored' = Stored /\ size' = size + 1 /\ writer' = "decode"
          /\ UNCHANGED <<queue, windex, rindex, rindex_shown, abort_request,
                         reader, ridx, held, owner, starts, blocking>>
      BY <1>2 DEF PushCount
    <2>2. TypeOK'
      BY <1>2, <2>1 DEF PushCount, Signal
    <2>3. RingConsistent'
      BY <2>1
    <2> QED
      BY <1>2, <2>1, <2>2, <2>3 DEF PushCount, PeekIndex
  <1> QED
    BY <1>1, <1>2

\* Next, the first time: the frame at rindex is the one peeked.
LEMMA NextKeepsKeeps ==
    ASSUME OneStart, RingInv, NextKeeps
    PROVE  RingInv'
  <1> USE RingAssumption DEF RingInv, TypeOK, RingConsistent, WriterKnows, ReaderKnows,
        Lifetimes, Slots, Stored, WriterStates, ReaderStates, ring, Full, NbRemaining
  <1>1. ridx = rindex
    BY DEF NextKeeps, PeekIndex, Wrap
  <1> QED
    BY <1>1 DEF NextKeeps

\* Next otherwise: the oldest frame is freed, never the one peeked if it is kept.
LEMMA NextFreesKeeps ==
    ASSUME OneStart, RingInv, NextFrees
    PROVE  RingInv'
  <1> USE RingAssumption DEF RingInv, TypeOK, RingConsistent, WriterKnows, ReaderKnows,
        Lifetimes, Slots, Stored, WriterStates, ReaderStates, ring, Full, NbRemaining
  <1>1. /\ queue' = [queue EXCEPT ![rindex] = NoFrame]
        /\ \A j \in Slots : j # rindex => queue'[j] = queue[j]
    BY DEF NextFrees
  <1>2. /\ Stored' = Stored - 1 /\ Stored >= 1 /\ Stored >= rindex_shown + 1
        /\ rindex' = Wrap(rindex + 1) /\ rindex' \in Slots /\ rindex' # rindex
    BY DEF NextFrees, Wrap
  <1>3. RingConsistent'
    <2>1. windex' = Wrap(rindex' + Stored')
      BY <1>2 DEF NextFrees, Wrap
    <2>2. ASSUME NEW i \in 0..(Stored' - 1)
          PROVE  queue'[Wrap(rindex' + i)] # NoFrame
      <3>1. i + 1 \in 0..(Stored - 1)
        BY <1>2
      <3>2. /\ Wrap(rindex' + i) = Wrap(rindex + (i + 1))
            /\ Wrap(rindex + (i + 1)) # rindex
            /\ Wrap(rindex + (i + 1)) \in Slots
        BY <1>2, <3>1 DEF Wrap
      <3> QED
        BY <1>1, <3>1, <3>2
    <2> QED
      BY <1>2, <2>1, <2>2 DEF NextFrees
  <1>4. TypeOK'
    <2>1. ridx \in Slots /\ queue' \in [Slots -> Frame \cup {NoFrame}]
      BY <1>1
    <2> QED
      BY <1>2, <2>1 DEF NextFrees
  <1>5. WriterKnows'
    <2>1. writer = "filled" => windex # rindex
      BY <1>2 DEF NextFrees, Wrap
    <2> QED
      BY <1>1, <2>1 DEF NextFrees
  <1>6. ReaderKnows'
    <2>1. keep_last => rindex_shown = 1 /\ ridx = rindex'
      BY <1>2 DEF NextFrees, PeekIndex
    <2> QED
      BY <2>1 DEF NextFrees
  <1>7. Lifetimes'
    BY DEF NextFrees
  <1> QED
    BY <1>3, <1>4, <1>5, <1>6, <1>7

LEMMA NextCountKeeps ==
    ASSUME OneStart, RingInv, NextCount
    PROVE  RingInv'
  <1> USE RingAssumption DEF RingInv, TypeOK, RingConsistent, WriterKnows, ReaderKnows,
        Lifetimes, Slots, Stored, WriterStates, ReaderStates, ring, Full, NbRemaining
  <1>1. CASE keep_last
    BY <1>1 DEF NextCount, Signal
  <1>2. CASE ~keep_last
    BY <1>2 DEF NextCount, Signal
  <1> QED
    BY <1>1, <1>2

LEMMA FirstStart ==
    ASSUME NEW n \in Nat, NEW m \in Nat, m <= 1, n < m
    PROVE  n = 0
  OBVIOUS

\* A restart finds no reader inside PeekReadable.
LEMMA StartKeeps ==
    ASSUME OneStart, RingInv, DecoderStart
    PROVE  RingInv'
  <1> USE RingAssumption DEF RingInv, TypeOK, RingConsistent, WriterKnows, ReaderKnows,
        Lifetimes, Slots, Stored, WriterStates, ReaderStates, ring, Full, NbRemaining
  <1>1. reader \notin {"test", "wait", "recheck"}
    <2>1. CASE blocking
      <3>0. blocking = TRUE
        BY <2>1
      <3>1. MaxStarts[blocking] = MaxStarts[TRUE] /\ MaxStarts[TRUE] \in Nat
        BY <3>0
      <3>2. starts < MaxStarts[TRUE]
        BY <3>0 DEF DecoderStart
      <3>3. MaxStarts[TRUE] <= 1
        BY DEF OneStart
      <3>4. starts \in Nat
        OBVIOUS
      <3>5. starts = 0
        BY ONLY <3>1, <3>2, <3>3, <3>4, FirstStart
      <3> QED
        BY <3>5
    <2>2. CASE ~blocking
      BY <2>2
    <2> QED
      BY <2>1, <2>2
  <1>2. TypeOK'
    <2>1. abort_request' \in BOOLEAN
      BY DEF DecoderStart
    <2> QED
      BY <2>1 DEF DecoderStart
  <1>3. RingConsistent' /\ WriterKnows'
    BY DEF DecoderStart
  <1>4. ReaderKnows'
    BY <1>1 DEF DecoderStart, PeekIndex
  <1>5. Lifetimes'
    BY <1>1 DEF DecoderStart
  <1> QED
    BY <1>2, <1>3, <1>4, <1>5

LEMMA RingStep == OneStart /\ RingInv /\ [Next]_vars => RingInv'
  BY MoveKeeps, PeekKeeps, FillKeeps, PushKeeps, NextKeepsKeeps, NextFreesKeeps,
     NextCountKeeps, StartKeeps
     DEF Next, Writer, Reader, Owner, Aborting

\* The types, for every capacity.
THEOREM RingTypes == ASSUME OneStart PROVE Spec => []TypeOK
  BY RingInit, RingStep, PTL DEF Spec, RingInv

\* The unlocked indices and the locked count agree at every instant.
THEOREM RingAgrees == ASSUME OneStart PROVE Spec => []RingConsistent
  BY RingInit, RingStep, PTL DEF Spec, RingInv

\* The rendering thread never sees the slot it uses written or freed.
THEOREM RingHeld == ASSUME OneStart PROVE Spec => []HeldFrameIntact
  <1>1. RingInv => HeldFrameIntact
    <2> SUFFICES ASSUME RingInv, Reading
                 PROVE  queue[ridx] = held /\ held # NoFrame
      BY DEF HeldFrameIntact
    <2> USE RingAssumption DEF RingInv, TypeOK, RingConsistent, WriterKnows, ReaderKnows,
        Lifetimes, Slots, Stored, WriterStates, ReaderStates, ring, Full, NbRemaining
    <2>1. CASE reader = "peeked"
      <3>1. rindex_shown \in 0..(Stored - 1)
        BY <2>1
      <3> QED
        BY <2>1, <3>1 DEF PeekIndex
    <2>2. CASE reader = "using"
      <3>1. 0 \in 0..(Stored - 1) /\ ridx = Wrap(rindex + 0)
        BY <2>2 DEF Wrap
      <3> QED
        BY <2>2, <3>1
    <2> QED
      BY <2>1, <2>2 DEF Reading
  <1> QED
    BY <1>1, RingInit, RingStep, PTL DEF Spec

\* Peek and PeekReadable return a slot with a frame to read in it: as long as the
\* decoder is not started again under a waiting reader, what frame_queue_reselect
\* finds cannot happen.
THEOREM RingReadable == ASSUME OneStart PROVE Spec => []ReadableIsReadable
  <1>1. RingInv => ReadableIsReadable
    BY DEF RingInv, ReaderKnows, ReadableIsReadable
  <1> QED
    BY <1>1, RingInit, RingStep, PTL DEF Spec

\* The decoder thread and the rendering thread never share a slot.
THEOREM RingSeparate == ASSUME OneStart PROVE Spec => []WriterAwayFromReader
  <1>1. RingInv => WriterAwayFromReader
    <2> SUFFICES ASSUME RingInv, Writing, Reading
                 PROVE  windex # ridx
      BY DEF WriterAwayFromReader
    <2> USE RingAssumption DEF RingInv, TypeOK, RingConsistent, WriterKnows, ReaderKnows,
        Lifetimes, Slots, Stored, WriterStates, ReaderStates, ring, Full, NbRemaining
    <2>1. Stored < max_size
      BY DEF Writing
    <2>2. CASE reader = "peeked"
      BY <2>1, <2>2 DEF PeekIndex, Wrap, Writing
    <2>3. CASE reader = "using"
      BY <2>1, <2>3 DEF Wrap, Writing
    <2> QED
      BY <2>2, <2>3 DEF Reading
  <1> QED
    BY <1>1, RingInit, RingStep, PTL DEF Spec

-----------------------------------------------------------------------------
(***************************************************************************)
(* The ring implements FrameBuffer.                                        *)
(***************************************************************************)
\* Frames that are neither consumed nor inside a Next.
Waiting == size - (IF reader = "moved" THEN 1 ELSE 0) - rindex_shown

\* The n frames of the ring q from position r on.
RingFrom(q, r, n) == [i \in 1..n |-> q[Wrap(r + i - 1)]]

\* The reader only takes a frame that was counted.
Counted == Waiting >= 0

BufferInv == RingInv /\ Counted

LEMMA CountedStep == RingInv /\ Counted /\ [Next]_vars => Counted'
  <1> SUFFICES ASSUME RingInv, Counted, [Next]_vars PROVE Counted'
    OBVIOUS
  <1> USE DEF Counted, Waiting
  <1>1. size \in Nat /\ rindex_shown \in {0, 1} /\ (reader = "peeked" => size - rindex_shown > 0)
    BY RingAssumption DEF RingInv, TypeOK, ReaderKnows, NbRemaining
  <1>2. CASE Writer
    BY <1>1, <1>2 DEF Writer, Decoded, DecodeAborted, WritableTest, WritableRecheck, Fill, Skip,
       PushIndex, PushCount, ring
  <1>3. CASE PollPeek \/ CallReadable \/ ReadableTest \/ ReadableRecheck \/ PutOff \/ Used
    BY <1>1, <1>3 DEF PollPeek, CallReadable, ReadableTest, ReadableRecheck, PutOff, Used, ring
  <1>4. CASE NextKeeps \/ NextFrees \/ NextCount
    BY <1>1, <1>4 DEF NextKeeps, NextFrees, NextCount
  <1>5. CASE Owner
    BY <1>1, <1>5 DEF Owner, DecoderStart, CreateReader, AbortQueue, Aborting, SignalRing, JoinDecoder, ring
  <1>6. CASE UNCHANGED vars
    BY <1>1, <1>6 DEF vars, ring
  <1> QED
    BY <1>2, <1>3, <1>4, <1>5, <1>6 DEF Next, Reader

\* What the ring holds, as a sequence of frames.
LEMMA RingFromIsSeq ==
    ASSUME NEW q, NEW r \in Nat, NEW n \in Nat,
           \A i \in 1..n : q[Wrap(r + i - 1)] \in Frame
    PROVE  /\ RingFrom(q, r, n) \in Seq(Frame) /\ Len(RingFrom(q, r, n)) = n
           /\ \A i \in 1..n : RingFrom(q, r, n)[i] = q[Wrap(r + i - 1)]
  <1>1. RingFrom(q, r, n) \in Seq(Frame)
    BY IsASeq DEF RingFrom
  <1> QED
    BY <1>1, LenProperties DEF RingFrom

\* Every frame of the ring is where the writer and the reader expect it.
LEMMA RingFrames ==
    ASSUME BufferInv
    PROVE  /\ Waiting \in Nat /\ rindex + rindex_shown \in Nat
           /\ Waiting + rindex_shown <= Stored /\ Stored <= max_size
           /\ \A i \in 0..(Stored - 1) : Wrap(rindex + i) \in Slots /\ queue[Wrap(rindex + i)] \in Frame
           /\ \A i \in 1..Waiting : rindex_shown + i - 1 \in 0..(Stored - 1)
                                    /\ queue[Wrap(rindex + rindex_shown + i - 1)] \in Frame
  <1> USE RingAssumption DEF BufferInv, RingInv, TypeOK, RingConsistent, Slots, Stored, Waiting, Counted
  <1>1. Waiting \in Nat /\ rindex + rindex_shown \in Nat
        /\ Waiting + rindex_shown <= Stored /\ Stored <= max_size
    OBVIOUS
  <1>2. ASSUME NEW i \in 0..(Stored - 1)
        PROVE  Wrap(rindex + i) \in Slots /\ queue[Wrap(rindex + i)] \in Frame
    <2>1. Wrap(rindex + i) \in Slots
      BY DEF Wrap
    <2> QED
      BY <2>1
  <1>3. ASSUME NEW i \in 1..Waiting
        PROVE  rindex_shown + i - 1 \in 0..(Stored - 1) /\ queue[Wrap(rindex + rindex_shown + i - 1)] \in Frame
    <2>1. rindex_shown + i - 1 \in 0..(Stored - 1)
          /\ rindex + rindex_shown + i - 1 = rindex + (rindex_shown + i - 1)
      BY <1>1
    <2> QED
      BY <1>2, <2>1
  <1> QED
    BY <1>1, <1>2, <1>3

Pending == RingFrom(queue, rindex + rindex_shown, Waiting)
Shown == IF rindex_shown = 1 THEN queue[rindex] ELSE NoFrame

LEMMA PendingIs ==
    ASSUME BufferInv
    PROVE  /\ Pending \in Seq(Frame) /\ Len(Pending) = Waiting
           /\ \A i \in 1..Waiting : Pending[i] = queue[Wrap(rindex + rindex_shown + i - 1)]
  BY RingFrames, RingFromIsSeq DEF Pending

\* The frame that is kept takes one place.
LEMMA KeptPlace ==
    ASSUME BufferInv
    PROVE  (Shown = NoFrame) <=> (rindex_shown = 0)
  <1>1. CASE rindex_shown = 1
    <2>1. 0 \in 0..(Stored - 1) /\ Wrap(rindex + 0) = rindex
      BY <1>1, RingAssumption, RingFrames DEF BufferInv, RingInv, TypeOK, Slots, Wrap, Stored
    <2>2. queue[rindex] \in Frame
      BY <2>1, RingFrames
    <2> QED
      BY <1>1, <2>2, RingAssumption DEF Shown
  <1>2. CASE rindex_shown # 1
    BY <1>2 DEF Shown, BufferInv, RingInv, TypeOK
  <1> QED
    BY <1>1, <1>2

\* A step that moves neither the indices of the reader nor the count.
LEMMA BufferStutters ==
    ASSUME UNCHANGED <<queue, rindex, rindex_shown, Waiting>>
    PROVE  UNCHANGED <<Pending, Shown>>
  BY DEF Pending, Shown, RingFrom

LEMMA BufferFill ==
    ASSUME BufferInv, Fill
    PROVE  UNCHANGED <<Pending, Shown>>
  <1>1. /\ \A j \in Slots : j # windex => queue'[j] = queue[j]
        /\ UNCHANGED <<rindex, rindex_shown, Waiting>>
    BY DEF Fill, Waiting, BufferInv, RingInv, TypeOK
  <1>2. Stored < max_size /\ windex = Wrap(rindex + Stored) /\ rindex \in Slots /\ Stored \in Nat
        /\ rindex_shown \in {0, 1} /\ rindex_shown <= Stored
    BY RingAssumption DEF Fill, BufferInv, RingInv, WriterKnows, TypeOK, RingConsistent, Stored, Slots
  <1>3. ASSUME NEW i \in 0..(Stored - 1) PROVE queue'[Wrap(rindex + i)] = queue[Wrap(rindex + i)]
    <2>1. Wrap(rindex + i) # windex /\ Wrap(rindex + i) \in Slots
      BY <1>2, RingAssumption DEF Wrap, Slots
    <2> QED
      BY <1>1, <2>1
  <1>4. Pending' = Pending
    <2>1. \A i \in 1..Waiting : queue'[Wrap(rindex + rindex_shown + i - 1)] = queue[Wrap(rindex + rindex_shown + i - 1)]
      <3> TAKE i \in 1..Waiting
      <3>1. rindex_shown + i - 1 \in 0..(Stored - 1)
            /\ rindex + rindex_shown + i - 1 = rindex + (rindex_shown + i - 1)
        BY <1>2, RingFrames DEF Slots
      <3> QED
        BY <1>3, <3>1
    <2> QED
      BY <1>1, <2>1 DEF Pending, RingFrom
  <1>5. Shown' = Shown
    <2>1. rindex_shown = 1 => 0 \in 0..(Stored - 1) /\ Wrap(rindex + 0) = rindex
      BY <1>2, RingAssumption DEF Wrap, Slots
    <2> QED
      BY <1>1, <1>3, <2>1 DEF Shown
  <1> QED
    BY <1>4, <1>5

LEMMA BufferPush ==
    ASSUME BufferInv, PushCount
    PROVE  /\ Waiting + rindex_shown < max_size /\ Shown' = Shown
           /\ \E f \in Frame : Pending' = Append(Pending, f)
  <1>1. /\ UNCHANGED <<queue, rindex, rindex_shown>> /\ Waiting' = Waiting + 1
        /\ Waiting + rindex_shown < max_size /\ Stored = Waiting + rindex_shown + 1
    BY RingAssumption DEF PushCount, Waiting, Stored, BufferInv, RingInv, TypeOK, WriterKnows
  <1> DEFINE f == queue[Wrap(rindex + rindex_shown + (Waiting + 1) - 1)]
             new == RingFrom(queue, rindex + rindex_shown, Waiting + 1)
             want == Append(Pending, f)
  <1>2. Waiting \in Nat /\ rindex_shown \in {0, 1} /\ rindex \in Nat
    BY RingFrames DEF BufferInv, RingInv, TypeOK, Slots
  <1>3. f \in Frame
    <2>1. rindex_shown + Waiting \in 0..(Stored - 1)
          /\ rindex + rindex_shown + (Waiting + 1) - 1 = rindex + (rindex_shown + Waiting)
      BY <1>1, <1>2
    <2> QED
      BY <2>1, RingFrames
  <1> HIDE DEF f
  <1>4. /\ Pending \in Seq(Frame) /\ Len(Pending) = Waiting
        /\ \A i \in 1..Waiting : Pending[i] = queue[Wrap(rindex + rindex_shown + i - 1)]
        /\ \A i \in 1..Waiting : queue[Wrap(rindex + rindex_shown + i - 1)] \in Frame
    BY PendingIs, RingFrames
  <1>5. \A i \in 1..(Waiting + 1) : queue[Wrap(rindex + rindex_shown + i - 1)] \in Frame
    <2> TAKE i \in 1..(Waiting + 1)
    <2>1. CASE i = Waiting + 1
      BY <1>3, <2>1 DEF f
    <2>2. CASE i # Waiting + 1
      <3>1. i \in 1..Waiting
        BY <1>2, <2>2
      <3> QED
        BY <1>4, <3>1
    <2> QED
      BY <2>1, <2>2
  <1>6. /\ new \in Seq(Frame) /\ Len(new) = Waiting + 1
        /\ \A i \in 1..(Waiting + 1) : new[i] = queue[Wrap(rindex + rindex_shown + i - 1)]
    <2>1. rindex + rindex_shown \in Nat /\ Waiting + 1 \in Nat
      BY <1>2
    <2> QED
      BY <1>5, <2>1, RingFromIsSeq, Zenon
  <1>7. Pending' = new
    BY <1>1 DEF Pending, RingFrom
  <1> HIDE DEF new
  <1>8. /\ want \in Seq(Frame) /\ Len(want) = Waiting + 1
        /\ \A i \in 1..Waiting : want[i] = Pending[i]
        /\ want[Waiting + 1] = f
    BY <1>3, <1>4, AppendProperties
  <1>9. \A i \in 1..(Waiting + 1) : new[i] = want[i]
    <2> TAKE i \in 1..(Waiting + 1)
    <2>1. CASE i = Waiting + 1
      <3>1. new[i] = f
        BY <1>6, <2>1 DEF f
      <3> QED
        BY <1>8, <2>1, <3>1
    <2>2. CASE i # Waiting + 1
      <3>1. i \in 1..Waiting
        BY <1>2, <2>2
      <3> QED
        BY <1>4, <1>6, <1>8, <3>1
    <2> QED
      BY <2>1, <2>2
  <1>10. new = want
    BY <1>6, <1>8, <1>9, SeqEqual
  <1> QED
    BY <1>1, <1>3, <1>7, <1>10 DEF Shown

\* Next: the oldest frame that waits is consumed, and kept with keep_last.
LEMMA BufferNext ==
    ASSUME BufferInv, BufferInv', NextKeeps \/ NextFrees
    PROVE  /\ Pending # <<>> /\ Pending' = Tail(Pending)
           /\ Shown' = IF keep_last THEN Head(Pending) ELSE NoFrame
  <1> USE RingAssumption
  <1>1. /\ rindex \in Slots /\ rindex' \in Slots /\ rindex_shown \in {0, 1} /\ size \in 0..max_size
        /\ rindex_shown = 1 => keep_last
        /\ size - rindex_shown > 0 /\ reader = "peeked"
    BY DEF BufferInv, RingInv, TypeOK, ReaderKnows, NbRemaining, NextKeeps, NextFrees
  <1>2. Waiting' = Waiting - 1 /\ Waiting > 0 /\ Waiting \in Nat /\ Waiting + rindex_shown <= max_size
    BY <1>1 DEF Waiting, NextKeeps, NextFrees, Slots
  <1>3. ASSUME NEW i \in 1..(Waiting - 1)
        PROVE  queue'[Wrap(rindex' + rindex_shown' + i - 1)] = queue[Wrap(rindex + rindex_shown + (i + 1) - 1)]
    <2>1. CASE NextKeeps
      BY <1>1, <2>1 DEF NextKeeps, Slots
    <2>2. CASE NextFrees
      <3>1. /\ rindex' = Wrap(rindex + 1) /\ rindex_shown' = rindex_shown
            /\ \A j \in Slots : j # rindex => queue'[j] = queue[j]
        BY <2>2 DEF NextFrees, BufferInv, RingInv, TypeOK
      <3>2. /\ Wrap(rindex' + rindex_shown' + i - 1) = Wrap(rindex + rindex_shown + i)
            /\ Wrap(rindex + rindex_shown + i) \in Slots /\ Wrap(rindex + rindex_shown + i) # rindex
            /\ rindex + rindex_shown + (i + 1) - 1 = rindex + rindex_shown + i
        BY <1>1, <1>2, <3>1 DEF Wrap, Slots
      <3> QED
        BY <3>1, <3>2
    <2> QED
      BY <2>1, <2>2
  <1>4. /\ Pending \in Seq(Frame) /\ Len(Pending) = Waiting
        /\ \A i \in 1..Waiting : Pending[i] = queue[Wrap(rindex + rindex_shown + i - 1)]
        /\ \A i \in 1..Waiting : queue[Wrap(rindex + rindex_shown + i - 1)] \in Frame
    BY PendingIs, RingFrames
  <1>5. Pending # <<>>
    BY <1>2, <1>4, EmptySeq
  <1> DEFINE want == Tail(Pending)
  <1>6. /\ want \in Seq(Frame) /\ Len(want) = Waiting - 1 /\ Head(Pending) = Pending[1]
        /\ \A i \in 1..Len(want) : want[i] = Pending[i + 1]
    BY <1>4, <1>5, HeadTailProperties
  <1> HIDE DEF want
  <1>7. \A i \in 1..(Waiting - 1) : i + 1 \in 1..Waiting
    BY <1>2
  <1>8. \A i \in 1..(Waiting - 1) :
            /\ queue'[Wrap(rindex' + rindex_shown' + i - 1)] = want[i]
            /\ queue'[Wrap(rindex' + rindex_shown' + i - 1)] \in Frame
    BY <1>3, <1>4, <1>6, <1>7
  <1>9. /\ Pending' \in Seq(Frame) /\ Len(Pending') = Waiting - 1
        /\ \A i \in 1..(Waiting - 1) : Pending'[i] = queue'[Wrap(rindex' + rindex_shown' + i - 1)]
    <2> PICK q, r, n : q = queue' /\ r = rindex' + rindex_shown' /\ n = Waiting - 1
      OBVIOUS
    <2>1. r \in Nat /\ n \in Nat
      BY <1>1, <1>2 DEF NextKeeps, NextFrees, Slots
    <2>2. \A i \in 1..n : q[Wrap(r + i - 1)] \in Frame
      BY <1>8
    <2>3. Pending' = RingFrom(q, r, n)
      BY <1>2 DEF Pending
    <2>4. /\ RingFrom(q, r, n) \in Seq(Frame) /\ Len(RingFrom(q, r, n)) = n
          /\ \A i \in 1..n : RingFrom(q, r, n)[i] = q[Wrap(r + i - 1)]
      BY ONLY <2>1, <2>2, RingFromIsSeq
    <2>5. /\ Pending' \in Seq(Frame) /\ Len(Pending') = n
          /\ \A i \in 1..n : Pending'[i] = q[Wrap(r + i - 1)]
      BY <2>3, <2>4, Zenon
    <2> QED
      BY <2>5, Zenon
  <1>10. Pending' = want
    BY <1>6, <1>8, <1>9, SeqEqual
  <1>11. Head(Pending) = queue[Wrap(rindex + rindex_shown)]
    <2>1. 1 \in 1..Waiting /\ rindex + rindex_shown + 1 - 1 = rindex + rindex_shown
      BY <1>1, <1>2 DEF Slots
    <2> QED
      BY <1>4, <1>6, <2>1
  <1>12. Shown' = IF keep_last THEN Head(Pending) ELSE NoFrame
    <2>1. CASE NextKeeps
      <3>1. Wrap(rindex + rindex_shown) = rindex
        BY <1>1, <2>1 DEF NextKeeps, Wrap, Slots
      <3> QED
        BY <1>11, <2>1, <3>1 DEF NextKeeps, Shown
    <2>2. CASE NextFrees
      <3>1. keep_last => rindex_shown = 1
        BY <1>1, <2>2 DEF NextFrees
      <3>2. rindex' = Wrap(rindex + 1) /\ rindex_shown' = rindex_shown
            /\ \A j \in Slots : j # rindex => queue'[j] = queue[j]
        BY <2>2 DEF NextFrees, BufferInv, RingInv, TypeOK
      <3>3. rindex' # rindex
        BY <1>1, <3>2 DEF Wrap, Slots
      <3> QED
        BY <1>1, <1>11, <3>1, <3>2, <3>3 DEF Shown
    <2> QED
      BY <2>1, <2>2
  <1> QED
    BY <1>5, <1>10, <1>12 DEF want

\* Every step of the ring under its invariant is a step of FrameBuffer, or one
\* it does not see.
LEMMA BufferStep ==
    ASSUME BufferInv, BufferInv', [Next]_vars
    PROVE  [Buffer!Next]_(Buffer!vars)
  <1>1. ASSUME UNCHANGED <<Pending, Shown>> PROVE UNCHANGED Buffer!vars
    BY <1>1 DEF Buffer!vars, Pending, Shown, RingFrom, Waiting
  <1>2. ASSUME UNCHANGED <<ring, reader>> PROVE UNCHANGED <<Pending, Shown>>
    BY <1>2, BufferStutters DEF ring, Waiting
  <1>3. CASE PushCount
    <2>1. PICK f \in Frame : Pending' = Append(Pending, f)
      BY <1>3, BufferPush
    <2>2. Len(Pending) = Waiting /\ Waiting + rindex_shown < max_size /\ Shown' = Shown
          /\ rindex_shown \in {0, 1} /\ ((Shown = NoFrame) <=> (rindex_shown = 0))
      BY <1>3, BufferPush, PendingIs, KeptPlace DEF BufferInv, RingInv, TypeOK
    <2>3. Len(Pending) + (IF Shown = NoFrame THEN 0 ELSE 1) < max_size
      BY <2>2
    <2>4. Buffer!Produce(f)
      BY <2>1, <2>2, <2>3, Zenon DEF Buffer!Produce, Buffer!Kept, Pending, Shown, RingFrom, Waiting
    <2> QED
      BY <2>4 DEF Buffer!Next
  <1>4. CASE NextKeeps \/ NextFrees
    <2>1. Buffer!Consume
      BY <1>4, BufferNext, Zenon DEF Buffer!Consume, Pending, Shown, RingFrom, Waiting
    <2> QED
      BY <2>1 DEF Buffer!Next
  <1>5. CASE Fill
    BY <1>1, <1>5, BufferFill
  <1>6. CASE PushIndex
    BY <1>1, <1>6, BufferStutters DEF PushIndex, Waiting
  <1>7. CASE NextCount
    <2>1. UNCHANGED <<queue, rindex, rindex_shown, Waiting>>
      BY <1>7 DEF NextCount, Waiting, BufferInv, RingInv, TypeOK
    <2> QED
      BY <1>1, <2>1, BufferStutters
  <1>8. CASE Decoded \/ DecodeAborted \/ WritableTest \/ WritableRecheck \/ Skip
    BY <1>1, <1>2, <1>8 DEF Decoded, DecodeAborted, WritableTest, WritableRecheck, Skip
  <1>9. CASE PollPeek \/ CallReadable \/ ReadableTest \/ ReadableRecheck \/ PutOff \/ Used \/ CreateReader
    <2>1. UNCHANGED <<queue, rindex, rindex_shown, Waiting>>
      BY <1>9 DEF PollPeek, CallReadable, ReadableTest, ReadableRecheck, PutOff, Used, CreateReader,
         ring, Waiting
    <2> QED
      BY <1>1, <2>1, BufferStutters
  <1>10. CASE DecoderStart \/ AbortQueue \/ Aborting \/ UNCHANGED vars
    BY <1>1, <1>2, <1>10 DEF DecoderStart, AbortQueue, Aborting, SignalRing, JoinDecoder, vars
  <1> QED
    BY <1>3, <1>4, <1>5, <1>6, <1>7, <1>8, <1>9, <1>10 DEF Next, Writer, Reader, Owner

LEMMA BufferInit == Init => Counted /\ Buffer!Init
  <1> SUFFICES ASSUME Init PROVE Counted /\ Buffer!Init
    OBVIOUS
  <1>1. Waiting = 0 /\ Counted
    BY DEF Init, Waiting, Counted
  <1>2. Pending = <<>> /\ Shown = NoFrame
    BY <1>1 DEF Init, Pending, Shown, RingFrom
  <1> QED
    BY <1>1, <1>2 DEF Buffer!Init, Pending, Shown, RingFrom, Waiting

\* The ring of unlocked slots implements a bounded fifo that keeps its last frame.
THEOREM RingIsBuffer == ASSUME OneStart PROVE Spec => BufferSpec
  <1>1. Init => BufferInv /\ Buffer!Init
    BY RingInit, BufferInit DEF BufferInv
  <1>2. BufferInv /\ [Next]_vars => BufferInv'
    BY RingStep, CountedStep DEF BufferInv
  <1>3. BufferInv /\ BufferInv' /\ [Next]_vars => [Buffer!Next]_(Buffer!vars)
    BY BufferStep
  <1> QED
    BY <1>1, <1>2, <1>3, PTL DEF Spec, BufferSpec, Buffer!Spec

-----------------------------------------------------------------------------
(***************************************************************************)
(* Why FFmpegDecoder::Abort returns, and the audio thread with it, however *)
(* often the decoder is started: none of what follows needs OneStart.  The *)
(* abort is a flag set under one mutex and a signal sent under another, so *)
(* that between the two a thread can go to sleep on a queue that is        *)
(* aborted; the event that follows, never reset, wakes it.                 *)
(***************************************************************************)
\* The decoder thread sleeps with its event not triggered only while the ring is
\* full, and not past the signal of an abort.
WriterSleepsRightly == writer = "wait" => event \/ (Full /\ (abort_request => owner = "aborted"))

\* The same of a rendering thread in PeekReadable and an empty ring.
ReaderSleepsRightly ==
    reader = "wait" => event \/ (NbRemaining <= 0 /\ (abort_request => owner = "aborted"))

\* Where an abort stands: signalled but for the moment between its two halves,
\* or for the time before the first start, when nobody waits.
AbortSignalled ==
    /\ abort_request /\ ~event =>
          owner = "aborted" \/ (owner = "closed" /\ writer = "off" /\ reader = "off")
    /\ owner \in {"started", "open"} => ~abort_request
    /\ owner \in {"closed", "aborted", "joining"} => abort_request
    /\ owner = "joining" => event
    /\ owner # "closed" => writer # "off"

AwakeInv == WriterSleepsRightly /\ ReaderSleepsRightly /\ AbortSignalled

LEMMA AwakeInit == Init => AwakeInv
  BY DEF Init, AwakeInv, WriterSleepsRightly, ReaderSleepsRightly, AbortSignalled

LEMMA AwakeStep == AwakeInv /\ [Next]_vars => AwakeInv'
  <1> SUFFICES ASSUME AwakeInv, [Next]_vars PROVE AwakeInv'
    OBVIOUS
  <1> USE DEF AwakeInv, WriterSleepsRightly, ReaderSleepsRightly, AbortSignalled, Full,
              NbRemaining, ring
  <1>1. CASE Decoded \/ DecodeAborted \/ WritableRecheck \/ Fill \/ Skip \/ PushIndex
    BY <1>1 DEF Decoded, DecodeAborted, WritableRecheck, Fill, Skip, PushIndex
  <1>2. CASE WritableTest
    <2>1. writer' = "wait" => Full /\ ~abort_request
      BY <1>2 DEF WritableTest
    <2>2. writer' # "off" /\ UNCHANGED <<ring, event, abort_request, reader, owner>>
      BY <1>2 DEF WritableTest
    <2>3. writer # "off"
      BY <1>2 DEF WritableTest
    <2> QED
      BY <2>1, <2>2, <2>3
  <1>3. CASE PushCount
    BY <1>3 DEF PushCount, Signal
  <1>4. CASE PollPeek \/ CallReadable \/ ReadableRecheck \/ PutOff \/ NextKeeps \/ NextFrees \/ Used
    BY <1>4 DEF PollPeek, CallReadable, ReadableRecheck, PutOff, NextKeeps, NextFrees, Used
  <1>5. CASE ReadableTest
    <2>1. reader' = "wait" => NbRemaining <= 0 /\ ~abort_request
      BY <1>5 DEF ReadableTest
    <2>2. reader # "off" /\ UNCHANGED <<ring, event, abort_request, writer, owner>>
      BY <1>5 DEF ReadableTest
    <2> QED
      BY <2>1, <2>2
  <1>6. CASE NextCount
    BY <1>6 DEF NextCount, Signal
  <1>7. CASE DecoderStart
    BY <1>7 DEF DecoderStart
  <1>8. CASE CreateReader
    BY <1>8 DEF CreateReader
  <1>9. CASE AbortQueue
    BY <1>9 DEF AbortQueue
  <1>10. CASE SignalRing
    BY <1>10 DEF SignalRing, Signal
  <1>11. CASE JoinDecoder
    BY <1>11 DEF JoinDecoder
  <1>12. CASE UNCHANGED vars
    BY <1>12 DEF vars
  <1> QED
    BY <1>1, <1>2, <1>3, <1>4, <1>5, <1>6, <1>7, <1>8, <1>9, <1>10, <1>11, <1>12
       DEF Next, Writer, Reader, Owner, Aborting

\* Neither thread sleeps through what it waits for: a thread asleep with its event
\* not triggered finds the ring as it was when it fell asleep, and no abort that
\* has been signalled.
THEOREM RingLosesNoWakeup == Spec => [](WriterSleepsRightly /\ ReaderSleepsRightly)
  BY AwakeInit, AwakeStep, PTL DEF Spec, AwakeInv

\* How many steps the decoder thread has before it at most once it is told to end,
\* by where it is.
Left(place) == CASE place = "slot"             -> 6
                 [] place = "filled"           -> 5
                 [] place = "moved"            -> 4
                 [] place = "decode"           -> 3
                 [] place \in {"test", "wait"} -> 2
                 [] place = "recheck"          -> 1
                 [] OTHER                      -> 0

\* During the join there is a decoder thread, and it is not asleep.
JoinAwake == owner = "joining" => writer # "off" /\ (writer = "wait" => event)

\* ... and each of its steps takes it nearer to its end.
StepNearer == owner = "joining" /\ Writer => Left(writer') < Left(writer)

\* From its signal on, FFmpegDecoder::Abort waits for at most six steps of the
\* decoder thread, wherever that thread was, and for nobody else.
THEOREM JoinIsBounded == Spec => []JoinAwake /\ [][StepNearer]_vars
  <1>1. AwakeInv => JoinAwake
    BY DEF AwakeInv, AbortSignalled, JoinAwake
  <1>2. AwakeInv /\ [Next]_vars => [StepNearer]_vars
    <2> SUFFICES ASSUME AwakeInv, owner = "joining", Writer
                 PROVE  Left(writer') < Left(writer)
      BY DEF StepNearer
    <2>1. abort_request
      BY DEF AwakeInv, AbortSignalled
    <2> USE DEF Left
    <2>2. CASE Decoded \/ DecodeAborted
      BY <2>2 DEF Decoded, DecodeAborted
    <2>3. CASE WritableTest
      BY <2>1, <2>3 DEF WritableTest
    <2>4. CASE WritableRecheck
      BY <2>1, <2>4 DEF WritableRecheck
    <2>5. CASE Fill \/ Skip \/ PushIndex \/ PushCount
      BY <2>5 DEF Fill, Skip, PushIndex, PushCount
    <2> QED
      BY <2>2, <2>3, <2>4, <2>5 DEF Writer
  <1> QED
    BY <1>1, <1>2, AwakeInit, AwakeStep, PTL DEF Spec
=============================================================================
