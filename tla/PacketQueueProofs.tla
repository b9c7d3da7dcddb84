------------------------- MODULE PacketQueueProofs -------------------------
(***************************************************************************)
(* Theorems about PacketQueue, for every set of packets, every size and    *)
(* duration, and whatever the bounds of the model.                         *)
(***************************************************************************)
EXTENDS PacketQueue, Induction, SequenceTheorems, TLAPS

(***************************************************************************)
(* The inductive invariant.  CountsMatch alone is not inductive: InitQueue *)
(* forgets the fifo and keeps the counters, which is right only because    *)
(* the queue is empty whenever its owner may call it (IdleWhenClosed); and *)
(* CurrentSerialOnly needs the same fact at Start, which bumps the serial  *)
(* without draining the fifo.                                              *)
(***************************************************************************)
QInv == TypeOK /\ CountsMatch /\ CurrentSerialOnly /\ IdleWhenClosed

-----------------------------------------------------------------------------
\* What Append and Tail do to the entries of a list; the facts the steps of the
\* queue rest on.
LEMMA AppendEntry ==
    ASSUME NEW list \in Seq(Entry), NEW e \in Entry
    PROVE  /\ Append(list, e) \in Seq(Entry)
           /\ Len(Append(list, e)) = Len(list) + 1
           /\ \A i \in 1..Len(Append(list, e)) :
                 Append(list, e)[i] = IF i = Len(list) + 1 THEN e ELSE list[i]
  BY AppendProperties

LEMMA TailEntry ==
    ASSUME NEW list \in Seq(Entry), list # <<>>
    PROVE  /\ Head(list) \in Entry
           /\ Tail(list) \in Seq(Entry)
           /\ Len(Tail(list)) = Len(list) - 1
           /\ Len(list) \in Nat \ {0}
           /\ \A i \in 1..Len(Tail(list)) : Tail(list)[i] = list[i + 1]
  BY HeadTailProperties, EmptySeq, LenProperties

LEMMA QInit == Init => QInv
  <1> SUFFICES ASSUME Init
               PROVE  QInv
    OBVIOUS
  <1>1. pkt_list = <<>> /\ pkt_list \in Seq(Entry) /\ Len(pkt_list) = 0
    BY EmptySeq DEF Init, Construct
  <1>2. TypeOK
    <2>1. abort_request \in BOOLEAN /\ event \in BOOLEAN
      BY DEF Init, Construct
    <2> QED
      BY <1>1, <2>1 DEF Init, Construct, TypeOK
  <1>3. CountsMatch
    BY <1>1 DEF Init, Construct, CountsMatch
  <1>4. CurrentSerialOnly
    BY <1>1 DEF CurrentSerialOnly
  <1>5. IdleWhenClosed
    BY <1>1 DEF Init, IdleWhenClosed
  <1> QED
    BY <1>2, <1>3, <1>4, <1>5 DEF QInv

-----------------------------------------------------------------------------
\* PutPrivate keeps the invariant of an open queue.
LEMMA PutKeeps ==
    ASSUME QInv, NEW p \in AllPkt, PutPrivate(p), UNCHANGED <<getter, owner>>, owner # "new"
    PROVE  QInv'
  <1> DEFINE e == [pkt |-> p, serial |-> serial]
  <1>1. e \in Entry /\ pkt_list \in Seq(Entry)
    BY DEF QInv, TypeOK, Entry
  <1>2. /\ pkt_list' \in Seq(Entry)
        /\ Len(pkt_list') = Len(pkt_list) + 1
        /\ \A i \in 1..Len(pkt_list') :
              pkt_list'[i] = IF i = Len(pkt_list) + 1 THEN e ELSE pkt_list[i]
    BY <1>1, AppendEntry DEF PutPrivate
  <1>3. Len(pkt_list) \in Nat
    BY <1>1, LenProperties
  <1>4. TypeOK'
    BY <1>2, PacketAssumption DEF QInv, TypeOK, PutPrivate, Signal
  <1>5. CountsMatch'
    BY <1>2, <1>3 DEF QInv, CountsMatch, PutPrivate
  <1>6. CurrentSerialOnly'
    <2> SUFFICES ASSUME NEW i \in 1..Len(pkt_list')
                 PROVE  pkt_list'[i].serial = serial'
      BY DEF CurrentSerialOnly
    <2>1. CASE i = Len(pkt_list) + 1
      BY <2>1, <1>2 DEF PutPrivate
    <2>2. CASE i # Len(pkt_list) + 1
      <3>1. i \in 1..Len(pkt_list) /\ pkt_list'[i] = pkt_list[i]
        BY <2>2, <1>2, <1>3
      <3> QED
        BY <3>1 DEF QInv, CurrentSerialOnly, PutPrivate
    <2> QED BY <2>1, <2>2
  <1>7. IdleWhenClosed'
    BY DEF QInv, IdleWhenClosed, PutPrivate
  <1> QED
    BY <1>4, <1>5, <1>6, <1>7 DEF QInv

\* Flush empties the fifo and all of its counters at once.
LEMMA FlushEmpties ==
    ASSUME QInv, Flush
    PROVE  /\ pkt_list' = <<>> /\ Len(pkt_list') = 0 /\ pkt_list' \in Seq(Entry)
           /\ nb_packets' = 0 /\ live' = 0
           /\ size' = 0 /\ duration' = 0 /\ serial' \in Nat
           /\ abort_request' = abort_request /\ event' = event
  BY EmptySeq DEF Flush, QInv, TypeOK, CountsMatch

\* Get keeps the invariant when it takes an entry.
LEMMA TakeKeeps ==
    ASSUME QInv, Take, getter' \in {"none", "run", "wait", "done"}, owner' = owner
    PROVE  QInv'
  <1>1. /\ Head(pkt_list) \in Entry
        /\ pkt_list' \in Seq(Entry)
        /\ Len(pkt_list') = Len(pkt_list) - 1
        /\ Len(pkt_list) \in Nat \ {0}
        /\ \A i \in 1..Len(pkt_list') : pkt_list'[i] = pkt_list[i + 1]
    BY TailEntry DEF Take, QInv, TypeOK
  <1>2. Head(pkt_list).pkt \in AllPkt
    BY <1>1 DEF Entry
  <1>3. size' \in Int /\ duration' \in Int
    BY <1>2, PacketAssumption DEF Take, QInv, TypeOK
  <1>4. TypeOK'
    BY <1>1, <1>3 DEF QInv, TypeOK, CountsMatch, Take
  <1>5. CountsMatch'
    BY <1>1 DEF QInv, CountsMatch, Take
  <1>6. CurrentSerialOnly'
    <2> SUFFICES ASSUME NEW i \in 1..Len(pkt_list')
                 PROVE  pkt_list'[i].serial = serial'
      BY DEF CurrentSerialOnly
    <2>1. i + 1 \in 1..Len(pkt_list)
      BY <1>1
    <2> QED
      BY <2>1, <1>1 DEF QInv, CurrentSerialOnly, Take
  <1>7. IdleWhenClosed'
    BY DEF QInv, IdleWhenClosed, Take
  <1> QED
    BY <1>4, <1>5, <1>6, <1>7 DEF QInv

-----------------------------------------------------------------------------
LEMMA QStep == QInv /\ [Next]_vars => QInv'
  <1> SUFFICES ASSUME QInv, [Next]_vars
               PROVE  QInv'
    OBVIOUS
  <1> USE DEF QInv
  <1>1. CASE ReaderPut
    <2>1. UNCHANGED <<getter, owner>> /\ owner # "new"
      BY <1>1 DEF ReaderPut
    <2>2. PICK p \in AllPkt : Put(p)
      BY <1>1 DEF ReaderPut, PutNullpacket, AllPkt
    <2>3. CASE PutPrivate(p)
      BY <2>1, <2>3, PutKeeps
    <2>4. CASE PutRefused
      BY <2>1, <2>4 DEF PutRefused, qvars, TypeOK, CountsMatch, CurrentSerialOnly, IdleWhenClosed
    <2> QED
      BY <2>2, <2>3, <2>4 DEF Put
  <1>2. CASE ReaderFlush
    <2>1. Flush /\ UNCHANGED <<getter, owner>>
      BY <1>2 DEF ReaderFlush
    <2>2. /\ pkt_list' = <<>> /\ Len(pkt_list') = 0 /\ pkt_list' \in Seq(Entry)
          /\ nb_packets' = 0 /\ live' = 0
          /\ size' = 0 /\ duration' = 0 /\ serial' \in Nat
          /\ abort_request' = abort_request /\ event' = event
      BY <2>1, FlushEmpties
    <2>3. TypeOK' /\ CountsMatch' /\ IdleWhenClosed'
      BY <2>1, <2>2 DEF TypeOK, CountsMatch, IdleWhenClosed
    <2>4. CurrentSerialOnly'
      BY <2>2 DEF CurrentSerialOnly
    <2> QED
      BY <2>3, <2>4
  <1>3. CASE GetTakes
    BY <1>3, TakeKeeps DEF GetTakes
  <1>4. CASE GetWaits
    BY <1>4 DEF GetWaits, qvars, TypeOK, CountsMatch, CurrentSerialOnly, IdleWhenClosed
  <1>5. CASE GetAborted
    BY <1>5 DEF GetAborted, qvars, TypeOK, CountsMatch, CurrentSerialOnly, IdleWhenClosed
  <1>6. CASE OwnerInit
    <2>1. pkt_list = <<>> /\ pkt_list' = <<>> /\ Len(pkt_list') = 0
             /\ pkt_list' \in Seq(Entry)
      BY <1>6, EmptySeq DEF OwnerInit, InitQueue, IdleWhenClosed
    <2>2. TypeOK'
      BY <1>6, <2>1 DEF OwnerInit, InitQueue, TypeOK
    <2>3. CountsMatch' /\ IdleWhenClosed'
      BY <1>6, <2>1 DEF OwnerInit, InitQueue, CountsMatch, IdleWhenClosed
    <2>4. CurrentSerialOnly'
      BY <2>1 DEF CurrentSerialOnly
    <2> QED
      BY <2>2, <2>3, <2>4
  <1>7. CASE OwnerStart
    <2>1. pkt_list = <<>> /\ pkt_list' = <<>> /\ Len(pkt_list') = 0
             /\ pkt_list' \in Seq(Entry)
      BY <1>7, EmptySeq DEF OwnerStart, Start, IdleWhenClosed
    <2>2. TypeOK'
      <3>1. abort_request' \in BOOLEAN
        BY <1>7 DEF OwnerStart, Start
      <3> QED
        BY <1>7, <2>1, <3>1 DEF OwnerStart, Start, TypeOK
    <2>3. CountsMatch' /\ IdleWhenClosed'
      BY <1>7, <2>1 DEF OwnerStart, Start, CountsMatch, IdleWhenClosed
    <2>4. CurrentSerialOnly'
      BY <2>1 DEF CurrentSerialOnly
    <2> QED
      BY <2>2, <2>3, <2>4
  <1>8. CASE OwnerAbort
    BY <1>8 DEF OwnerAbort, Abort, Signal, TypeOK, CountsMatch, CurrentSerialOnly, IdleWhenClosed
  <1>9. CASE OwnerJoin
    <2>1. Flush /\ owner = "joining" /\ owner' = "closed" /\ getter' = getter
      BY <1>9 DEF OwnerJoin
    <2>2. /\ pkt_list' = <<>> /\ Len(pkt_list') = 0 /\ pkt_list' \in Seq(Entry)
          /\ nb_packets' = 0 /\ live' = 0
          /\ size' = 0 /\ duration' = 0 /\ serial' \in Nat
          /\ abort_request' = abort_request /\ event' = event
      BY <2>1, FlushEmpties
    <2>3. TypeOK' /\ CountsMatch' /\ IdleWhenClosed'
      BY <2>1, <2>2 DEF TypeOK, CountsMatch, IdleWhenClosed
    <2>4. CurrentSerialOnly'
      BY <2>2 DEF CurrentSerialOnly
    <2> QED
      BY <2>3, <2>4
  <1>10. CASE UNCHANGED vars
    BY <1>10 DEF vars, qvars, TypeOK, CountsMatch, CurrentSerialOnly, IdleWhenClosed
  <1> QED
    BY <1>1, <1>2, <1>3, <1>4, <1>5, <1>6, <1>7, <1>8, <1>9, <1>10
       DEF Next, Reader, Getter, Owner

\* The variables keep their types, and the two counts never go negative.
THEOREM QueueTypes == Spec => []TypeOK
  BY QInit, QStep, PTL DEF Spec, QInv

\* The counts the other threads read without the mutex are those of the fifo,
\* and no packet leaks or is freed twice.
THEOREM QueueCounts == Spec => []CountsMatch
  BY QInit, QStep, PTL DEF Spec, QInv

\* Nothing of an older serial is ever in the queue.
THEOREM QueueSerials == Spec => []CurrentSerialOnly
  BY QInit, QStep, PTL DEF Spec, QInv

\* The queue is aborted and empty whenever its owner may re-initialise it.
THEOREM QueueIdle == Spec => []IdleWhenClosed
  BY QInit, QStep, PTL DEF Spec, QInv

-----------------------------------------------------------------------------
(***************************************************************************)
(* The byte and duration totals.  Total sums by recursion over the list;   *)
(* its value follows the list through Append and Tail, which is what Put   *)
(* and Get do to the counters.                                             *)
(***************************************************************************)
Weights(weight, list) == [i \in 1..Len(list) |-> weight[list[i].pkt]]

LEMMA WeightsAreNumbers ==
    ASSUME NEW list \in Seq(Entry), NEW weight \in [AllPkt -> Nat]
    PROVE  /\ Len(list) \in Nat
           /\ \A i \in 1..Len(list) : Weights(weight, list)[i] = weight[list[i].pkt]
           /\ \A i \in 1..Len(list) : Weights(weight, list)[i] \in Nat
  <1>1. Len(list) \in Nat
    BY LenProperties
  <1>2. \A i \in 1..Len(list) : Weights(weight, list)[i] = weight[list[i].pkt]
    BY DEF Weights
  <1>3. \A i \in 1..Len(list) : weight[list[i].pkt] \in Nat
    <2> TAKE i \in 1..Len(list)
    <2>1. list[i] \in Entry
      BY ElementOfSeq
    <2> QED
      BY <2>1 DEF Entry
  <1> QED
    BY <1>1, <1>2, <1>3

\* Total is the last of the sums it is defined by.
LEMMA TotalIsSum ==
    ASSUME NEW list \in Seq(Entry), NEW weight \in [AllPkt -> Nat]
    PROVE  \E g : /\ g \in [0..Len(list) -> Int]
                  /\ Sums(Weights(weight, list), Len(list), g)
                  /\ Total(weight, list) = g[Len(list)]
  <1> DEFINE n == Len(list)
             w == Weights(weight, list)
             step(s) == [i \in 0..n |-> IF i = 0 THEN 0 ELSE s[i - 1] + weight[list[i].pkt]]
             sum == CHOOSE s : s = step(s)
  <1>1. n \in Nat /\ \A i \in 1..n : w[i] = weight[list[i].pkt] /\ w[i] \in Int
    BY WeightsAreNumbers
  <1>2. PICK g \in [0..n -> Int] : Sums(w, n, g)
    <2> HIDE DEF n, w
    <2> QED
      BY <1>1, SumsExist
  <1>3. g = step(g)
    <2>1. \A i \in 0..n : g[i] = step(g)[i]
      <3> TAKE i \in 0..n
      <3>1. CASE i = 0
        BY <1>2, <3>1 DEF Sums
      <3>2. CASE i # 0
        <4>1. i \in 1..n
          BY <1>1, <3>2
        <4> HIDE DEF w
        <4> QED
          BY <1>1, <1>2, <3>2, <4>1 DEF Sums
      <3> QED
        BY <3>1, <3>2
    <2> QED
      BY <2>1
  <1>4. sum = step(sum)
    <2> HIDE DEF step
    <2> QED
      BY <1>3
  <1>5. sum[0] = 0 /\ \A i \in 1..n : sum[i] = sum[i - 1] + w[i]
    <2>1. \A i \in 0..n : sum[i] = IF i = 0 THEN 0 ELSE sum[i - 1] + weight[list[i].pkt]
      <3> HIDE DEF sum
      <3> QED
        BY <1>4
    <2> HIDE DEF sum, w
    <2> QED
      BY <1>1, <2>1
  <1>6. sum[n] = g[n]
    <2>1. Sums(w, n, sum)
      <3> HIDE DEF sum, w
      <3> QED
        BY <1>5 DEF Sums
    <2> HIDE DEF sum, w, n
    <2> QED
      BY <1>1, <1>2, <2>1, SumsAgree
  <1>7. Total(weight, list) = sum[n]
    BY DEF Total
  <1> QED
    BY <1>2, <1>6, <1>7

\* Total is any sums' last one.
LEMMA TotalIs ==
    ASSUME NEW list \in Seq(Entry), NEW weight \in [AllPkt -> Nat],
           NEW h, Sums(Weights(weight, list), Len(list), h)
    PROVE  Total(weight, list) = h[Len(list)]
  BY TotalIsSum, SumsAgree, LenProperties

LEMMA TotalEmpty ==
    ASSUME NEW weight \in [AllPkt -> Nat]
    PROVE  Total(weight, <<>>) = 0
  <1>1. <<>> \in Seq(Entry) /\ Len(<<>>) = 0
    BY EmptySeq
  <1> QED
    BY <1>1, TotalIsSum DEF Sums

LEMMA TotalAppend ==
    ASSUME NEW list \in Seq(Entry), NEW e \in Entry, NEW weight \in [AllPkt -> Nat]
    PROVE  Total(weight, Append(list, e)) = Total(weight, list) + weight[e.pkt]
  <1> DEFINE n == Len(list)
             new == Append(list, e)
             w == Weights(weight, list)
             v == Weights(weight, new)
  <1>1. PICK g : g \in [0..n -> Int] /\ Sums(w, n, g) /\ Total(weight, list) = g[n]
    BY TotalIsSum
  <1>2. /\ new \in Seq(Entry) /\ Len(new) = n + 1
        /\ \A i \in 1..(n + 1) : new[i] = IF i = n + 1 THEN e ELSE list[i]
    BY AppendEntry
  <1>3. n \in Nat /\ \A i \in 1..n : w[i] = weight[list[i].pkt]
    BY WeightsAreNumbers
  <1>4. \A i \in 1..(n + 1) : v[i] = weight[new[i].pkt]
    BY <1>2, WeightsAreNumbers
  <1> DEFINE h == [i \in 0..(n + 1) |-> IF i <= n THEN g[i] ELSE g[n] + weight[e.pkt]]
  <1>5. h[n + 1] = g[n] + weight[e.pkt] /\ \A i \in 0..n : h[i] = g[i]
    BY <1>3
  <1>6. v[n + 1] = weight[e.pkt] /\ \A i \in 1..n : v[i] = w[i]
    <2> HIDE DEF n, new, v, w
    <2>1. new[n + 1] = e /\ \A i \in 1..n : new[i] = list[i]
      BY <1>2, <1>3
    <2> QED
      BY <1>3, <1>4, <2>1
  <1> HIDE DEF n, new, v, w, h
  <1>7. Sums(v, n + 1, h)
    <2>1. h[0] = 0
      BY <1>1, <1>3, <1>5 DEF Sums
    <2>2. ASSUME NEW i \in 1..(n + 1) PROVE h[i] = h[i - 1] + v[i]
      <3>1. CASE i = n + 1
        BY <1>3, <1>5, <1>6, <3>1
      <3>2. CASE i # n + 1
        <4>1. i \in 1..n /\ i \in 0..n /\ i - 1 \in 0..n
          BY <1>3, <3>2
        <4> QED
          BY <1>1, <1>5, <1>6, <4>1 DEF Sums
      <3> QED
        BY <3>1, <3>2
    <2> QED
      BY <2>1, <2>2 DEF Sums
  <1>8. Total(weight, new) = h[n + 1]
    BY <1>2, <1>7, TotalIs DEF v
  <1> QED
    BY <1>1, <1>5, <1>8 DEF new, n

LEMMA TotalTail ==
    ASSUME NEW list \in Seq(Entry), list # <<>>, NEW weight \in [AllPkt -> Nat]
    PROVE  Total(weight, Tail(list)) = Total(weight, list) - weight[Head(list).pkt]
  <1> DEFINE n == Len(list)
             rest == Tail(list)
             w == Weights(weight, list)
             v == Weights(weight, rest)
  <1>1. PICK g : g \in [0..n -> Int] /\ Sums(w, n, g) /\ Total(weight, list) = g[n]
    BY TotalIsSum
  <1>2. /\ rest \in Seq(Entry) /\ Len(rest) = n - 1 /\ n \in Nat \ {0}
        /\ \A i \in 1..(n - 1) : rest[i] = list[i + 1]
    BY TailEntry
  <1>3. \A i \in 1..n : w[i] = weight[list[i].pkt]
    BY WeightsAreNumbers
  <1>4. \A i \in 1..(n - 1) : v[i] = weight[rest[i].pkt]
    <2>1. \A i \in 1..Len(rest) : v[i] = weight[rest[i].pkt]
      BY <1>2, WeightsAreNumbers
    <2> HIDE DEF n, rest, v
    <2> QED
      BY <1>2, <2>1
  <1>5. w[1] = weight[Head(list).pkt]
    <2>1. Head(list) = list[1] /\ 1 \in 1..n
      BY <1>2, HeadTailProperties
    <2> QED
      BY <1>3, <2>1
  <1> DEFINE h == [i \in 0..(n - 1) |-> g[i + 1] - g[1]]
  <1>6. \A i \in 0..(n - 1) : h[i] = g[i + 1] - g[1]
    OBVIOUS
  <1> HIDE DEF n, rest, v, w, h
  <1>7. \A i \in 1..(n - 1) : v[i] = w[i + 1]
    BY <1>2, <1>3, <1>4
  <1>8. g[1] = w[1]
    <2>1. g[0] = 0 /\ g[1] = g[0] + w[1] /\ g[1] \in Int
      BY <1>1, <1>2 DEF Sums
    <2>2. w[1] \in Int
      <3>1. 1 \in 1..n
        BY <1>2
      <3> QED
        BY <3>1, WeightsAreNumbers DEF n, w
    <2> QED
      BY <2>1, <2>2
  <1>9. Sums(v, n - 1, h)
    <2>1. h[0] = 0
      BY <1>1, <1>2, <1>6
    <2>2. ASSUME NEW i \in 1..(n - 1) PROVE h[i] = h[i - 1] + v[i]
      <3>1. i + 1 \in 1..n /\ (i + 1) - 1 = i /\ i \in 0..n /\ i + 1 \in 0..n /\ 1 \in 0..n
        BY <1>2
      <3>2. g[i + 1] = g[i] + w[i + 1]
        BY <1>1, <3>1 DEF Sums
      <3>3. h[i] = g[i + 1] - g[1] /\ h[i - 1] = g[i] - g[1]
        <4>1. i \in 0..(n - 1) /\ i - 1 \in 0..(n - 1) /\ (i - 1) + 1 = i
          BY <1>2
        <4> QED
          BY <1>6, <4>1
      <3>4. g[i] \in Int /\ g[1] \in Int /\ v[i] = w[i + 1] /\ w[i + 1] \in Int
        <4>1. w[i + 1] \in Nat
          BY <3>1, WeightsAreNumbers DEF w, n
        <4> QED
          BY <1>1, <1>7, <3>1, <4>1
      <3> QED
        BY <3>2, <3>3, <3>4
    <2> QED
      BY <2>1, <2>2 DEF Sums
  <1>10. Total(weight, rest) = h[n - 1]
    BY <1>2, <1>9, TotalIs DEF v
  <1>11. h[n - 1] = g[n] - g[1]
    BY <1>2, <1>6
  <1> QED
    BY <1>1, <1>5, <1>8, <1>10, <1>11 DEF rest, n

\* The totals are integers, so the counters may be computed with.
LEMMA TotalIsInt ==
    ASSUME NEW list \in Seq(Entry), NEW weight \in [AllPkt -> Nat]
    PROVE  Total(weight, list) \in Int
  BY TotalIsSum, LenProperties

LEMMA BytesEmpty ==
    ASSUME pkt_list' = <<>>, size' = 0, duration' = 0
    PROVE  BytesMatch'
  <1>1. Total(PktSize, <<>>) = 0 /\ Total(PktDuration, <<>>) = 0
    BY TotalEmpty, PacketAssumption
  <1>2. Overhead * Len(<<>>) = 0
    BY EmptySeq, PacketAssumption
  <1> QED
    BY <1>1, <1>2 DEF BytesMatch

LEMMA BytesStep == QInv /\ BytesMatch /\ [Next]_vars => BytesMatch'
  <1> SUFFICES ASSUME QInv, BytesMatch, [Next]_vars
               PROVE  BytesMatch'
    OBVIOUS
  <1>0. /\ pkt_list \in Seq(Entry) /\ size \in Int /\ duration \in Int
        /\ Len(pkt_list) \in Nat /\ Overhead \in Int
        /\ PktSize \in [AllPkt -> Nat] /\ PktDuration \in [AllPkt -> Nat]
    BY PacketAssumption, LenProperties DEF QInv, TypeOK
  <1>1. ASSUME UNCHANGED <<pkt_list, size, duration>> PROVE BytesMatch'
    BY <1>1 DEF BytesMatch
  <1>2. ASSUME NEW p \in AllPkt, PutPrivate(p) PROVE BytesMatch'
    <2> DEFINE e == [pkt |-> p, serial |-> serial]
    <2>1. e \in Entry /\ e.pkt = p
      BY DEF QInv, TypeOK, Entry
    <2>2. /\ pkt_list' = Append(pkt_list, e)
          /\ size' = size + PktSize[p] + Overhead
          /\ duration' = duration + PktDuration[p]
      BY <1>2 DEF PutPrivate
    <2> HIDE DEF e
    <2>3. Len(pkt_list') = Len(pkt_list) + 1
      BY <1>0, <2>1, <2>2, AppendEntry
    <2>4. /\ Total(PktSize, pkt_list') = Total(PktSize, pkt_list) + PktSize[p]
          /\ Total(PktDuration, pkt_list') = Total(PktDuration, pkt_list) + PktDuration[p]
      BY <1>0, <2>1, <2>2, TotalAppend
    <2>5. Total(PktSize, pkt_list) \in Int /\ PktSize[p] \in Int
      BY <1>0, TotalIsInt
    <2>6. Overhead * (Len(pkt_list) + 1) = Overhead * Len(pkt_list) + Overhead
            /\ Overhead * Len(pkt_list) \in Int
      BY <1>0
    <2>7. size' = Total(PktSize, pkt_list') + Overhead * Len(pkt_list')
      <3> DEFINE before == Overhead * Len(pkt_list)
                 after == Overhead * Len(pkt_list')
      <3>1. before \in Int /\ after = before + Overhead
        BY <2>3, <2>6
      <3>2. size = Total(PktSize, pkt_list) + before
        BY DEF BytesMatch
      <3> HIDE DEF before, after
      <3>3. size' = Total(PktSize, pkt_list') + after
        <4>1. /\ size \in Int /\ Overhead \in Int
              /\ size' = size + PktSize[p] + Overhead
          BY <1>0, <2>2
        <4>2. Total(PktSize, pkt_list') = Total(PktSize, pkt_list) + PktSize[p]
          BY <2>4
        <4> QED
          BY ONLY <2>5, <3>1, <3>2, <4>1, <4>2
      <3> QED
        BY <3>3 DEF after
    <2>8. duration' = Total(PktDuration, pkt_list')
      BY <2>2, <2>4, TotalIsInt, <1>0 DEF BytesMatch
    <2> QED
      BY <2>7, <2>8 DEF BytesMatch
  <1>3. ASSUME Take PROVE BytesMatch'
    <2> DEFINE e == Head(pkt_list)
    <2>1. /\ pkt_list # <<>> /\ pkt_list' = Tail(pkt_list)
          /\ size' = size - (PktSize[e.pkt] + Overhead)
          /\ duration' = duration - PktDuration[e.pkt]
      BY <1>3 DEF Take
    <2>2. e \in Entry /\ e.pkt \in AllPkt /\ Len(pkt_list') = Len(pkt_list) - 1
      BY <1>0, <2>1, TailEntry DEF Entry
    <2>3. /\ Total(PktSize, pkt_list') = Total(PktSize, pkt_list) - PktSize[e.pkt]
          /\ Total(PktDuration, pkt_list') = Total(PktDuration, pkt_list) - PktDuration[e.pkt]
      BY <1>0, <2>1, TotalTail
    <2> HIDE DEF e
    <2>4. Total(PktSize, pkt_list) \in Int /\ PktSize[e.pkt] \in Int
      BY <1>0, <2>2, TotalIsInt
    <2>5. Overhead * (Len(pkt_list) - 1) = Overhead * Len(pkt_list) - Overhead
            /\ Overhead * Len(pkt_list) \in Int
      BY <1>0
    <2>6. size' = Total(PktSize, pkt_list') + Overhead * Len(pkt_list')
      <3> DEFINE before == Overhead * Len(pkt_list)
                 after == Overhead * Len(pkt_list')
      <3>1. before \in Int /\ after = before - Overhead
        BY <2>2, <2>5
      <3>2. size = Total(PktSize, pkt_list) + before
        BY DEF BytesMatch
      <3> HIDE DEF before, after
      <3>3. size' = Total(PktSize, pkt_list') + after
        <4>1. /\ size \in Int /\ Overhead \in Int
              /\ size' = size - (PktSize[e.pkt] + Overhead)
          BY <1>0, <2>1
        <4>2. Total(PktSize, pkt_list') = Total(PktSize, pkt_list) - PktSize[e.pkt]
          BY <2>3
        <4> QED
          BY ONLY <2>4, <3>1, <3>2, <4>1, <4>2
      <3> QED
        BY <3>3 DEF after
    <2>7. duration' = Total(PktDuration, pkt_list')
      BY <2>1, <2>3 DEF BytesMatch
    <2> QED
      BY <2>6, <2>7 DEF BytesMatch
  <1>4. ASSUME Flush PROVE BytesMatch'
    BY <1>4, BytesEmpty DEF Flush
  <1>5. CASE ReaderPut
    <2>1. PICK p \in AllPkt : Put(p)
      BY <1>5 DEF ReaderPut, PutNullpacket, AllPkt
    <2> QED
      BY <2>1, <1>1, <1>2 DEF Put, PutRefused, qvars
  <1>6. CASE ReaderFlush \/ OwnerJoin
    BY <1>4, <1>6 DEF ReaderFlush, OwnerJoin
  <1>7. CASE GetTakes
    BY <1>3, <1>7 DEF GetTakes
  <1>8. CASE GetWaits \/ GetAborted
    BY <1>1, <1>8 DEF GetWaits, GetAborted, qvars
  <1>9. CASE OwnerInit
    BY <1>1, <1>9 DEF OwnerInit, InitQueue, QInv, IdleWhenClosed
  <1>10. CASE OwnerStart \/ OwnerAbort
    BY <1>1, <1>10 DEF OwnerStart, Start, OwnerAbort, Abort
  <1>11. CASE UNCHANGED vars
    BY <1>1, <1>11 DEF vars, qvars
  <1> QED
    BY <1>5, <1>6, <1>7, <1>8, <1>9, <1>10, <1>11 DEF Next, Reader, Getter, Owner

LEMMA BytesInit == Init => BytesMatch
  <1> SUFFICES ASSUME Init
               PROVE  BytesMatch
    OBVIOUS
  <1>1. Total(PktSize, <<>>) = 0 /\ Total(PktDuration, <<>>) = 0
    BY TotalEmpty, PacketAssumption
  <1>2. Overhead * Len(<<>>) = 0
    BY EmptySeq, PacketAssumption
  <1> QED
    BY <1>1, <1>2 DEF Init, Construct, BytesMatch

\* The byte and duration totals the read thread's limit is tested against are
\* those of the queued packets, whatever the sizes and durations.
THEOREM QueueBytes == Spec => []BytesMatch
  BY QInit, QStep, BytesInit, BytesStep, PTL DEF Spec

-----------------------------------------------------------------------------
(***************************************************************************)
(* The queue implements PacketStream.                                      *)
(***************************************************************************)
Payload(list) == [i \in 1..Len(list) |-> list[i].pkt]

\* The payloads of a list of entries are a sequence, and follow its operations.
LEMMA PayloadIsSeq ==
    ASSUME NEW list \in Seq(Entry)
    PROVE  /\ Payload(list) \in Seq(AllPkt)
           /\ Len(Payload(list)) = Len(list)
           /\ \A i \in 1..Len(list) : Payload(list)[i] = list[i].pkt
  <1>1. \A i \in 1..Len(list) : list[i].pkt \in AllPkt
    <2> TAKE i \in 1..Len(list)
    <2>1. list[i] \in Entry
      BY ElementOfSeq
    <2> QED
      BY <2>1 DEF Entry
  <1>2. Len(list) \in Nat
    BY LenProperties
  <1>3. Payload(list) \in Seq(AllPkt)
    BY <1>1, <1>2, IsASeq DEF Payload
  <1> QED
    BY <1>2, <1>3, LenProperties DEF Payload

LEMMA PayloadAppend ==
    ASSUME NEW list \in Seq(Entry), NEW e \in Entry
    PROVE  Payload(Append(list, e)) = Append(Payload(list), e.pkt)
  <1> DEFINE new == Append(list, e)
             want == Append(Payload(list), e.pkt)
  <1>1. e.pkt \in AllPkt /\ Len(list) \in Nat
    BY LenProperties DEF Entry
  <1>2. /\ Payload(list) \in Seq(AllPkt) /\ Len(Payload(list)) = Len(list)
        /\ \A i \in 1..Len(list) : Payload(list)[i] = list[i].pkt
    BY PayloadIsSeq
  <1>3. /\ new \in Seq(Entry) /\ Len(new) = Len(list) + 1
        /\ \A i \in 1..Len(new) : new[i] = IF i = Len(list) + 1 THEN e ELSE list[i]
    BY AppendEntry
  <1>4. /\ Payload(new) \in Seq(AllPkt) /\ Len(Payload(new)) = Len(list) + 1
        /\ \A i \in 1..Len(new) : Payload(new)[i] = new[i].pkt
    BY <1>3, PayloadIsSeq
  <1>5. /\ want \in Seq(AllPkt) /\ Len(want) = Len(list) + 1
        /\ \A i \in 1..Len(list) : want[i] = Payload(list)[i]
        /\ want[Len(list) + 1] = e.pkt
    BY <1>1, <1>2, AppendProperties
  <1>6. \A i \in 1..Len(list) + 1 : Payload(new)[i] = want[i]
    <2> TAKE i \in 1..Len(list) + 1
    <2>1. CASE i = Len(list) + 1
      BY <2>1, <1>1, <1>3, <1>4, <1>5
    <2>2. CASE i # Len(list) + 1
      <3>1. i \in 1..Len(list)
        BY <2>2, <1>1
      <3> QED
        BY <2>2, <3>1, <1>1, <1>2, <1>3, <1>4, <1>5
    <2> QED BY <2>1, <2>2
  <1> QED
    BY <1>4, <1>5, <1>6, SeqEqual

LEMMA PayloadTail ==
    ASSUME NEW list \in Seq(Entry), list # <<>>
    PROVE  Payload(list) # <<>> /\ Payload(Tail(list)) = Tail(Payload(list))
  <1> DEFINE rest == Tail(list)
             want == Tail(Payload(list))
  <1>1. /\ rest \in Seq(Entry) /\ Len(rest) = Len(list) - 1 /\ Len(list) \in Nat \ {0}
        /\ \A i \in 1..Len(rest) : rest[i] = list[i + 1]
    BY TailEntry
  <1>2. /\ Payload(list) \in Seq(AllPkt) /\ Len(Payload(list)) = Len(list)
        /\ \A i \in 1..Len(list) : Payload(list)[i] = list[i].pkt
    BY PayloadIsSeq
  <1>3. Payload(list) # <<>>
    BY <1>1, <1>2, EmptySeq
  <1>4. /\ Payload(rest) \in Seq(AllPkt) /\ Len(Payload(rest)) = Len(list) - 1
        /\ \A i \in 1..Len(rest) : Payload(rest)[i] = rest[i].pkt
    BY <1>1, PayloadIsSeq
  <1>5. /\ want \in Seq(AllPkt) /\ Len(want) = Len(list) - 1
        /\ \A i \in 1..Len(want) : want[i] = Payload(list)[i + 1]
    BY <1>2, <1>3, HeadTailProperties
  <1>6. \A i \in 1..Len(want) : Payload(rest)[i] = want[i]
    <2> TAKE i \in 1..Len(want)
    <2>1. i \in 1..Len(rest) /\ i + 1 \in 1..Len(list)
      BY <1>1, <1>5
    <2> QED
      BY <2>1, <1>1, <1>2, <1>4, <1>5
  <1> QED
    BY <1>3, <1>4, <1>5, <1>6, SeqEqual

\* Every step of the queue under its invariant is a step of PacketStream, or
\* one it does not see.
LEMMA StreamStep == QInv /\ QInv' /\ [Next]_vars => [Stream!Next]_(Stream!vars)
  <1> SUFFICES ASSUME QInv, QInv', [Next]_vars
               PROVE  [Stream!Next]_(Stream!vars)
    OBVIOUS
  <1> DEFINE c == Payload(pkt_list)
             hidden == UNCHANGED <<pkt_list, serial, abort_request>>
  <1>0. /\ pkt_list \in Seq(Entry) /\ pkt_list' \in Seq(Entry)
        /\ serial \in Nat /\ abort_request \in BOOLEAN /\ abort_request' \in BOOLEAN
    BY DEF QInv, TypeOK
  <1>1. ASSUME hidden PROVE UNCHANGED Stream!vars
    BY <1>1 DEF Stream!vars
  <1>2. ASSUME Take PROVE Stream!Leave
    <2>1. c # <<>> /\ c' = Tail(c)
      BY <1>0, <1>2, PayloadTail DEF Take
    <2> QED
      BY <1>2, <2>1 DEF Take, Stream!Leave, Payload
  <1>3. ASSUME NEW p \in AllPkt, PutPrivate(p) PROVE Stream!Enter(p)
    <2>1. [pkt |-> p, serial |-> serial] \in Entry
      BY <1>0 DEF Entry
    <2>2. c' = Append(c, p)
      BY <1>0, <1>3, <2>1, PayloadAppend DEF PutPrivate
    <2> QED
      BY <1>3, <2>2 DEF PutPrivate, Stream!Enter, Payload
  <1>4. ASSUME pkt_list' = <<>> PROVE c' = <<>>
    <2>1. Len(pkt_list') = 0 /\ Len(c') = Len(pkt_list') /\ c' \in Seq(AllPkt)
      BY <1>4, <1>0, EmptySeq, PayloadIsSeq
    <2> QED
      BY <2>1, EmptySeq
  <1>5. ASSUME Flush PROVE Stream!Renew
    BY <1>4, <1>5 DEF Flush, Stream!Renew, Payload
  <1>6. CASE ReaderPut
    <2>1. PICK p \in AllPkt : Put(p)
      BY <1>6 DEF ReaderPut, PutNullpacket, AllPkt
    <2> QED
      BY <2>1, <1>1, <1>3 DEF Put, PutRefused, qvars, Stream!Next
  <1>7. CASE ReaderFlush \/ OwnerJoin
    BY <1>5, <1>7 DEF ReaderFlush, OwnerJoin, Stream!Next
  <1>8. CASE GetTakes
    BY <1>2, <1>8 DEF GetTakes, Stream!Next
  <1>9. CASE GetWaits \/ GetAborted
    BY <1>1, <1>9 DEF GetWaits, GetAborted, qvars
  <1>10. CASE OwnerInit
    <2>1. pkt_list = <<>> /\ pkt_list' = pkt_list /\ serial' = serial /\ abort_request'
      BY <1>10 DEF OwnerInit, InitQueue, QInv, IdleWhenClosed
    <2>2. CASE abort_request
      BY <2>1, <2>2, <1>1, <1>0
    <2>3. CASE ~abort_request
      BY <2>1, <2>3 DEF Stream!Next, Stream!Close
    <2> QED BY <2>2, <2>3
  <1>11. CASE OwnerStart
    <2>1. /\ pkt_list' = <<>> /\ abort_request /\ ~abort_request' /\ serial' = serial + 1
      BY <1>11 DEF OwnerStart, Start, QInv, IdleWhenClosed
    <2> QED
      BY <2>1, <1>4 DEF Stream!Next, Stream!Open, Payload
  <1>12. CASE OwnerAbort
    <2>1. abort_request' /\ UNCHANGED <<pkt_list, serial>>
      BY <1>12 DEF OwnerAbort, Abort
    <2>2. CASE abort_request
      BY <2>1, <2>2, <1>1, <1>0
    <2>3. CASE ~abort_request
      BY <2>1, <2>3 DEF Stream!Next, Stream!Close
    <2> QED BY <2>2, <2>3
  <1>13. CASE UNCHANGED vars
    BY <1>1, <1>13 DEF vars, qvars
  <1> QED
    BY <1>6, <1>7, <1>8, <1>9, <1>10, <1>11, <1>12, <1>13
       DEF Next, Reader, Getter, Owner

LEMMA StreamInit == Init => Stream!Init
  <1> SUFFICES ASSUME Init
               PROVE  Stream!Init
    OBVIOUS
  <1>1. pkt_list = <<>> /\ pkt_list \in Seq(Entry) /\ Len(pkt_list) = 0
    BY EmptySeq DEF Init, Construct
  <1>2. Payload(pkt_list) = <<>>
    BY <1>1, PayloadIsSeq, EmptySeq
  <1> QED
    BY <1>2 DEF Init, Construct, Stream!Init, Payload

\* The queue implements the stream of generations: fifo order, nothing across a
\* flush or a restart, nothing while closed.
THEOREM QueueIsStream == Spec => StreamSpec
  BY QInit, QStep, StreamInit, StreamStep, PTL DEF Spec, StreamSpec, Stream!Spec

-----------------------------------------------------------------------------
(***************************************************************************)
(* Why FFmpegDecoder::Abort returns.  That it does is a liveness property  *)
(* (AbortCompletes); what it rests on besides the scheduling of threads is *)
(* that no wakeup is lost although Get lets go of the mutex before it      *)
(* waits: the event is manual-reset and set by whatever ends a wait.       *)
(***************************************************************************)
\* A Get that sleeps and cannot wake has nothing to wake for.
SleepsRightly == getter = "wait" => event \/ (~abort_request /\ pkt_list = <<>>)

\* While the decoder thread is joined it has been told to end, and a sleep of
\* its ends by the event.
JoinIsSignalled == owner = "joining" => abort_request /\ event /\ getter # "none"

\* InitQueue allocates a new condition, whose event is not triggered, only when
\* no thread can wait for the old one.
DecoderLives ==
    /\ owner \in {"new", "ready", "closed"} => getter \in {"none", "done"}
    /\ owner = "open" => getter # "none"

WakeInv == SleepsRightly /\ JoinIsSignalled /\ DecoderLives

LEMMA WakeStep == IdleWhenClosed /\ WakeInv /\ [Next]_vars => WakeInv'
  <1> SUFFICES ASSUME IdleWhenClosed, WakeInv, [Next]_vars PROVE WakeInv'
    OBVIOUS
  <1> USE DEF IdleWhenClosed, WakeInv, SleepsRightly, JoinIsSignalled, DecoderLives
  <1>1. CASE ReaderPut
    <2>1. PICK p \in AllPkt : Put(p)
      BY <1>1 DEF ReaderPut, PutNullpacket, AllPkt
    <2>2. CASE PutPrivate(p)
      BY <1>1, <2>2, Zenon DEF ReaderPut, PutPrivate, Signal
    <2>3. CASE PutRefused
      BY <1>1, <2>3, Zenon DEF ReaderPut, PutRefused, qvars
    <2> QED
      BY <2>1, <2>2, <2>3 DEF Put
  <1>2. CASE ReaderFlush
    BY <1>2, Zenon DEF ReaderFlush, Flush
  <1>3. CASE GetTakes
    BY <1>3 DEF GetTakes, Take, InGet
  <1>4. CASE GetWaits
    BY <1>4 DEF GetWaits, MustWait, InGet, qvars
  <1>5. CASE GetAborted
    BY <1>5 DEF GetAborted, InGet, qvars
  <1>6. CASE OwnerInit
    BY <1>6 DEF OwnerInit, InitQueue
  <1>7. CASE OwnerStart
    BY <1>7 DEF OwnerStart, Start
  <1>8. CASE OwnerAbort
    <2>1. getter # "none"
      BY <1>8 DEF OwnerAbort
    <2> QED
      BY <1>8, <2>1 DEF OwnerAbort, Abort, Signal
  <1>9. CASE OwnerJoin
    BY <1>9 DEF OwnerJoin, Flush
  <1>10. CASE UNCHANGED vars
    BY <1>10, Zenon DEF vars, qvars
  <1> QED
    BY <1>1, <1>2, <1>3, <1>4, <1>5, <1>6, <1>7, <1>8, <1>9, <1>10
       DEF Next, Reader, Getter, Owner

\* No wakeup is lost: a decoder thread asleep in Get, whose event nobody has
\* triggered, finds an empty queue that is not aborted.
THEOREM NoWakeupLost == Spec => []SleepsRightly
  <1>1. Init => WakeInv
    BY DEF Init, WakeInv, SleepsRightly, JoinIsSignalled, DecoderLives
  <1>2. QInv /\ WakeInv /\ [Next]_vars => WakeInv'
    BY WakeStep DEF QInv
  <1>3. WakeInv => SleepsRightly
    BY DEF WakeInv
  <1> QED
    BY <1>1, <1>2, <1>3, QInit, QStep, PTL DEF Spec

\* What the game thread waits for in FFmpegDecoder::Abort: the decoder thread has
\* ended, or it may run and finds the queue aborted.
JoinMayEnd == owner = "joining" => getter = "done" \/ (InGet /\ abort_request)

\* The next step of the decoder thread during the join is its last.
LastStep == owner = "joining" /\ Getter => getter' = "done"

\* From its signal on, FFmpegDecoder::Abort is one step of the decoder thread away
\* from returning, and no step of any thread takes it further away.
THEOREM JoinIsOneStep == Spec => []JoinMayEnd /\ [][LastStep]_vars
  <1>1. Init => WakeInv
    BY DEF Init, WakeInv, SleepsRightly, JoinIsSignalled, DecoderLives
  <1>2. QInv /\ WakeInv /\ [Next]_vars => WakeInv'
    BY WakeStep DEF QInv
  <1>3. QInv /\ WakeInv => JoinMayEnd
    BY DEF QInv, TypeOK, WakeInv, JoinIsSignalled, JoinMayEnd, InGet
  <1>4. WakeInv /\ [Next]_vars => [LastStep]_vars
    BY DEF WakeInv, JoinIsSignalled, LastStep, Getter, GetTakes, Take, GetWaits, MustWait,
           GetAborted
  <1> QED
    BY <1>1, <1>2, <1>3, <1>4, QInit, QStep, PTL DEF Spec
=============================================================================
