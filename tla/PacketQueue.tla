---------------------------- MODULE PacketQueue ----------------------------
(***************************************************************************)
(* FFmpegPacketQueue and the FFmpegCond it waits on: the queue of          *)
(* compressed packets between the read thread and one decoder thread.      *)
(*                                                                         *)
(* A critical section of the queue's mutex is one action.  Get releases    *)
(* the mutex before it waits on the condition's event (FFmpegCond is not   *)
(* an atomic condition variable), so a blocked Get is a state of its own.  *)
(* The event is manual-reset and nothing resets it: once triggered it      *)
(* stays triggered until Init allocates a new condition.                   *)
(*                                                                         *)
(* Three threads use the queue: the read thread (Put, PutNullpacket, and   *)
(* Flush on a seek), the decoder thread (Get until it returns -1) and the  *)
(* game thread (Init, Start, and the Abort - join - Flush of               *)
(* FFmpegDecoder::Abort).  The operations constrain the queue's variables  *)
(* only, so that a module that composes the queue with its real threads    *)
(* uses them through INSTANCE.                                             *)
(***************************************************************************)
EXTENDS Integers, Sequences

CONSTANTS
    Pkt,            \* media packets the demuxer delivers
    NullPkt,        \* the empty packet PutNullpacket queues at the end of file
    PktSize,        \* payload bytes of each packet
    PktDuration,    \* duration of each packet
    Overhead,       \* sizeof(MyAVPacketList), added to the size of every entry
    MaxSerial,      \* bound: serial is incremented up to here
    MaxPackets      \* bound: entries the read thread lets the queue hold

AllPkt == Pkt \cup {NullPkt}

ASSUME PacketAssumption ==
    /\ NullPkt \notin Pkt
    /\ PktSize \in [AllPkt -> Nat]
    /\ PktDuration \in [AllPkt -> Nat]
    /\ Overhead \in Nat \ {0}
    /\ MaxSerial \in Nat
    /\ MaxPackets \in Nat

VARIABLES
    pkt_list,       \* the fifo: entries [pkt, serial], oldest first
    nb_packets,     \* number of entries, kept by hand
    size,           \* bytes of all entries, kept by hand
    duration,       \* duration of all entries, kept by hand
    abort_request,  \* Put and Get return -1 while it is set
    serial,         \* serial given to the packets put from now on
    event,          \* the condition's event is triggered
    live,           \* AVPackets Put allocated that nobody has freed yet
    getter,         \* decoder thread: "none", "run", "wait" (in Get), "done"
    owner           \* game thread: "new", "ready", "open", "joining", "closed"

qvars == <<pkt_list, nb_packets, size, duration, abort_request, serial, event, live>>
vars  == <<qvars, getter, owner>>

Entry == [pkt : AllPkt, serial : Nat]

(***************************************************************************)
(* The operations of the queue.                                            *)
(***************************************************************************)

\* The constructor.  It leaves abort_request at 0; the mutex and the condition
\* do not exist before Init.
Construct ==
    /\ pkt_list = <<>>
    /\ nb_packets = 0 /\ size = 0 /\ duration = 0
    /\ abort_request = FALSE
    /\ serial = 0
    /\ event = FALSE
    /\ live = 0

\* Init: a new fifo, a new mutex and a new condition; the counters and the
\* serial keep their values.
InitQueue ==
    /\ pkt_list' = <<>>
    /\ event' = FALSE
    /\ abort_request' = TRUE
    /\ UNCHANGED <<nb_packets, size, duration, serial, live>>

\* FFmpegCond::signal: trigger the manual-reset event.
Signal == event' = TRUE

\* Put when PutPrivate refuses: the queue is aborted, or the fifo cannot grow.
\* Put frees the packet it has just allocated.
PutRefused == UNCHANGED qvars

\* Put with PutPrivate accepting the packet under the current serial.
PutPrivate(p) ==
    /\ ~abort_request
    /\ pkt_list' = Append(pkt_list, [pkt |-> p, serial |-> serial])
    /\ nb_packets' = nb_packets + 1
    /\ size' = size + PktSize[p] + Overhead
    /\ duration' = duration + PktDuration[p]
    /\ live' = live + 1
    /\ Signal
    /\ UNCHANGED <<abort_request, serial>>

Put(p) == PutPrivate(p) \/ PutRefused

PutNullpacket == Put(NullPkt)

\* Mutant: the serial is bumped but the queued packets stay.
FlushKeepsPackets ==
    /\ serial' = serial + 1
    /\ UNCHANGED <<pkt_list, nb_packets, size, duration, live, abort_request, event>>

\* Mutant: the counters are cleared but the fifo is not drained.
FlushCountersOnly ==
    /\ nb_packets' = 0 /\ size' = 0 /\ duration' = 0
    /\ serial' = serial + 1
    /\ UNCHANGED <<pkt_list, live, abort_request, event>>

\* Mutant: the fifo is emptied and the duration forgotten.
FlushKeepsDuration ==
    /\ pkt_list' = <<>>
    /\ nb_packets' = 0 /\ size' = 0
    /\ live' = live - Len(pkt_list)
    /\ serial' = serial + 1
    /\ UNCHANGED <<duration, abort_request, event>>

\* Flush frees every queued packet and starts a new serial.
Flush ==
    /\ pkt_list' = <<>>
    /\ nb_packets' = 0 /\ size' = 0 /\ duration' = 0
    /\ live' = live - Len(pkt_list)
    /\ serial' = serial + 1
    /\ UNCHANGED <<abort_request, event>>

\* Mutant: Abort does not signal the condition.
AbortSilently ==
    /\ abort_request' = TRUE
    /\ UNCHANGED <<pkt_list, nb_packets, size, duration, serial, event, live>>

Abort ==
    /\ abort_request' = TRUE
    /\ Signal
    /\ UNCHANGED <<pkt_list, nb_packets, size, duration, serial, live>>

Start ==
    /\ abort_request' = FALSE
    /\ serial' = serial + 1
    /\ UNCHANGED <<pkt_list, nb_packets, size, duration, event, live>>

\* Mutant: Get takes the newest entry.
TakeNewest ==
    LET e == pkt_list[Len(pkt_list)]
    IN  /\ ~abort_request
        /\ pkt_list # <<>>
        /\ pkt_list' = SubSeq(pkt_list, 1, Len(pkt_list) - 1)
        /\ nb_packets' = nb_packets - 1
        /\ size' = size - (PktSize[e.pkt] + Overhead)
        /\ duration' = duration - PktDuration[e.pkt]
        /\ live' = live - 1
        /\ UNCHANGED <<abort_request, serial, event>>

\* One pass of Get's loop that takes the oldest entry (returns 1).
Take ==
    LET e == Head(pkt_list)
    IN  /\ ~abort_request
        /\ pkt_list # <<>>
        /\ pkt_list' = Tail(pkt_list)
        /\ nb_packets' = nb_packets - 1
        /\ size' = size - (PktSize[e.pkt] + Overhead)
        /\ duration' = duration - PktDuration[e.pkt]
        /\ live' = live - 1
        /\ UNCHANGED <<abort_request, serial, event>>

\* The pass that finds nothing and, with block = 1, goes to wait.
MustWait == ~abort_request /\ pkt_list = <<>>

(***************************************************************************)
(* The threads.                                                            *)
(***************************************************************************)
Init ==
    /\ Construct
    /\ getter = "none"
    /\ owner = "new"

\* The read thread exists from Init on; it may act at any moment after it.
ReaderPut ==
    /\ owner # "new"
    /\ nb_packets < MaxPackets
    /\ \/ \E p \in Pkt : Put(p)
       \/ PutNullpacket
    /\ UNCHANGED <<getter, owner>>

ReaderFlush ==
    /\ owner # "new"
    /\ serial < MaxSerial
    /\ Flush
    /\ UNCHANGED <<getter, owner>>

\* The decoder thread calls Get, or wakes from its wait: the event's Wait
\* returns only once the event is triggered, then the loop is entered again.
InGet == getter = "run" \/ (getter = "wait" /\ event)

GetTakes ==
    /\ InGet
    /\ Take
    /\ getter' = "run"
    /\ UNCHANGED owner

GetWaits ==
    /\ InGet
    /\ MustWait
    /\ getter' = "wait"
    /\ UNCHANGED <<qvars, owner>>

GetAborted ==
    /\ InGet
    /\ abort_request
    /\ getter' = "done"
    /\ UNCHANGED <<qvars, owner>>

OwnerInit ==
    /\ owner \in {"new", "closed"}
    /\ InitQueue
    /\ owner' = "ready"
    /\ UNCHANGED getter

\* FFmpegDecoder::Start: the queue is started, then the thread is created.
OwnerStart ==
    /\ owner \in {"ready", "closed"}
    /\ serial < MaxSerial
    /\ Start
    /\ getter' = "run"
    /\ owner' = "open"

\* FFmpegDecoder::Abort up to the join of the decoder thread ...
OwnerAbort ==
    /\ owner = "open"
    /\ Abort
    /\ owner' = "joining"
    /\ UNCHANGED getter

\* Mutant: FFmpegDecoder::Abort returns without the final Flush.
OwnerJoinNoFlush ==
    /\ owner = "joining"
    /\ getter = "done"
    /\ owner' = "closed"
    /\ UNCHANGED <<qvars, getter>>

\* ... and from the join on.
OwnerJoin ==
    /\ owner = "joining"
    /\ getter = "done"
    /\ Flush
    /\ owner' = "closed"
    /\ UNCHANGED getter

Getter == GetTakes \/ GetWaits \/ GetAborted
Reader == ReaderPut \/ ReaderFlush
Owner  == OwnerInit \/ OwnerStart \/ OwnerAbort \/ OwnerJoin

Next == Reader \/ Getter \/ Owner

\* The decoder thread and the joining thread are scheduled by the OS; neither
\* the demuxer nor the user owes another packet or another call.
Spec == Init /\ [][Next]_vars /\ WF_vars(Getter) /\ WF_vars(OwnerJoin)

-----------------------------------------------------------------------------
(***************************************************************************)
(* Properties.                                                             *)
(***************************************************************************)

\* The types of the variables: the number of entries and of live packets never
\* goes below zero, whoever decrements it.
TypeOK ==
    /\ pkt_list \in Seq(Entry)
    /\ nb_packets \in Nat
    /\ size \in Int
    /\ duration \in Int
    /\ abort_request \in BOOLEAN
    /\ serial \in Nat
    /\ event \in BOOLEAN
    /\ live \in Nat
    /\ getter \in {"none", "run", "wait", "done"}
    /\ owner \in {"new", "ready", "open", "joining", "closed"}

\* The packet count the read thread and the decoder read without the mutex is
\* the length of the fifo, and the packets allocated by Put are exactly the
\* ones queued: across aborts, flushes and re-initialisations none leaks and
\* none is freed twice.
CountsMatch ==
    /\ nb_packets = Len(pkt_list)
    /\ live = Len(pkt_list)

\* The sum of a weight over the entries of a list.
Total(weight, list) ==
    LET sum[i \in 0..Len(list)] ==
            IF i = 0 THEN 0 ELSE sum[i - 1] + weight[list[i].pkt]
    IN  sum[Len(list)]

\* The byte and duration totals, which decide when the read thread stops
\* reading, are those of the queued packets.
BytesMatch ==
    /\ size = Total(PktSize, pkt_list) + Overhead * Len(pkt_list)
    /\ duration = Total(PktDuration, pkt_list)

\* Every queued packet carries the current serial: no packet of before a seek,
\* or of the stream that was open before, can still be delivered.
CurrentSerialOnly == \A i \in 1..Len(pkt_list) : pkt_list[i].serial = serial

\* Outside the time a decoder uses it the queue is aborted and empty, so that
\* Init, which throws the fifo away, loses no packet; and while the decoder
\* thread is being joined the queue stays aborted.
IdleWhenClosed ==
    /\ owner = "new" => pkt_list = <<>>
    /\ owner \in {"ready", "closed"} => abort_request /\ pkt_list = <<>>
    /\ owner = "joining" => abort_request

\* FFmpegDecoder::Abort always returns: whatever Get is doing when the queue
\* is aborted, the decoder thread ends and the join completes.
AbortCompletes == owner = "joining" ~> owner = "closed"

\* What the queue promises, whatever the interleaving: see PacketStream.
Stream == INSTANCE PacketStream WITH
    contents <- [i \in 1..Len(pkt_list) |-> pkt_list[i].pkt],
    generation <- serial,
    open <- ~abort_request

StreamSpec == Stream!Spec
=============================================================================
