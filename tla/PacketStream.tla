---------------------------- MODULE PacketStream ----------------------------
(***************************************************************************)
(* What the packet queue promises to its two users: a fifo of packets,     *)
(* each belonging to one generation.  A new generation begins empty, so a  *)
(* packet leaves in the generation it entered, in the order it entered,    *)
(* and only while the stream is open.  It says nothing of counters, of     *)
(* waiting, or of who calls what.                                          *)
(***************************************************************************)
EXTENDS Naturals, Sequences

CONSTANT AllPkt     \* the packets, the empty one included

VARIABLES contents, generation, open

vars == <<contents, generation, open>>

Init == contents = <<>> /\ generation = 0 /\ open \in BOOLEAN

Enter(p) == /\ open
            /\ contents' = Append(contents, p)
            /\ generation' = generation /\ open' = open

Leave == /\ open
         /\ contents # <<>>
         /\ contents' = Tail(contents)
         /\ generation' = generation /\ open' = open

Renew == /\ generation' = generation + 1
         /\ contents' = <<>>
         /\ open' = open

Open  == ~open /\ open' /\ generation' = generation + 1 /\ contents' = <<>>

Close == open /\ ~open' /\ UNCHANGED <<contents, generation>>

Next == (\E p \in AllPkt : Enter(p)) \/ Leave \/ Renew \/ Open \/ Close

Spec == Init /\ [][Next]_vars
=============================================================================
