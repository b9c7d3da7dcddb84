--------------------------- MODULE MCPacketQueue ---------------------------
(* Values of the constants for the model checking of PacketQueue. *)
EXTENDS PacketQueue

CONSTANTS p1, p2, eof

MCPkt == {p1, p2}
MCPktSize == [p \in {p1, p2, eof} |-> IF p = p1 THEN 1 ELSE IF p = p2 THEN 3 ELSE 0]
MCPktDuration == [p \in {p1, p2, eof} |-> IF p = p1 THEN 2 ELSE IF p = p2 THEN 1 ELSE 0]
=============================================================================
