SPECIFICATION Spec
CONSTANTS
    p1 = p1
    p2 = p2
    eof = eof
    Pkt <- MCPkt
    NullPkt = eof
    PktSize <- MCPktSize
    PktDuration <- MCPktDuration
    Overhead = 2
    MaxSerial = 5
    MaxPackets = 3
INVARIANTS
    TypeOK
    CountsMatch
    BytesMatch
    CurrentSerialOnly
    IdleWhenClosed
PROPERTIES
    AbortCompletes
    StreamSpec
