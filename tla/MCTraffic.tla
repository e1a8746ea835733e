------------------------------ MODULE MCTraffic -----------------------------
\* Small instances of Traffic for its runs.
EXTENDS Traffic

CONSTANTS o1, o2, p1, p2, NumSocks

MCOne == {o1}
MCTwo == {o1, o2}
MCPorts == {p1, p2}
MCPort == {p1}
MCSockIds == 1 .. NumSocks
=============================================================================
