------------------------------- MODULE MCRelay ------------------------------
\* A small instance of Relay for its runs.
EXTENDS Relay

CONSTANTS BlocksA, BlocksB
MCBlocks == [x \in Socks |-> IF x = A THEN BlocksA ELSE BlocksB]
=============================================================================
