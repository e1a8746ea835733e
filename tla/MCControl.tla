------------------------------ MODULE MCControl ------------------------------
\* Small instances of Control for its runs.
EXTENDS Control
CONSTANT NumSocks
MCSockIds == 1 .. NumSocks
=============================================================================
