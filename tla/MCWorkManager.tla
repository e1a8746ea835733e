---------------------------- MODULE MCWorkManager ---------------------------
\* Small instances of WorkManager for its runs.
EXTENDS WorkManager

CONSTANTS plain, plain2, tls, async, sig    \* sockets, an async worker, a signal
CONSTANTS SockQuota, OtherQuota

MCQuota == [s \in Sources |-> IF s \in Socks THEN SockQuota ELSE OtherQuota]
MCPlains == {plain, plain2}
MCTLS == {tls}
MCAsync == {async}
MCSignals == {sig}
MCNone == {}

=============================================================================
