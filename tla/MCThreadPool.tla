---------------------------- MODULE MCThreadPool ----------------------------
EXTENDS ThreadPool

CONSTANTS w1, w2, w3, p1, p2

MCWorkers == {w1, w2, w3}
MCProducers == {p1, p2}
=============================================================================
