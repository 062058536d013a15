---------------------------- MODULE MCEventLoop ----------------------------
EXTENDS EventLoop

CONSTANTS t1, t2, c1

MCCallers == {t1, t2}
MCChannels == {c1}
=============================================================================
