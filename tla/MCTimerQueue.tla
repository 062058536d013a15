---------------------------- MODULE MCTimerQueue ----------------------------
EXTENDS TimerQueue

CONSTANT t1

MCCallers == {t1}
MCAddrs == {1, 2}
MCIntervals == {0, 1}
=============================================================================
