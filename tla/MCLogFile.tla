------------------------------ MODULE MCLogFile ------------------------------
\* Module LogFile with days of four seconds and a clock that goes on.
EXTENDS LogFile

MCClockSteps == {1}
=============================================================================
