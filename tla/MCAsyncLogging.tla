--------------------------- MODULE MCAsyncLogging ---------------------------
EXTENDS AsyncLogging

MCLengths == {1, 2}
=============================================================================
