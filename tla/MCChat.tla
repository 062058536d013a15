------------------------------- MODULE MCChat -------------------------------
\* Module Chat with two connections, bytes of one bit and headers of two: a
\* line of two bytes is too long.
EXTENDS Chat

MCBytes == {0, 1}
MCLines == {<<>>, <<1>>, <<0, 1>>}
=============================================================================
