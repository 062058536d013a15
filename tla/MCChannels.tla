----------------------------- MODULE MCChannels -----------------------------
\* Module Channels with three descriptors, one of them of two channels.
EXTENDS Channels

MCFdOf == <<0, 0, 1, 2>>
MCHappenings == {{}, {"IN", "HUP"}}
=============================================================================
