-------------------------- MODULE MCReverseWindows --------------------------
EXTENDS ReverseWindows
=============================================================================
