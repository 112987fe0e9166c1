--------------------------- MODULE MCCaptureStore ---------------------------
\* The capture store for TLC: every home's launcher runs the one program.
EXTENDS CaptureStore

CONSTANT claude

HomesRunClaude == [h \in Homes |-> claude]
=============================================================================
