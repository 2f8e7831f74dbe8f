------------------------------ MODULE MCAgent ------------------------------
EXTENDS Agent

CONSTANTS tailer, storage, heartbeat

\* main starts the tailers first and the heartbeat last.
MCOrder == <<tailer, storage, heartbeat>>
=============================================================================
