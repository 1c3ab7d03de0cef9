------------------------------ MODULE MCHeartbeat ------------------------------
\* Two rounds, two entries in a broadcast's reply, one time below DEFAULT_TIMEOUT
\* and one above it.
EXTENDS Heartbeat
===============================================================================
