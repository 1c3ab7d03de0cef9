----------------------------- MODULE MCSupervisor -----------------------------
\* Two services with a start command and one without, given up after two tries.
EXTENDS Supervisor
===============================================================================
