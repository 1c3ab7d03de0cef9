------------------------------ MODULE MCCounters ------------------------------
\* Two polls, two tries, a table of two rows and a column.
EXTENDS Counters
===============================================================================
