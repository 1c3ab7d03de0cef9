------------------------------ MODULE MCLinkState ------------------------------
\* Two port groups whose links change four times, and two NFEs.
EXTENDS LinkState
===============================================================================
