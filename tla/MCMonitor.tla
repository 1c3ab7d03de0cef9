------------------------------- MODULE MCMonitor -------------------------------
(* Two NFEs and room for three in the arrays; up to two things wrong at a time, of which  *)
(* one comes or goes in a sweep: faults, a pid that is lost, a number of NFEs that is     *)
(* wrong, a second monitor.                                                               *)
EXTENDS Monitor
===============================================================================
