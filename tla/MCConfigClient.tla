---------------------------- MODULE MCConfigClient -----------------------------
\* Every program, with two rules, interfaces, settings or ports where it takes any
\* number; ranges of two entries.
EXTENDS ConfigClient
===============================================================================
