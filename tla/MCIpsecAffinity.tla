---------------------------- MODULE MCIpsecAffinity ----------------------------
\* Every type, and every number of NFEs and of workers the array of masks has room for.
EXTENDS IpsecAffinity
===============================================================================
