----------------------------- MODULE MCPcapRecord -----------------------------
\* A recording of at most MaxPackets packets.
EXTENDS PcapRecord
===============================================================================
