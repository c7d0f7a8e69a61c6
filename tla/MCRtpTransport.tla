--------------------------- MODULE MCRtpTransport ---------------------------
(* Small instances of RtpTransport for TLC: packets of two bytes.          *)
EXTENDS RtpTransport

\* A single packet, a NALU of one packet and one byte, and three fragments.
SomeLengths == {2, 3, 6}

NoFaults == {{}}
Lossy == {"lose", "restart"}
EveryFault == {"lose", "duplicate", "reorder", "restart", "foreign"}
SomeNetworks == {{}, Lossy, EveryFault}
=============================================================================
