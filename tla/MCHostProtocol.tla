--------------------------- MODULE MCHostProtocol ---------------------------
(* The two bytes of the framing, a command byte and 0.                     *)
EXTENDS HostProtocol

MCByte == {0, 6, 68, 119}
=============================================================================
