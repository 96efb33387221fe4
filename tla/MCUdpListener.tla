--------------------------- MODULE MCUdpListener ----------------------------
(* Two addresses.                                                          *)
EXTENDS UdpListener, TLC

CONSTANTS a1, a2
TwoAddrs == {a1, a2}
=============================================================================
