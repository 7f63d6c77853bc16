------------------------- MODULE MCGaussConnector -------------------------
(* Instances of GaussConnector for TLC. *)
EXTENDS GaussConnector

CONSTANTS k1, k2, k3, buf1, buf2

MCCalls   == {k1, k2, k3}
MCBuffers == {buf1, buf2}
===========================================================================
