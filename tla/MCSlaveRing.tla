---------------------------- MODULE MCSlaveRing -----------------------------
(* SlaveRing with the three slaves of slave.h; the constants are in the    *)
(* configurations.                                                         *)
EXTENDS SlaveRing
=============================================================================
