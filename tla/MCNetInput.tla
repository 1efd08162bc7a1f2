---------------------------- MODULE MCNetInput ----------------------------
(* NetInput on a ring of three descriptors, with pools smaller than what can
   arrive before tcpip_thread runs.                                         *)
EXTENDS NetInput

Fitting == {"short", "full"}
WithLong == {"short", "full", "long"}
=============================================================================
