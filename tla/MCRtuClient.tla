---------------------------- MODULE MCRtuClient ----------------------------
(* RtuClient with the byte values at which the handler decides, and counts *)
(* on both sides of the size of rx_buf and of the width of the index.      *)
EXTENDS RtuClient

MCBytes == {0, 1, 6, 7, 47, 48, 252, 253, 254, 255}
=============================================================================
