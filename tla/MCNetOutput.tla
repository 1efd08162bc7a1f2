---------------------------- MODULE MCNetOutput ----------------------------
(* NetOutput with the two Tx descriptors of the build and three frames, one
   more than can be queued.                                                 *)
EXTENDS NetOutput

CONSTANTS f1, f2, f3

MCFrames == {f1, f2, f3}
=============================================================================
