---------------------------- MODULE MCTcpClient ----------------------------
(* TcpClient on a small pool and a small heap. *)
EXTENDS TcpClient, TLC

CONSTANTS p1, p2, p3, b1, b2, b3

MCPcbs2 == {p1, p2}
MCPcbs3 == {p1, p2, p3}
MCBlocks1 == {b1}
MCBlocks2 == {b1, b2}
MCBlocks3 == {b1, b2, b3}

Everything == {"reset", "silence", "early", "noseg", "telnet"}
Graceful == {}
Resets == {"reset"}

\* Connection blocks are interchangeable.
Symmetry2 == Permutations(MCPcbs2)
Symmetry3 == Permutations(MCPcbs3)
=============================================================================
