---------------------------- MODULE ByteStream ----------------------------
(***************************************************************************)
(* What a TCP connection promises to the applications at its two ends: the *)
(* bytes written at one end are delivered at the other, each once and in   *)
(* the order of writing.  The n-th byte written at an end is the number n. *)
(***************************************************************************)
EXTENDS Naturals, Sequences

CONSTANTS End, Peer(_)

VARIABLES written, got

Init == /\ written = [e \in End |-> 0]
        /\ got = [e \in End |-> <<>>]

Write(e) ==
    /\ written' = [written EXCEPT ![e] = written'[e]]
    /\ written'[e] > written[e]
    /\ UNCHANGED got

\* the next bytes of the peer, up to what it has written
Deliver(e) ==
    /\ got' = [got EXCEPT ![e] = got'[e]]
    /\ Len(got'[e]) \in Len(got[e])..written[Peer(e)]
    /\ got'[e] = [i \in 1..Len(got'[e]) |-> i]
    /\ UNCHANGED written

Next == \E e \in End : Write(e) \/ Deliver(e)

Spec == Init /\ [][Next]_<<written, got>>
=============================================================================
