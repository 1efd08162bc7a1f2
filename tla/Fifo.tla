------------------------------- MODULE Fifo -------------------------------
(***************************************************************************)
(* What a mailbox promises to those who use it: every message it has       *)
(* accepted is handed over once, in the order of acceptance, and no more   *)
(* than Room are under way.                                                *)
(***************************************************************************)
EXTENDS Naturals, Sequences

CONSTANTS Messages, Room, None

VARIABLES
    chan,   \* the messages accepted and not yet handed over
    last    \* the one handed over last

Init == chan = <<>> /\ last = None

Accept ==
    Len(chan) < Room /\ \E m \in Messages : chan' = Append(chan, m) /\ last' = last

HandOver == chan # <<>> /\ last' = Head(chan) /\ chan' = Tail(chan)

Next == Accept \/ HandOver

Spec == Init /\ [][Next]_<<chan, last>>

===========================================================================
