----------------------------- MODULE LossyFifo -----------------------------
(***************************************************************************)
(* What a network interface promises to the protocols above it: frames may *)
(* be lost at any point, and are neither reordered, doubled nor made up.   *)
(***************************************************************************)
EXTENDS Sequences, SequencesExt

CONSTANT Frames

VARIABLE chan   \* the frames under way, the oldest first

Init == chan = <<>>

\* A frame comes in.
Send == \E f \in Frames : chan' = Append(chan, f)

\* The oldest frame is handed over, or any frame is lost.
Take == \E i \in DOMAIN chan : chan' = RemoveAt(chan, i)

Next == Send \/ Take

Spec == Init /\ [][Next]_chan

=============================================================================
