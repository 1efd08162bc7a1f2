------------------------------- MODULE Timers -------------------------------
(***************************************************************************)
(* What the timeouts of a thread promise (lwIP/src/core/sys.c): one-shot   *)
(* timers that count down side by side, each untouched by the setting and  *)
(* cancelling of the others, of which the nearest fires first.             *)
(***************************************************************************)
EXTENDS Integers

CONSTANTS
    Handlers,  \* the timeout handlers
    MaxTime    \* no timer is set for longer

VARIABLE rem   \* the milliseconds left, of every timer that is set

Times == 0..MaxTime

\* The function f without h, and with h set to t.
Without(f, h) == [g \in DOMAIN f \ {h} |-> f[g]]
With(f, h, t) == [g \in DOMAIN f \cup {h} |-> IF g = h THEN t ELSE f[g]]

Init == \E H \in SUBSET Handlers : rem \in [H -> Times]

Set(h) ==
    /\ h \notin DOMAIN rem
    /\ \E t \in Times : rem' = With(rem, h, t)

Cancel(h) ==
    /\ h \in DOMAIN rem
    /\ rem' = Without(rem, h)

\* Time passes for all timers alike, and for none beyond its end.
Advance ==
    \E d \in Times :
        /\ \A g \in DOMAIN rem : d <= rem[g]
        /\ rem' = [g \in DOMAIN rem |-> rem[g] - d]

\* The nearest timer fires, and its handler may set it again.
Fire(h) ==
    /\ h \in DOMAIN rem
    /\ \A g \in DOMAIN rem : rem[h] <= rem[g]
    /\ LET rest == [g \in DOMAIN rem \ {h} |-> rem[g] - rem[h]]
       IN  \/ rem' = rest
           \/ \E t \in Times : rem' = With(rest, h, t)

Next == Advance \/ \E h \in Handlers : Set(h) \/ Cancel(h) \/ Fire(h)

Spec == Init /\ [][Next]_rem

=============================================================================
