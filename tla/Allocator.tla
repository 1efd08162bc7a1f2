----------------------------- MODULE Allocator -----------------------------
(***************************************************************************)
(* What a heap promises its users: memory that is given out lies inside    *)
(* the heap and is nobody else's until it is given back; the owner may     *)
(* give back the end of it.                                                *)
(***************************************************************************)
EXTENDS Integers

CONSTANTS
    Offsets,   \* where memory that is given out may begin
    Sizes,     \* how much may be given out at once
    End        \* the end of the heap

VARIABLE owned \* how much has been given out, by offset

Init == owned = [m \in {} |-> 0]

\* Two stretches of memory have no byte in common.
Apart(m, size, n, size2) == m + size <= n \/ n + size2 <= m

Give(m, size) ==
    /\ m + size <= End
    /\ \A n \in DOMAIN owned : Apart(m, size, n, owned[n])
    /\ owned' = [o \in DOMAIN owned \cup {m} |->
                    IF o = m THEN size ELSE owned[o]]

GiveBack(m) == owned' = [o \in DOMAIN owned \ {m} |-> owned[o]]

Shrink(m, size) ==
    /\ size <= owned[m]
    /\ owned' = [owned EXCEPT ![m] = size]

Next ==
    \/ \E m \in Offsets, size \in Sizes : Give(m, size)
    \/ \E m \in DOMAIN owned : GiveBack(m) \/ \E size \in Sizes : Shrink(m, size)

Spec == Init /\ [][Next]_owned

=============================================================================
