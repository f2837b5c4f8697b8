--------------------------- MODULE TimelineReader ---------------------------
(***************************************************************************)
(* What the daemon promises a client of a timeline (docs/timeline-sync.md):*)
(* the log grows in epochs, and a client reads on in it.  It never goes    *)
(* back within an epoch or to an earlier one, never is ahead of the log,   *)
(* and starts anew only after the log itself has.                          *)
(***************************************************************************)
EXTENDS Naturals

VARIABLES
    epoch,   \* the epoch of the log
    length,  \* its rows
    at       \* the last row read, <<epoch, number>>

vars == <<epoch, length, at>>

Nothing == <<0, 0>>

Init == epoch = 1 /\ length = 0 /\ at = Nothing

Grow ==
    /\ length' \in Nat /\ length' > length
    /\ UNCHANGED <<epoch, at>>

Renew ==
    /\ epoch' = epoch + 1 /\ length' \in Nat
    /\ UNCHANGED at

Later(p, q) == p[1] > q[1] \/ (p[1] = q[1] /\ p[2] > q[2])

Read ==
    /\ at' \in (1..epoch) \X (Nat \ {0})
    /\ Later(at', at) /\ (at'[1] = epoch => at'[2] <= length)
    /\ UNCHANGED <<epoch, length>>

StartAnew ==
    /\ at # Nothing /\ at[1] < epoch
    /\ at' = Nothing
    /\ UNCHANGED <<epoch, length>>

Next == Grow \/ Renew \/ Read \/ StartAnew

Spec == Init /\ [][Next]_vars
=============================================================================
