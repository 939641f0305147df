----------------------------- MODULE RateBudget -----------------------------
(***************************************************************************)
(* What a rate limit of Rpm requests a minute with bursts of Burst         *)
(* promises: an account of credits that fills continuously with the passage*)
(* of time, up to Capacity, and from which every admitted request takes one*)
(* Unit.  Losing the store starts a new, full, account; losses counts      *)
(* those.                                                                  *)
(***************************************************************************)
EXTENDS TokenBucket

VARIABLES credit, admitted, clock, losses

vars == <<credit, admitted, clock, losses>>

Init == credit = Capacity /\ admitted = 0 /\ clock = 0 /\ losses = 0

Elapse ==
    /\ clock' \in Nat /\ clock' > clock
    /\ credit' = Lesser(Capacity, credit + (clock' - clock) * Rpm)
    /\ UNCHANGED <<admitted, losses>>

Admit ==
    /\ credit >= Unit
    /\ credit' = credit - Unit
    /\ admitted' = admitted + 1
    /\ UNCHANGED <<clock, losses>>

Lose ==
    /\ credit' = Capacity
    /\ losses' = losses + 1
    /\ UNCHANGED <<admitted, clock>>

Next == Elapse \/ Admit \/ Lose

Spec == Init /\ [][Next]_vars

TypeOK ==
    /\ credit \in 0..Capacity
    /\ admitted \in Nat
    /\ clock \in Nat
    /\ losses \in Nat

\* Requests admitted never exceed one burst, one more for every loss of the
\* store, and what Rpm requests a minute allow for the time elapsed.
Conservation ==
    Unit * admitted + credit <= Capacity * (1 + losses) + Rpm * clock
=============================================================================
