------------------------------ MODULE SlotPool ------------------------------
(***************************************************************************)
(* What the admission of inference requests promises: never more than      *)
(* MaxConcurrent at the engine, and nobody turned away while there is room.*)
(***************************************************************************)
EXTENDS Integers, FiniteSets

CONSTANTS Requests, MaxConcurrent

VARIABLES inside,       \* requests being served by the engine
          turnedAway    \* requests refused for lack of a slot

vars == <<inside, turnedAway>>

Init == inside = {} /\ turnedAway = {}

Enter(r) ==
    /\ r \notin inside \cup turnedAway
    /\ Cardinality(inside) < MaxConcurrent
    /\ inside' = inside \cup {r}
    /\ UNCHANGED turnedAway

TurnAway(r) ==
    /\ r \notin inside \cup turnedAway
    /\ Cardinality(inside) = MaxConcurrent
    /\ turnedAway' = turnedAway \cup {r}
    /\ UNCHANGED inside

Leave(r) ==
    /\ r \in inside
    /\ inside' = inside \ {r}
    /\ UNCHANGED turnedAway

Next == \E r \in Requests : Enter(r) \/ TurnAway(r) \/ Leave(r)

Spec == Init /\ [][Next]_vars
=============================================================================
