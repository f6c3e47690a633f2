------------------------- MODULE WriteOncePublication -------------------------
(***************************************************************************)
(* What the release tools promise about a path they publish to (the        *)
(* keyset, a signed release, a provenance record): the first writer to     *)
(* publish fills it, nothing replaces what it holds, and what a writer     *)
(* was told is published stays.  Only a publication nobody was told of     *)
(* may be lost.                                                            *)
(***************************************************************************)
CONSTANTS
    Writers,   \* whoever may publish to the path
    Nobody     \* the path is free; no member of Writers

VARIABLES
    slot,          \* whose publication the path holds
    acknowledged   \* the writers that were told of success

Init == slot = Nobody /\ acknowledged = {}

Publish(w) == slot = Nobody /\ slot' = w /\ UNCHANGED acknowledged

Acknowledge(w) == slot = w /\ acknowledged' = acknowledged \cup {w} /\ UNCHANGED slot

Lose == acknowledged = {} /\ slot' = Nobody /\ UNCHANGED acknowledged

Next == Lose \/ \E w \in Writers : Publish(w) \/ Acknowledge(w)

Spec == Init /\ [][Next]_<<slot, acknowledged>>
=============================================================================
