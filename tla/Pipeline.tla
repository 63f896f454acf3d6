------------------------------ MODULE Pipeline ------------------------------
(***************************************************************************)
(* What a wire promises its callers, without channels, workers or          *)
(* configuration: an accepted element gets one fate, once and for all, and *)
(* is thrown away only after the wire has been cancelled.                  *)
(***************************************************************************)
CONSTANT Elements

VARIABLES
    running,   \* the wire has not been cancelled
    inside,    \* elements accepted and not settled
    fate       \* what became of each element, "none" until settled

vars == <<running, inside, fate>>

Init ==
    /\ running = TRUE
    /\ inside = {}
    /\ fate = [e \in Elements |-> "none"]

\* A stopped wire may still take an element into its input buffer.
Accept(e) ==
    /\ e \notin inside /\ fate[e] = "none"
    /\ inside' = inside \cup {e}
    /\ UNCHANGED <<running, fate>>

Settle(e, how) ==
    /\ e \in inside
    /\ how = "discarded" => ~running
    /\ inside' = inside \ {e}
    /\ fate' = [fate EXCEPT ![e] = how]
    /\ UNCHANGED running

Cancel ==
    /\ running
    /\ running' = FALSE
    /\ UNCHANGED <<inside, fate>>

Next ==
    \/ \E e \in Elements :
        \/ Accept(e)
        \/ \E how \in {"emitted", "failed", "diverted", "discarded"} : Settle(e, how)
    \/ Cancel

Spec == Init /\ [][Next]_vars
=============================================================================
