------------------------------ MODULE EffectHold ------------------------------
(***************************************************************************)
(* DurableEffect with the history of the hold on the window since the      *)
(* effect last became ambiguous.                                           *)
(***************************************************************************)
EXTENDS DurableEffect

VARIABLE lifted    \* since: a hold was lifted, or the relay to raise it died

HoldInit == Init /\ lifted = FALSE

BecomesAmbiguous == effect'.state = "ambiguous" /\ effect.state # "ambiguous"

Lifts ==
    \/ hold # "none" /\ hold' = "none"
    \/ \E r \in Relays : At(r, "quarantining") /\ r \notin up'

HoldNext ==
    /\ Next
    /\ lifted' = (~BecomesAmbiguous /\ (lifted \/ Lifts))

HoldSpec == HoldInit /\ [][HoldNext]_<<vars, lifted>> /\ Fairness

\* A run that is blocked on an effect that may have happened has the window
\* under a hold, or about to be: until somebody lifts it, or the relay that
\* was to raise it dies, whichever relay blocked the run.
AmbiguousBlockIsHeld ==
    run.phase = "blocked" /\ run.why = "ambiguous" /\ effect.state = "ambiguous" =>
        hold # "none" \/ lifted \/ \E r \in Relays : At(r, "quarantining")
=============================================================================
