---------------------------- MODULE MCRunRecovery ----------------------------
(* What the death of relays leaves of a workflow run, side by side: a         *)
(* behaviour is one of the run's phases and helpers (WorkflowPhases), where   *)
(* the one relay comes back, or of a durable effect (DurableEffect), where    *)
(* nobody does, and focus says of which.                                      *)
EXTENDS WorkflowPhases

CONSTANTS EffectRelays, Kinds, None, MaxAttempts

VARIABLES focus,
          up, effectRun, effect, proc, command, emitted, shown, matches, candidate, hold,
          orphan, keys, allowed

E == INSTANCE DurableEffect WITH Relays <- EffectRelays, run <- effectRun

effects == <<up, effectRun, effect, proc, command, emitted, shown, matches, candidate, hold,
             orphan, keys, allowed>>
all     == <<focus, effects, vars>>

\* The part that the behaviour is not about stays at one of its initial states.
AllInit ==
    /\ focus \in {"effects", "phases"}
    /\ E!Init /\ Init
    /\ focus = "phases" => effect.kind = "send" /\ effect.gated

OfEffects(Act) == focus = "effects" /\ Act /\ UNCHANGED <<focus, vars>>
OfPhases(Act)  == focus = "phases" /\ Act /\ UNCHANGED <<focus, effects>>

AllNext ==
    \/ OfEffects(E!Next)
    \/ OfPhases(Next)

\* As in the two modules.
AllFairness ==
    /\ \A r \in EffectRelays :
        /\ WF_effects(focus = "effects" /\ E!Drive(r))
        /\ WF_effects(focus = "effects" /\ E!Settle(r))
        /\ WF_effects(focus = "effects" /\ E!Recover(r))
    /\ \A n \in E!Attempts : WF_effects(focus = "effects" /\ E!CommandEnds(n))
    /\ \A r \in Relays :
        /\ WF_vars(focus = "phases" /\ (Wake(r) \/ TakeUp(r) \/ Advance(r) \/ Sleep(r)))
        /\ SF_vars(focus = "phases" /\ TakeUp(r))
        /\ SF_vars(focus = "phases" /\ Advance(r))

AllSpec == AllInit /\ [][AllNext]_all /\ AllFairness

-----------------------------------------------------------------------------
\* A dead relay's attempt does not stay with it (DurableEffect); the relays are
\* alike, and one stands for all of them.
OrphanIsSettled == E!OrphanIsSettledOf(CHOOSE r \in EffectRelays : TRUE)

\* Work that was handed to helpers comes back to the root (WorkflowPhases).
HelpersComeBack == focus = "phases" => WorkComesBack
=============================================================================
