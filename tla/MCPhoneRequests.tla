--------------------------- MODULE MCPhoneRequests ---------------------------
(* Two things a phone asks for and that the relay goes on with alone, side by *)
(* side: a behaviour is one of the prompts it sends (PromptDelivery) or of the*)
(* windows in which it keeps the Mac awake (KeepAwake), and focus says of     *)
(* which. They share no state.                                                *)
EXTENDS PromptDelivery, KeepAwake

VARIABLE focus

vars == <<focus, promptVars, awakeVars>>

\* The part that the behaviour is not about stays at one of its initial states.
Init ==
    /\ focus \in {"prompts", "awake"}
    /\ PromptInit /\ AwakeInit
    /\ focus = "prompts" => ~lid

OfPrompts(Act) == focus = "prompts" /\ Act /\ UNCHANGED <<focus, awakeVars>>
OfAwake(Act)   == focus = "awake" /\ Act /\ UNCHANGED <<focus, promptVars>>

Next == OfPrompts(PromptNext) \/ OfAwake(AwakeNext)

\* As in the two modules.
Fairness ==
    /\ WF_vars(OfPrompts(Probes)) /\ WF_vars(OfPrompts(Walks))
    /\ WF_vars(OfPrompts(Drives(Pump)))
    /\ \A w \in Windows : WF_vars(OfAwake(~asleep /\ HelperSteps(w)))
    /\ WF_vars(OfAwake(~asleep /\ Disarmed)) /\ WF_vars(OfAwake(~asleep /\ SleepsSoon))
    /\ WF_vars(OfAwake(~asleep /\ Rescans)) /\ WF_vars(OfAwake(~asleep /\ TimerExpires))
    /\ WF_vars(OfAwake(~asleep /\ SleepsAtExpiry))

Spec == Init /\ [][Next]_vars /\ Fairness
=============================================================================
