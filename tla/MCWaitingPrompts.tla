--------------------------- MODULE MCWaitingPrompts ---------------------------
(* The two queues that hold the first prompt of a chat, side by side: a        *)
(* behaviour is one of the first prompts of new workspaces (FirstPrompts) or   *)
(* of the prompt whose model the relay chooses (AutoModelQueue), and focus     *)
(* says of which. They share no state.                                         *)
EXTENDS FirstPrompts, AutoModelQueue

VARIABLE focus

vars == <<focus, firstVars, autoVars>>

Init == focus \in {"first", "auto"} /\ FirstInit /\ AutoInit

OfFirst(Act) == focus = "first" /\ Act /\ UNCHANGED <<focus, autoVars>>
OfAuto(Act)  == focus = "auto" /\ Act /\ UNCHANGED <<focus, firstVars>>

Next == OfFirst(FirstNext) \/ OfAuto(AutoNext)

\* The fairness of each module, in its own behaviours.
Fairness ==
    /\ WF_vars(OfFirst(Pumps \/ Steps)) /\ WF_vars(OfFirst(ScreenUnlocks))
    /\ \A w \in Workspaces : WF_vars(OfFirst(EntryAges(w)))
    /\ \A r \in Relays : WF_vars(OfAuto(Step(r) \/ Starts(r)))
    /\ WF_vars(OfAuto(Ages)) /\ WF_vars(OfAuto(Unlocks))

Spec == Init /\ [][Next]_vars /\ Fairness
=============================================================================
