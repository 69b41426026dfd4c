----------------------------- MODULE MCTurnTaking -----------------------------
(* Whose turn it is, at the window and on a voice call, side by side: a        *)
(* behaviour is one of the queue for Conductor's window (UiTurns) or of a call *)
(* (VoiceTurns), and focus says of which. They share no state.                 *)
EXTENDS UiTurns, VoiceTurns

VARIABLE focus

all == <<focus, vars, voiceVars>>

OfWindow(Act) == focus = "window" /\ Act /\ UNCHANGED <<focus, voiceVars>>
OfVoice(Act)  == focus = "voice" /\ Act /\ UNCHANGED <<focus, vars>>

AllInit == focus \in {"window", "voice"} /\ Init /\ VoiceInit

AllNext == OfWindow(Next) \/ OfVoice(VoiceNext)

\* The fairness of each module, in its own behaviours.
AllFairness ==
    /\ WF_all(OfWindow(\E c \in Calls : TurnProgress(c)))
    /\ WF_all(OfVoice(Opens)) /\ WF_all(OfVoice(Hears)) /\ WF_all(OfVoice(ProviderWorks))

AllSpec == AllInit /\ [][AllNext]_all /\ AllFairness
=============================================================================
