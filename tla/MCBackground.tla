----------------------------- MODULE MCBackground -----------------------------
(* What a relay does without being asked, side by side: a behaviour is one of *)
(* the delegations (DelegationQueue), of the notices of finished turns        *)
(* (TurnNotices), of the forwards of dev servers (DevForwards) or of the      *)
(* relay's own update (SelfUpdate), and focus says of which. They share no    *)
(* state.                                                                     *)
EXTENDS DelegationQueue, TurnNotices, DevForwards, SelfUpdate

VARIABLE focus

vars == <<focus, delegationVars, noticeVars, forwardVars, updateVars>>

\* A part that the behaviour is not about stays at one of its initial states; of
\* an update that is one with nothing to do.
Init ==
    /\ focus \in {"delegations", "notices", "forwards", "updates"}
    /\ DelegationInit /\ NoticeInit /\ ForwardInit /\ UpdateInit
    /\ focus # "notices" => devices /\ \A c \in Chats : chat[c] = [status |-> "null", asked |-> 0]
    /\ focus # "updates" => released = 1

OfDelegations(Act) ==
    focus = "delegations" /\ Act /\ UNCHANGED <<focus, noticeVars, forwardVars, updateVars>>
OfNotices(Act) ==
    focus = "notices" /\ Act /\ UNCHANGED <<focus, delegationVars, forwardVars, updateVars>>
OfForwards(Act) ==
    focus = "forwards" /\ Act /\ UNCHANGED <<focus, delegationVars, noticeVars, updateVars>>
OfUpdates(Act) ==
    focus = "updates" /\ Act /\ UNCHANGED <<focus, delegationVars, noticeVars, forwardVars>>

Next ==
    \/ OfDelegations(DelegationNext)
    \/ OfNotices(NoticeNext)
    \/ OfForwards(ForwardNext)
    \/ OfUpdates(UpdateNext)

\* Delegations: as in their own module. Notices: the poll is an interval timer,
\* and a read that fails is read again. Updates: the timers come round, launchd
\* restarts the process, an installation ends.
Fairness ==
    /\ WF_vars(OfDelegations(WakeQueue))
    /\ \A d \in Jobs :
        /\ WF_vars(OfDelegations(Produces(d)))
        /\ SF_vars(OfDelegations(Attempts(d) \/ Observes(d)))
        /\ SF_vars(OfDelegations(OpenReturns(d) \/ ConfigureReturns(d) \/ Types(d)))
        /\ SF_vars(OfDelegations(ChildActs(d) \/ \E w \in Ways : Surfaces(d, w)))
    /\ WF_vars(OfNotices(Polls))
    /\ WF_vars(OfUpdates(Settles \/ Ripens)) /\ WF_vars(OfUpdates(AsksRegistry))
    /\ WF_vars(OfUpdates(Judges \/ Installs \/ Waits))
    /\ WF_vars(OfUpdates(NoticesSkew \/ Relaunches))

Spec == Init /\ [][Next]_vars /\ Fairness
=============================================================================
