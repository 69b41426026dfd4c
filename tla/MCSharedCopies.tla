---------------------------- MODULE MCSharedCopies ----------------------------
(* What several processes keep together, side by side: a behaviour is one of   *)
(* a draft that phones and the host have (DraftSync), or of the search index   *)
(* that relays fill (SearchIndex), and focus says of which. They share no      *)
(* state. The phones are interchangeable.                                      *)
EXTENDS DraftSync, SearchIndex, TLC

VARIABLE focus

OfDraft(Act)  == focus = "draft" /\ Act /\ UNCHANGED <<focus, searchVars>>
OfSearch(Act) == focus = "search" /\ Act /\ UNCHANGED <<focus, draftVars>>

\* The part that the behaviour is not about stays at one of its initial states.
Init ==
    /\ focus \in {"draft", "search"}
    /\ DraftInit /\ SearchInit
    /\ focus = "draft" => source = 0 /\ index.version = "new"

Next == OfDraft(DraftNext) \/ OfSearch(SearchNext)

Spec == Init /\ [][Next]_<<focus, draftVars, searchVars>>

Symmetry == Permutations(Phones)

=============================================================================
