---------------------------- MODULE MCWorkflowPhases ----------------------------
(* Relays are interchangeable, and so are the phone's requests.  With two     *)
(* relays a behaviour is followed through a block or a death, not through     *)
(* both (MCRunRecovery is about one relay and takes any mixture of them).     *)
EXTENDS WorkflowPhases, TLC

Symmetry == Permutations(Relays) \cup Permutations(RetryKeys)

OneMishap == crashes + run.blocks <= 1
=============================================================================
