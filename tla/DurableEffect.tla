---------------------------- MODULE DurableEffect ----------------------------
(***************************************************************************)
(* One UI effect of one Workflow run, driven by several relay processes    *)
(* over the shared database: prepared, claimed, dispatched, committed from *)
(* a receipt, or failed, or ambiguous when it may have happened and no     *)
(* receipt says so.                                                        *)
(*                                                                         *)
(* Every action is one database transaction, or one step of the outside    *)
(* world; what a relay does between two transactions is its program        *)
(* counter, and it may crash there.  The UI turn itself is in the modules  *)
(* UiTurns and UiLease: here it is granted or refused.                     *)
(*                                                                         *)
(* The kinds: "send" delivers a prompt with the planner's next capability   *)
(* and is recognised by its row in the chat;                               *)
(* "configure" sets a chat's model and is recognised by the settings; an   *)
(* "open" (a child tab, a workspace) leaves only candidates to adopt.      *)
(***************************************************************************)
EXTENDS Naturals, FiniteSets

CONSTANTS
    Relays,        \* relay process incarnations
    Kinds,         \* the kinds of effect considered
    None,
    MaxAttempts    \* bound: claims of the effect

ASSUME EffectAssumption ==
    /\ Kinds \subseteq {"send", "configure", "open"}
    /\ None \notin Relays
    /\ MaxAttempts \in Nat \ {0}

Attempts == 1..MaxAttempts

VARIABLES
    up,         \* relays that have not crashed
    run,        \* phase of the run, why it is blocked, the saved candidates
    effect,     \* the workflow_effects row
    proc,       \* what each relay is doing about the effect
    command,    \* the external command of each attempt
    emitted,    \* attempts whose command has acted on the window
    shown,      \* the row of each attempt's prompt in Conductor's database
    matches,    \* the chat's settings are the ones to configure
    candidate,  \* a new chat or workspace could be adopted
    hold,       \* ui_quarantine: none, of this effect, of another action
    orphan,     \* the UI lease of a dead attempt crossed mayExecute
    keys,       \* unique workflow_events keys of the effect that may recur
    allowed     \* attempts after which a repetition was allowed

vars == <<up, run, effect, proc, command, emitted, shown, matches, candidate, hold, orphan,
          keys, allowed>>

outside == <<command, emitted, shown, matches, candidate, allowed>>

world == <<outside, orphan>>

Phases == {"active", "blocked", "completed", "cancelled"}

\* What blocks a run: a failure before anything was released, an effect that
\* may have happened, a failure no Retry can mend, another relay's version.
Whys == {"none", "deterministic", "ambiguous", "terminal", "compatibility"}

EffectStates == {"prepared", "dispatched", "committed", "failed", "ambiguous", "cancelled"}

\* "outbox": accepted by Conductor, not a message yet; "gone": an outbox row
\* that disappeared without a message.
RowStates == {"none", "outbox", "gone", "message"}

\* A receipt names the attempt whose row it is; "applied" is the receipt of a
\* configure or an open.
Receipts == [kind : {"none", "outbox", "message", "applied"}, of : 0..MaxAttempts]

NoReceipt == [kind |-> "none", of |-> 0]

Applied == [kind |-> "applied", of |-> 0]

Errors == {"plain", "terminal", "compatibility", "mismatch"}

Pcs == {"idle", "claimed", "leased", "dispatched", "ready", "working", "failing",
        "retrying", "quarantining", "blocking", "recovering"}

Resting == [pc |-> "idle", att |-> 0, err |-> "none", seen |-> NoReceipt]

Init ==
    /\ up = Relays
    /\ run = [phase |-> "active", why |-> "none", candidates |-> FALSE]
    /\ \E kind \in Kinds, gated \in BOOLEAN :
         /\ kind # "send" => gated
         /\ effect = [kind |-> kind, gated |-> gated, state |-> "prepared", owner |-> None,
                      attempts |-> 0, nonce |-> 0, mayExecute |-> FALSE, receipt |-> NoReceipt,
                      advanced |-> FALSE]
    /\ proc = [r \in Relays |-> Resting]
    /\ command = [n \in Attempts |-> "none"]
    /\ emitted = {}
    /\ shown = [n \in Attempts |-> "none"]
    /\ matches = FALSE
    /\ candidate = FALSE
    /\ hold = "none"
    /\ orphan = FALSE
    /\ keys = [ambiguous |-> FALSE, committed |-> FALSE, positive |-> 0, refreshed |-> {}]
    /\ allowed = {}

-----------------------------------------------------------------------------
(* Reading *)

Terminal == run.phase \in {"completed", "cancelled"}

At(r, pc) == r \in up /\ proc[r].pc = pc

RowReceipt(n) == [kind |-> shown[n], of |-> n]

Visible == {n \in Attempts : shown[n] \in {"outbox", "message"}}

Messages == {n \in Attempts : shown[n] = "message"}

\* reconcileEffect: the receipts that prove the effect.  A receipt it has is
\* looked up by its id; otherwise any attempt's prompt serves, for they share
\* one marker, and a message before an outbox row.
Proof ==
    CASE effect.kind = "configure" -> {p \in {Applied} : matches}
      [] effect.kind = "open" -> {}
      [] effect.kind = "send" ->
           {RowReceipt(n) : n \in IF effect.receipt.of # 0 THEN {effect.receipt.of} \cap Visible
                                 ELSE IF Messages # {} THEN Messages ELSE Visible}

\* requireEffectOwner: the row still carries this relay's attempt.
Owns(r) == effect.owner = r /\ effect.attempts = proc[r].att

\* Mutant: a helper that was recorded counts as alive for ever.
ExtRecorded == effect.gated /\ effect.attempts > 0 /\ command[effect.attempts] # "none"

ExtAlive == effect.gated /\ effect.attempts > 0 /\ command[effect.attempts] = "running"

-----------------------------------------------------------------------------
(* Writing *)

GoTo(r, pc) == proc' = [proc EXCEPT ![r].pc = pc]

Rest(r) == proc' = [proc EXCEPT ![r] = Resting]

Fail(r, err) == proc' = [proc EXCEPT ![r].pc = "failing", ![r].err = err]

ThenBlock(r, why) == proc' = [proc EXCEPT ![r].pc = "blocking", ![r].err = why]

Transition(state) == effect' = [effect EXCEPT !.state = state]

Committed(receipt) == effect' = [effect EXCEPT !.state = "committed", !.receipt = receipt]

\* Ownerless again, for the next claim.
Prepared ==
    effect' = [effect EXCEPT !.state = "prepared", !.owner = None, !.nonce = 0, !.mayExecute = FALSE]

Raised(h) == IF h = "none" THEN "mine" ELSE h

\* clearMatchingQuarantine: only the hold of this effect.
Cleared(h) == IF h = "mine" THEN "none" ELSE h

\* recordLateWorkflowEffect: the receipt of a cancelled run; it reopens
\* nothing.
RecordLate(receipt) ==
    /\ effect' = [effect EXCEPT !.receipt = receipt,
                                !.state = IF @ \in {"dispatched", "ambiguous"} THEN "committed" ELSE @]
    /\ hold' = Cleared(hold)

Resume == run' = [phase |-> "active", why |-> "none", candidates |-> FALSE]

-----------------------------------------------------------------------------
(* runDurableEffect *)

\* A relay whose wake of this run is at rest and finds it runnable.
Wakes(r) == At(r, "idle") /\ run.phase = "active"

\* Settings that match already commit without touching the window.
Satisfy(r) ==
    /\ Wakes(r)
    /\ effect.kind = "configure" /\ effect.state = "prepared" /\ effect.owner = None
    /\ matches
    /\ Committed(Applied)
    /\ UNCHANGED <<up, run, proc, hold, keys>> /\ UNCHANGED world

Claim(r) ==
    /\ Wakes(r)
    /\ effect.state = "prepared" /\ effect.owner = None /\ effect.attempts < MaxAttempts
    /\ effect.kind = "configure" => ~matches
    /\ effect' = [effect EXCEPT !.owner = r, !.attempts = @ + 1]
    /\ proc' = [proc EXCEPT ![r] = [Resting EXCEPT !.pc = "claimed", !.att = effect.attempts + 1]]
    /\ keys' = [keys EXCEPT !.refreshed = {}]
    /\ UNCHANGED <<up, run, hold>> /\ UNCHANGED world

\* The UI turn starts with the lease: no hold, no dead relay's lease.
TurnStarts(r) ==
    /\ At(r, "claimed") /\ hold = "none" /\ ~orphan
    /\ GoTo(r, "leased")
    /\ UNCHANGED <<up, run, effect, hold, keys>> /\ UNCHANGED world

\* The queue or the lease refuses the turn.
TurnRefused(r) ==
    /\ At(r, "claimed")
    /\ Fail(r, "plain")
    /\ UNCHANGED <<up, run, effect, hold, keys>> /\ UNCHANGED world

\* The dispatch hook: the run must still be runnable.  A sidecar send is
\* marked mayExecute in the same transaction, before it runs.
Dispatch(r) ==
    /\ At(r, "leased") /\ run.phase = "active"
    /\ Owns(r) /\ effect.state = "prepared"
    /\ effect' = [effect EXCEPT !.state = "dispatched", !.nonce = proc[r].att,
                                !.mayExecute = ~effect.gated]
    /\ GoTo(r, IF effect.gated THEN "dispatched" ELSE "ready")
    /\ UNCHANGED <<up, run, hold, keys>> /\ UNCHANGED world

\* The run changed, the chat is not pristine, a relay is incompatible or
\* cannot be inspected.
HookFails(r) ==
    /\ At(r, "leased")
    /\ \E err \in {"plain", "terminal", "compatibility"} :
         (err = "terminal" => effect.kind # "open") /\ Fail(r, err)
    /\ UNCHANGED <<up, run, effect, hold, keys>> /\ UNCHANGED world

\* Mutant: the gate does not look at the run again.
MarkMayExecuteStopped(r) ==
    /\ At(r, "dispatched")
    /\ Owns(r) /\ effect.state = "dispatched"
    /\ effect' = [effect EXCEPT !.mayExecute = TRUE]
    /\ GoTo(r, "ready")
    /\ UNCHANGED <<up, run, hold, keys>> /\ UNCHANGED world

\* gatedProcessReady: the wrapper is recorded and the effect may execute.
MarkMayExecute(r) ==
    /\ At(r, "dispatched") /\ run.phase = "active"
    /\ Owns(r) /\ effect.state = "dispatched"
    /\ effect' = [effect EXCEPT !.mayExecute = TRUE]
    /\ GoTo(r, "ready")
    /\ UNCHANGED <<up, run, hold, keys>> /\ UNCHANGED world

\* The gate refuses, or the lease does afterwards; the wrapper dies blocked.
GateFails(r) ==
    /\ \/ At(r, "dispatched") /\ \E err \in {"plain", "compatibility"} : Fail(r, err)
       \/ At(r, "ready") /\ Fail(r, "plain")
    /\ UNCHANGED <<up, run, effect, hold, keys>> /\ UNCHANGED world

\* GO: the command runs.
Release(r) ==
    /\ At(r, "ready")
    /\ command' = [command EXCEPT ![proc[r].att] = "running"]
    /\ GoTo(r, "working")
    /\ UNCHANGED <<up, run, effect, emitted, shown, matches, candidate, hold, orphan, keys, allowed>>

\* The adapter throws, maybe with its command still running.
CommandFails(r) ==
    /\ At(r, "working")
    /\ \/ Fail(r, "plain")
       \/ /\ effect.kind = "configure" /\ proc[r].att \in emitted
          /\ command[proc[r].att] = "done" /\ ~matches
          /\ Fail(r, "mismatch")
    /\ UNCHANGED <<up, run, effect, hold, keys>> /\ UNCHANGED world

\* Execution returned a receipt.
Returned(r) ==
    /\ At(r, "working") /\ command[proc[r].att] = "done" /\ proc[r].att \in emitted
    /\ effect.kind = "send" => proc[r].att \in Visible
    /\ effect.kind = "configure" => matches

\* The receipt settles the effect the row carries now: under the owner's
\* attempt while the run goes on, as a late one when it was cancelled.  A
\* completed run leaves it dispatched.  The key has no attempt in it.
Commit(r) ==
    /\ Returned(r)
    /\ LET settles == effect.state = "dispatched" /\ effect.mayExecute
           receipt == IF effect.kind = "send" THEN RowReceipt(proc[r].att) ELSE Applied
       IN
         \/ /\ settles /\ run.phase = "cancelled"
            /\ RecordLate(receipt) /\ Rest(r) /\ UNCHANGED keys
         \/ /\ settles /\ run.phase = "completed"
            /\ Rest(r) /\ UNCHANGED <<effect, hold, keys>>
         \/ /\ settles /\ ~Terminal /\ Owns(r) /\ ~keys.committed
            /\ Committed(receipt) /\ Rest(r)
            /\ keys' = [keys EXCEPT !.committed = TRUE]
            /\ UNCHANGED hold
         \/ /\ \/ ~settles
               \/ ~Terminal /\ (~Owns(r) \/ keys.committed)
            /\ Fail(r, "plain") /\ UNCHANGED <<effect, hold, keys>>
    /\ UNCHANGED <<up, run>> /\ UNCHANGED world

-----------------------------------------------------------------------------
(* failEffect.  A transaction it does not pass throws: the outer catch calls *)
(* failEffect again, which throws again or finds nothing to do.             *)

Failing(r) == At(r, "failing")

\* A compatibility read that failed before anything was released.
Deferred(r) == proc[r].err = "compatibility" /\ ~Terminal /\ ~effect.mayExecute

\* Mutant: a dispatched effect counts as not released.
UnreleasedByState(r) ==
    \/ effect.state = "prepared" /\ effect.owner = r
    \/ effect.state = "dispatched"

\* Nothing was released: the attempt failed for certain.
Unreleased(r) ==
    \/ effect.state = "prepared" /\ effect.owner = r
    \/ effect.state = "dispatched" /\ ~effect.mayExecute

FailCertainly(r) ==
    /\ Failing(r) /\ Unreleased(r) /\ Owns(r)
    /\ Terminal => effect.state = "dispatched"
    /\ Transition("failed")
    /\ IF Deferred(r) THEN GoTo(r, "retrying")
       ELSE IF Terminal THEN Rest(r)
       ELSE ThenBlock(r, IF proc[r].err = "terminal" THEN "terminal" ELSE "deterministic")
    /\ UNCHANGED <<up, run, hold, keys>> /\ UNCHANGED world

\* The deferred attempt is put back for a later wake.
PutBack(r) ==
    /\ \/ At(r, "retrying")
       \/ Failing(r) /\ Deferred(r) /\ ~Unreleased(r)
    /\ IF effect.state = "failed" /\ ~Terminal THEN Prepared ELSE UNCHANGED effect
    /\ Rest(r)
    /\ UNCHANGED <<up, run, hold, keys>> /\ UNCHANGED world

Mismatched(r) == proc[r].err = "mismatch" /\ effect.state = "dispatched" /\ effect.mayExecute

\* The settings were applied and read back different: safe to retry.
RejectConfiguration(r) ==
    /\ Failing(r) /\ Mismatched(r) /\ Owns(r)
    /\ Transition("failed")
    /\ allowed' = allowed \cup {effect.attempts}
    /\ ThenBlock(r, "deterministic")
    /\ UNCHANGED <<up, run, command, emitted, shown, matches, candidate, hold, orphan, keys>>

\* Released: only a receipt decides.
Released(r) == effect.state = "dispatched" /\ effect.mayExecute /\ ~Mismatched(r)

FailPositively(r) ==
    /\ Failing(r) /\ Released(r)
    /\ \E receipt \in Proof :
         \/ run.phase = "cancelled" /\ RecordLate(receipt) /\ UNCHANGED keys
         \/ /\ run.phase = "completed" /\ Owns(r) /\ ~keys.committed
            /\ Committed(receipt)
            /\ keys' = [keys EXCEPT !.committed = TRUE]
            /\ UNCHANGED hold
         \/ ~Terminal /\ Owns(r) /\ Committed(receipt) /\ UNCHANGED <<hold, keys>>
    /\ Rest(r)
    /\ UNCHANGED <<up, run>> /\ UNCHANGED world

\* Mutant: the window is not put under a hold.
FailAmbiguouslyUnheld(r) ==
    /\ Failing(r) /\ Released(r) /\ Proof = {} /\ Owns(r) /\ ~keys.ambiguous
    /\ Transition("ambiguous")
    /\ keys' = [keys EXCEPT !.ambiguous = TRUE]
    /\ ThenBlock(r, "ambiguous")
    /\ UNCHANGED <<up, run, hold>> /\ UNCHANGED world

\* The key has no attempt in it: a second time, the transaction throws.
FailAmbiguously(r) ==
    /\ Failing(r) /\ Released(r) /\ Proof = {} /\ Owns(r) /\ ~keys.ambiguous
    /\ Transition("ambiguous")
    /\ keys' = [keys EXCEPT !.ambiguous = TRUE]
    /\ GoTo(r, "quarantining")
    /\ UNCHANGED <<up, run, hold>> /\ UNCHANGED world

\* Settled by another relay, no longer this relay's attempt, or a key that
\* is taken: nothing changes and the wake ends.
FailUnchanged(r) ==
    /\ Failing(r) /\ ~(Deferred(r) /\ ~Unreleased(r))
    /\ \/ ~Unreleased(r) /\ effect.state # "dispatched"
       \/ Terminal /\ effect.state = "prepared"
       \/ Unreleased(r) /\ ~Owns(r)
       \/ Mismatched(r) /\ ~Owns(r)
       \/ /\ Released(r) /\ run.phase # "cancelled"
          /\ ~Owns(r) \/ (IF Proof # {} THEN run.phase = "completed" /\ keys.committed
                                      ELSE keys.ambiguous)
       \/ Released(r) /\ run.phase = "cancelled" /\ Proof = {} /\ (~Owns(r) \/ keys.ambiguous)
    /\ Rest(r)
    /\ UNCHANGED <<up, run, effect, hold, keys>> /\ UNCHANGED world

\* activateUiQuarantine: a hold that is up is kept as it is.
Quarantine(r) ==
    /\ At(r, "quarantining")
    /\ hold' = Raised(hold)
    /\ ThenBlock(r, "ambiguous")
    /\ UNCHANGED <<up, run, effect, keys>> /\ UNCHANGED world

\* blockRun: a run that is blocked already, or over, is left as it is.
Block(r) ==
    /\ At(r, "blocking")
    /\ run' = IF run.phase # "active" THEN run
              ELSE [phase |-> "blocked", why |-> proc[r].err,
                    candidates |-> proc[r].err = "ambiguous" /\ candidate]
    /\ Rest(r)
    /\ UNCHANGED <<up, effect, hold, keys>> /\ UNCHANGED world

-----------------------------------------------------------------------------
(* Recovery by a wake *)

\* reconcileClaimedEffect reads the evidence of a claimed effect ...
StartRecovery(r) ==
    /\ Wakes(r) /\ effect.owner # None /\ effect.state \in {"prepared", "dispatched"}
    /\ \E seen \in IF Proof = {} THEN {NoReceipt} ELSE Proof :
         proc' = [proc EXCEPT ![r] = [Resting EXCEPT !.pc = "recovering", !.seen = seen]]
    /\ UNCHANGED <<up, run, effect, hold, keys>> /\ UNCHANGED world

\* ... and commits it, whoever owns it and whatever attempt it is on.
RecoverPositively(r) ==
    /\ At(r, "recovering") /\ proc[r].seen # NoReceipt
    /\ IF effect.state \in {"dispatched", "ambiguous"}
       THEN Committed(proc[r].seen) ELSE UNCHANGED effect
    /\ Rest(r)
    /\ UNCHANGED <<up, run, hold, keys>> /\ UNCHANGED world

\* reconcileAbandonedWorkflowEffect: the owner and its command are gone.
Abandoned ==
    /\ effect.state \in {"prepared", "dispatched"}
    /\ effect.owner # None /\ effect.owner \notin up /\ ~ExtAlive

\* Mutant: a dead owner's attempt is put back whatever it may have done.
RecoverAbandonedResets(r) ==
    /\ At(r, "recovering") /\ proc[r].seen = NoReceipt
    /\ IF Abandoned /\ ~Terminal THEN Prepared ELSE UNCHANGED effect
    /\ Rest(r)
    /\ UNCHANGED <<up, run, hold, keys>> /\ UNCHANGED world

RecoverAbandoned(r) ==
    /\ At(r, "recovering") /\ proc[r].seen = NoReceipt
    /\ \/ ~Abandoned /\ Rest(r) /\ UNCHANGED effect
       \/ /\ Abandoned /\ ~effect.mayExecute
          /\ IF Terminal
             THEN effect' = [effect EXCEPT !.state = "cancelled", !.owner = None, !.nonce = 0]
             ELSE Prepared
          /\ Rest(r)
       \/ /\ Abandoned /\ effect.mayExecute
          /\ Transition("ambiguous") /\ GoTo(r, "quarantining")
    /\ UNCHANGED <<up, run, hold, keys>> /\ UNCHANGED world

\* A receipt that turns up while the run is blocked on it.  The key names
\* the attempt: it serves once.
ReconcileBlocked(r) ==
    /\ At(r, "idle") /\ run.phase = "blocked" /\ run.why = "ambiguous"
    /\ effect.state = "ambiguous"
    /\ keys.positive # effect.attempts
    /\ \E receipt \in Proof : Committed(receipt)
    /\ keys' = [keys EXCEPT !.positive = effect.attempts]
    /\ Resume
    /\ hold' = Cleared(hold)
    /\ UNCHANGED <<up, proc>> /\ UNCHANGED world

\* The phone's choices follow what Conductor shows; the key names the
\* attempt and the list, so each list is taken once.
RefreshCandidates(r) ==
    /\ At(r, "idle") /\ run.phase = "blocked" /\ run.why = "ambiguous"
    /\ effect.state = "ambiguous" /\ effect.kind = "open"
    /\ run.candidates # candidate /\ candidate \notin keys.refreshed
    /\ run' = [run EXCEPT !.candidates = candidate]
    /\ keys' = [keys EXCEPT !.refreshed = @ \cup {candidate}]
    /\ UNCHANGED <<up, effect, proc, hold>> /\ UNCHANGED world

\* An accepted prompt whose outbox row disappeared is not delivered after
\* all: markReceiptLost, of a running and of a cancelled run.
LoseReceipt(r) ==
    /\ At(r, "idle")
    /\ effect.receipt.kind = "outbox" /\ shown[effect.receipt.of] = "gone"
    /\ \/ run.phase = "active" /\ effect.state = "committed" /\ ~effect.advanced
       \/ run.phase = "cancelled" /\ effect.state \in {"committed", "ambiguous"}
    /\ Transition("ambiguous")
    /\ GoTo(r, "quarantining")
    /\ UNCHANGED <<up, run, hold, keys>> /\ UNCHANGED world

\* The run goes on from a committed effect; from a prompt, once its receipt
\* is a message.
Advance(r) ==
    /\ Wakes(r) /\ effect.state = "committed" /\ ~effect.advanced
    /\ effect.kind = "send" => effect.receipt.of \in Messages
    /\ effect' = [effect EXCEPT !.advanced = TRUE]
    /\ UNCHANGED <<up, run, proc, hold, keys>> /\ UNCHANGED world

\* observeCancelledRun: a receipt that settles late, or an abandoned attempt.
ObserveCancelled(r) ==
    /\ At(r, "idle") /\ run.phase = "cancelled"
    /\ \/ /\ effect.receipt.kind = "outbox" /\ effect.receipt.of \in Messages
          /\ RecordLate(RowReceipt(effect.receipt.of)) /\ UNCHANGED proc
       \/ /\ effect.state \in {"dispatched", "ambiguous"}
          /\ \E receipt \in Proof : RecordLate(receipt)
          /\ UNCHANGED proc
       \/ /\ effect.state = "dispatched" /\ effect.mayExecute /\ Proof = {} /\ Abandoned
          /\ Transition("ambiguous") /\ GoTo(r, "quarantining")
          /\ UNCHANGED hold
    /\ UNCHANGED <<up, run, keys>> /\ UNCHANGED world

\* Another relay's protocol, or three failed inspections: this wake blocks
\* the run, whatever another relay is doing for it.
BlockIncompatible(r) ==
    /\ Wakes(r)
    /\ run' = [phase |-> "blocked", why |-> "compatibility", candidates |-> FALSE]
    /\ UNCHANGED <<up, effect, proc, hold, keys>> /\ UNCHANGED world

-----------------------------------------------------------------------------
(* The phone *)

Served == up # {}

\* Retry of the saved action.
Retry ==
    /\ Served /\ run.phase = "blocked"
    /\ \/ run.why = "compatibility" /\ UNCHANGED effect
       \/ run.why = "deterministic" /\ effect.state = "failed" /\ Prepared
    /\ Resume
    /\ UNCHANGED <<up, proc, hold, keys>> /\ UNCHANGED world

\* Adoption of a candidate that still validates.
Adopt ==
    /\ Served /\ run.phase = "blocked" /\ run.why = "ambiguous" /\ run.candidates
    /\ effect.state = "ambiguous" /\ candidate
    /\ Committed(Applied)
    /\ Resume
    /\ hold' = Cleared(hold)
    /\ UNCHANGED <<up, proc, keys>> /\ UNCHANGED world

\* The person accepts the risk of a duplicate; what can still be reconciled
\* is reconciled first.
Replay ==
    /\ Served /\ run.phase = "blocked" /\ run.why = "ambiguous"
    /\ effect.state = "ambiguous"
    /\ Proof = {} /\ ~run.candidates /\ ~candidate
    /\ effect' = [effect EXCEPT !.state = "prepared", !.owner = None, !.nonce = 0,
                                !.mayExecute = FALSE, !.receipt = NoReceipt]
    /\ allowed' = allowed \cup {effect.attempts}
    /\ Resume
    /\ hold' = Cleared(hold)
    /\ UNCHANGED <<up, proc, command, emitted, shown, matches, candidate, orphan, keys>>

Cancel ==
    /\ Served /\ run.phase \in {"active", "blocked"}
    /\ run' = [phase |-> "cancelled", why |-> "none", candidates |-> FALSE]
    /\ IF effect.state \in {"prepared", "failed"} THEN Transition("cancelled") ELSE UNCHANGED effect
    /\ UNCHANGED <<up, proc, hold, keys>> /\ UNCHANGED world

\* A run completes from planning or reviewing, where only a prompt may still
\* be on its way.
Complete ==
    /\ Served /\ run.phase = "active" /\ effect.kind = "send"
    /\ run' = [run EXCEPT !.phase = "completed"]
    /\ UNCHANGED <<up, effect, proc, hold, keys>> /\ UNCHANGED world

\* confirm_ui_stable: the person looked at Conductor.
ConfirmUiStable ==
    /\ Served /\ hold # "none"
    /\ hold' = "none"
    /\ UNCHANGED <<up, run, effect, proc, keys>> /\ UNCHANGED world

-----------------------------------------------------------------------------
(* The world *)

\* The process dies; a gated command that runs survives it, a blocked
\* wrapper does not.  Its lease stays, maybe marked.
Crash(r) ==
    /\ r \in up
    /\ up' = up \ {r}
    /\ proc' = [proc EXCEPT ![r] = Resting]
    /\ orphan' \in IF proc[r].pc \in {"ready", "working", "failing", "quarantining", "blocking"}
                      /\ effect.mayExecute
                   THEN {orphan, TRUE} ELSE {orphan}
    /\ UNCHANGED <<run, effect, command, emitted, shown, matches, candidate, hold, keys, allowed>>

\* A watchdog, or the next caller, takes the dead relay's lease over.
ReclaimLease ==
    /\ Served /\ orphan /\ ~ExtAlive
    /\ orphan' = FALSE
    /\ hold' = Raised(hold)
    /\ UNCHANGED <<up, run, effect, proc, keys>> /\ UNCHANGED outside

\* Another action becomes ambiguous, or its receipt arrives.
OtherHold ==
    /\ hold # "mine"
    /\ hold' = IF hold = "none" THEN "other" ELSE "none"
    /\ UNCHANGED <<up, run, effect, proc, keys>> /\ UNCHANGED world

relays == <<up, run, effect, proc, hold, orphan, keys, allowed>>

CommandActs(n) ==
    /\ command[n] = "running" /\ n \notin emitted
    /\ emitted' = emitted \cup {n}
    /\ UNCHANGED <<command, shown, matches, candidate>> /\ UNCHANGED relays

CommandEnds(n) ==
    /\ command[n] = "running"
    /\ command' = [command EXCEPT ![n] = "done"]
    /\ UNCHANGED <<emitted, shown, matches, candidate>> /\ UNCHANGED relays

\* An accepted prompt shows up later, or never, and may be lost.
ShowPrompt(n) ==
    /\ effect.kind = "send" /\ n \in emitted
    /\ \E row \in CASE shown[n] = "none" -> {"outbox", "message"}
                  [] shown[n] = "outbox" -> {"gone", "message"}
                  [] shown[n] = "gone" -> {"message"}
                  [] OTHER -> {} :
         shown' = [shown EXCEPT ![n] = row]
    /\ UNCHANGED <<command, emitted, matches, candidate>> /\ UNCHANGED relays

\* Settings match because a command applied them, or a person did.
ShowSettings ==
    /\ effect.kind = "configure" /\ ~matches
    /\ matches' = TRUE
    /\ UNCHANGED <<command, emitted, shown, candidate>> /\ UNCHANGED relays

\* A new chat or workspace can be adopted until somebody uses it.
ShowCandidate ==
    /\ effect.kind = "open" /\ emitted # {}
    /\ candidate' = ~candidate
    /\ UNCHANGED <<command, emitted, shown, matches>> /\ UNCHANGED relays

-----------------------------------------------------------------------------
(* Specification *)

Drive(r) ==
    \/ Satisfy(r) \/ Claim(r) \/ TurnStarts(r) \/ TurnRefused(r) \/ Dispatch(r) \/ HookFails(r)
    \/ MarkMayExecute(r) \/ GateFails(r) \/ Release(r) \/ CommandFails(r) \/ Commit(r)

Settle(r) ==
    \/ FailCertainly(r) \/ PutBack(r) \/ RejectConfiguration(r) \/ FailPositively(r)
    \/ FailAmbiguously(r) \/ FailUnchanged(r) \/ Quarantine(r) \/ Block(r)

Recover(r) ==
    \/ StartRecovery(r) \/ RecoverPositively(r) \/ RecoverAbandoned(r)
    \/ ReconcileBlocked(r) \/ RefreshCandidates(r) \/ LoseReceipt(r) \/ Advance(r)
    \/ ObserveCancelled(r)

Phone == Retry \/ Adopt \/ Replay \/ Cancel \/ Complete \/ ConfirmUiStable

Environment ==
    \/ ReclaimLease \/ OtherHold \/ ShowSettings \/ ShowCandidate
    \/ \E n \in Attempts : CommandActs(n) \/ CommandEnds(n) \/ ShowPrompt(n)

Next ==
    \/ \E r \in Relays : Drive(r) \/ Settle(r) \/ Recover(r) \/ BlockIncompatible(r) \/ Crash(r)
    \/ Phone
    \/ Environment

Spec == Init /\ [][Next]_vars

\* The pollers of live relays wake the run, a started attempt goes on, and a
\* started command ends.
Fairness ==
    /\ \A r \in Relays : WF_vars(Drive(r)) /\ WF_vars(Settle(r)) /\ WF_vars(Recover(r))
    /\ \A n \in Attempts : WF_vars(CommandEnds(n))

FairSpec == Spec /\ Fairness

-----------------------------------------------------------------------------
(* Properties *)

RunRecord == [phase : Phases, why : Whys, candidates : BOOLEAN]

EffectRecord ==
    [kind : Kinds, gated : BOOLEAN, state : EffectStates, owner : Relays \cup {None},
     attempts : 0..MaxAttempts, nonce : 0..MaxAttempts, mayExecute : BOOLEAN,
     receipt : Receipts, advanced : BOOLEAN]

\* What a relay is doing; on its way to a block it has the reason.
ProcRecord ==
    {p \in [pc : Pcs, att : 0..MaxAttempts, err : Errors \cup Whys, seen : Receipts] :
        p.pc = "blocking" => p.err \in Whys}

KeyRecord ==
    [ambiguous : BOOLEAN, committed : BOOLEAN, positive : 0..MaxAttempts, refreshed : SUBSET BOOLEAN]

\* Every variable has its type.
TypeOK ==
    /\ up \subseteq Relays
    /\ run \in RunRecord
    /\ effect \in EffectRecord
    /\ proc \in [Relays -> ProcRecord]
    /\ command \in [Attempts -> {"none", "running", "done"}]
    /\ emitted \subseteq Attempts
    /\ shown \in [Attempts -> RowStates]
    /\ matches \in BOOLEAN
    /\ candidate \in BOOLEAN
    /\ hold \in {"none", "mine", "other"}
    /\ orphan \in BOOLEAN
    /\ keys \in KeyRecord
    /\ allowed \subseteq 0..MaxAttempts

\* At most once: beyond the first, a command acts only after a repetition
\* was allowed, by the person's confirmation or by a verified rejection.
NoUnconfirmedRepeat == Cardinality(emitted \ allowed) <= 1

\* An attempt that acted is never taken for one that did not: while its
\* effect says prepared, failed or cancelled, a repetition was allowed.
ActedIsRemembered ==
    effect.state \in {"prepared", "failed", "cancelled"} /\ effect.attempts \in emitted =>
        effect.attempts \in allowed

\* A block, a cancellation or a completion fences the gate for every relay
\* with an attempt under way, and a cancelled run stays so.
StoppedRunReleasesNothing ==
    [][/\ effect'.mayExecute /\ ~effect.mayExecute => run.phase = "active"
       /\ run.phase = "cancelled" => run'.phase = "cancelled" /\ effect'.attempts = effect.attempts]_vars

\* A receipt never lifts the hold of another action: that takes its own
\* receipt or the person.
OnlyOwnHoldIsLifted ==
    [][hold = "other" /\ hold' # "other" => UNCHANGED <<run, effect>>]_vars

Settling(r) == At(r, "quarantining") \/ At(r, "blocking")

\* "an effect that may have happened stays `blocked` rather than being guessed
\* or replayed": once its attempt is over, a run does not go on beside it.
UndecidedIsBlocked ==
    effect.state = "dispatched" /\ effect.mayExecute /\ effect.owner \in up /\ run.phase = "active" =>
        ~At(effect.owner, "idle")

\* The same of an effect that is ambiguous already, and of a failed one whose
\* Retry the phone should offer.
SettledIsBlocked ==
    effect.state \in {"ambiguous", "failed"} /\ run.phase = "active" =>
        \E r \in Relays : Settling(r) \/ At(r, "retrying")

\* "a hashed, causally delivered capability": the run goes on with the
\* capability of a prompt the planner was given.
CapabilityWasDelivered ==
    effect.kind = "send" /\ effect.advanced => effect.nonce \in Messages

OrphanedClaim(r) ==
    effect.owner = r /\ r \notin up /\ run.phase = "active"
      /\ effect.state \in {"prepared", "dispatched"}

\* A dead relay's attempt does not stay with it while another relay wakes the
\* run, but for evidence of an effect that was not dispatched.
OrphanIsSettledOf(r) ==
    OrphanedClaim(r) ~>
        ~OrphanedClaim(r) \/ up = {} \/ (effect.state = "prepared" /\ Proof # {})

OrphanIsSettled == \A r \in Relays : OrphanIsSettledOf(r)

\* "A dead owner before `mayExecute` is safely reset; every later boundary is
\* ambiguous": without exception.
EveryOrphanIsSettled == \A r \in Relays : OrphanedClaim(r) ~> ~OrphanedClaim(r) \/ up = {}
=============================================================================
