------------------------- MODULE DurableEffectProofs -------------------------
(* Theorems about DurableEffect, for every number of relays, every kind of  *)
(* effect and every number of attempts.                                    *)
EXTENDS EffectHold, FiniteSetTheorems, TLAPS

LEMMA NaturalBound == MaxAttempts \in Nat \ {0} /\ None \notin Relays
BY EffectAssumption

\* The receipts a relay can read are receipts of attempts.
LEMMA ReceiptTypes ==
    ASSUME TypeOK
    PROVE  /\ NoReceipt \in Receipts /\ Applied \in Receipts
           /\ \A n \in Visible : RowReceipt(n) \in Receipts
           /\ Proof \subseteq Receipts
<1>1. NoReceipt \in Receipts /\ Applied \in Receipts
  BY NaturalBound DEF NoReceipt, Applied, Receipts
<1>2. ASSUME NEW n \in Visible PROVE RowReceipt(n) \in Receipts
  <2>1. n \in Attempts /\ shown[n] \in {"outbox", "message"}  BY <1>2 DEF Visible
  <2> QED  BY <2>1, NaturalBound DEF RowReceipt, Receipts, Attempts
<1>3. Messages \subseteq Visible  BY DEF Messages, Visible
<1>4. Proof \subseteq Receipts
  <2>1. CASE effect.kind = "configure"  BY <1>1, <2>1 DEF Proof
  <2>2. CASE effect.kind = "open"  BY <2>2 DEF Proof
  <2>3. CASE effect.kind = "send"  BY <1>2, <1>3, <2>3 DEF Proof
  <2>4. effect.kind \in {"send", "configure", "open"}
    BY EffectAssumption DEF TypeOK, EffectRecord
  <2> QED  BY <2>1, <2>2, <2>3, <2>4
<1> QED  BY <1>1, <1>2, <1>4

LEMMA RestingType == ASSUME TypeOK PROVE Resting \in ProcRecord
<1>1. NoReceipt \in Receipts  BY ReceiptTypes
<1>2. "idle" \in Pcs /\ "none" \in Errors \cup Whys  BY DEF Pcs, Whys
<1>3. 0 \in 0..MaxAttempts  BY NaturalBound
<1> QED  BY <1>1, <1>2, <1>3 DEF Resting, ProcRecord

\* What a relay turns to keeps the type of its record.
LEMMA ProcTypes ==
    ASSUME TypeOK, NEW r \in Relays
    PROVE  /\ \A pc \in Pcs \ {"blocking"} : GoTo(r, pc) => proc' \in [Relays -> ProcRecord]
           /\ Rest(r) => proc' \in [Relays -> ProcRecord]
           /\ \A err \in Errors : Fail(r, err) => proc' \in [Relays -> ProcRecord]
           /\ \A why \in Whys : ThenBlock(r, why) => proc' \in [Relays -> ProcRecord]
<1>1. proc \in [Relays -> ProcRecord] /\ Resting \in ProcRecord  BY RestingType DEF TypeOK
<1>2. "failing" \in Pcs /\ "blocking" \in Pcs  BY DEF Pcs
<1>3. ASSUME NEW pc \in Pcs \ {"blocking"}, GoTo(r, pc) PROVE proc' \in [Relays -> ProcRecord]
  BY <1>1, <1>3 DEF GoTo, ProcRecord
<1>4. ASSUME Rest(r) PROVE proc' \in [Relays -> ProcRecord]
  BY <1>1, <1>4 DEF Rest
<1>5. ASSUME NEW err \in Errors, Fail(r, err) PROVE proc' \in [Relays -> ProcRecord]
  BY <1>1, <1>2, <1>5 DEF Fail, ProcRecord
<1>6. ASSUME NEW why \in Whys, ThenBlock(r, why) PROVE proc' \in [Relays -> ProcRecord]
  BY <1>1, <1>2, <1>6 DEF ThenBlock, ProcRecord
<1> QED  BY <1>3, <1>4, <1>5, <1>6

\* What a transaction writes into the row keeps its type.
LEMMA EffectTypes ==
    ASSUME TypeOK
    PROVE  /\ \A state \in EffectStates : Transition(state) => effect' \in EffectRecord
           /\ \A receipt \in Receipts : Committed(receipt) => effect' \in EffectRecord
           /\ \A receipt \in Receipts : RecordLate(receipt) =>
                effect' \in EffectRecord /\ hold' \in {"none", "mine", "other"}
           /\ Prepared => effect' \in EffectRecord
<1>1. effect \in EffectRecord  BY DEF TypeOK
<1>2. "prepared" \in EffectStates /\ "committed" \in EffectStates  BY DEF EffectStates
<1>3. ASSUME NEW state \in EffectStates, Transition(state) PROVE effect' \in EffectRecord
  BY <1>1, <1>3 DEF Transition, EffectRecord
<1>4. ASSUME NEW receipt \in Receipts, Committed(receipt) PROVE effect' \in EffectRecord
  BY <1>1, <1>2, <1>4 DEF Committed, EffectRecord
<1>5. ASSUME NEW receipt \in Receipts, RecordLate(receipt)
      PROVE  effect' \in EffectRecord /\ hold' \in {"none", "mine", "other"}
  <2>1. effect' \in EffectRecord  BY <1>1, <1>2, <1>5 DEF RecordLate, EffectRecord
  <2>2. hold' \in {"none", "mine", "other"}  BY <1>5 DEF RecordLate, Cleared, TypeOK
  <2> QED  BY <2>1, <2>2
<1>6. ASSUME Prepared PROVE effect' \in EffectRecord
  <2>1. 0 \in 0..MaxAttempts  BY NaturalBound
  <2> QED  BY <1>1, <1>2, <1>6, <2>1 DEF Prepared, EffectRecord
<1> QED  BY <1>3, <1>4, <1>5, <1>6

\* A step of the program leaves the outside world alone.
LEMMA ProgramStepType ==
    ASSUME TypeOK, up' \subseteq Relays, run' \in RunRecord, effect' \in EffectRecord,
           proc' \in [Relays -> ProcRecord], hold' \in {"none", "mine", "other"},
           keys' \in KeyRecord, UNCHANGED world
    PROVE  TypeOK'
BY DEF TypeOK, world, outside

LEMMA DriveType == ASSUME TypeOK, NEW r \in Relays, Drive(r) PROVE TypeOK'
<1> USE ReceiptTypes, RestingType, ProcTypes, EffectTypes
<1>1. CASE Satisfy(r)
  BY <1>1, ProgramStepType DEF Satisfy, TypeOK
<1>2. CASE Claim(r)
  <2>1. effect.attempts + 1 \in 0..MaxAttempts
    BY <1>2, NaturalBound DEF Claim, TypeOK, EffectRecord
  <2>2. effect' \in EffectRecord  BY <1>2, <2>1 DEF Claim, TypeOK, EffectRecord
  <2>3. proc' \in [Relays -> ProcRecord]  BY <1>2, <2>1 DEF Claim, TypeOK, ProcRecord, Pcs
  <2>4. keys' \in KeyRecord  BY <1>2 DEF Claim, TypeOK, KeyRecord
  <2> QED  BY <1>2, <2>2, <2>3, <2>4, ProgramStepType DEF Claim, TypeOK
<1>3. CASE TurnStarts(r)
  BY <1>3, ProgramStepType DEF TurnStarts, TypeOK, Pcs
<1>4. CASE TurnRefused(r)
  BY <1>4, ProgramStepType DEF TurnRefused, TypeOK, Errors
<1>5. CASE Dispatch(r)
  <2>1. effect' \in EffectRecord  BY <1>5 DEF Dispatch, TypeOK, EffectRecord, EffectStates, ProcRecord
  <2>2. proc' \in [Relays -> ProcRecord]  BY <1>5 DEF Dispatch, Pcs
  <2> QED  BY <1>5, <2>1, <2>2, ProgramStepType DEF Dispatch, TypeOK
<1>6. CASE HookFails(r)
  BY <1>6, ProgramStepType DEF HookFails, TypeOK, Errors
<1>7. CASE MarkMayExecute(r)
  <2>1. effect' \in EffectRecord  BY <1>7 DEF MarkMayExecute, TypeOK, EffectRecord
  <2> QED  BY <1>7, <2>1, ProgramStepType DEF MarkMayExecute, TypeOK, Pcs
<1>8. CASE GateFails(r)
  BY <1>8, ProgramStepType DEF GateFails, TypeOK, Errors
<1>9. CASE Release(r)
  <2>1. command' \in [Attempts -> {"none", "running", "done"}]  BY <1>9 DEF Release, TypeOK
  <2>2. proc' \in [Relays -> ProcRecord]  BY <1>9 DEF Release, Pcs
  <2> QED  BY <1>9, <2>1, <2>2 DEF Release, TypeOK
<1>10. CASE CommandFails(r)
  BY <1>10, ProgramStepType DEF CommandFails, TypeOK, Errors
<1>11. CASE Commit(r)
  <2> DEFINE receipt == IF effect.kind = "send" THEN RowReceipt(proc[r].att) ELSE Applied
  <2>1. receipt \in Receipts  BY <1>11 DEF Commit, Returned
  <2>2. [keys EXCEPT !.committed = TRUE] \in KeyRecord  BY DEF TypeOK, KeyRecord
  <2> QED  BY <1>11, <2>1, <2>2, ProgramStepType DEF Commit, TypeOK, Errors
<1> QED
  BY <1>1, <1>2, <1>3, <1>4, <1>5, <1>6, <1>7, <1>8, <1>9, <1>10, <1>11 DEF Drive

LEMMA SettleType == ASSUME TypeOK, NEW r \in Relays, Settle(r) PROVE TypeOK'
<1> USE ReceiptTypes, RestingType, ProcTypes, EffectTypes
<1>1. CASE FailCertainly(r)
  BY <1>1, ProgramStepType DEF FailCertainly, TypeOK, EffectStates, Pcs, Whys
<1>2. CASE PutBack(r)
  BY <1>2, ProgramStepType DEF PutBack, TypeOK
<1>3. CASE RejectConfiguration(r)
  <2>1. effect' \in EffectRecord  BY <1>3 DEF RejectConfiguration, EffectStates
  <2>2. proc' \in [Relays -> ProcRecord]  BY <1>3 DEF RejectConfiguration, Whys
  <2>3. allowed' \subseteq 0..MaxAttempts  BY <1>3 DEF RejectConfiguration, TypeOK, EffectRecord
  <2> QED  BY <1>3, <2>1, <2>2, <2>3 DEF RejectConfiguration, TypeOK
<1>4. CASE FailPositively(r)
  <2>1. [keys EXCEPT !.committed = TRUE] \in KeyRecord  BY DEF TypeOK, KeyRecord
  <2> QED  BY <1>4, <2>1, ProgramStepType DEF FailPositively, TypeOK
<1>5. CASE FailAmbiguously(r)
  <2>1. [keys EXCEPT !.ambiguous = TRUE] \in KeyRecord  BY DEF TypeOK, KeyRecord
  <2> QED  BY <1>5, <2>1, ProgramStepType DEF FailAmbiguously, TypeOK, EffectStates, Pcs
<1>6. CASE FailUnchanged(r)
  BY <1>6, ProgramStepType DEF FailUnchanged, TypeOK
<1>7. CASE Quarantine(r)
  BY <1>7, ProgramStepType DEF Quarantine, Raised, TypeOK, Whys
<1>8. CASE Block(r)
  <2>1. proc[r].err \in Whys  BY <1>8 DEF Block, At, TypeOK, ProcRecord
  <2>2. (proc[r].err = "ambiguous" /\ candidate) \in BOOLEAN  OBVIOUS
  <2>3. run' \in RunRecord
    BY <1>8, <2>1, <2>2 DEF Block, TypeOK, RunRecord, Phases
  <2> QED  BY <1>8, <2>3, ProgramStepType DEF Block, TypeOK
<1> QED
  BY <1>1, <1>2, <1>3, <1>4, <1>5, <1>6, <1>7, <1>8 DEF Settle

LEMMA RecoverType == ASSUME TypeOK, NEW r \in Relays, Recover(r) PROVE TypeOK'
<1> USE ReceiptTypes, RestingType, ProcTypes, EffectTypes
<1>1. CASE StartRecovery(r)
  <2>1. PICK seen \in Receipts :
          proc' = [proc EXCEPT ![r] = [Resting EXCEPT !.pc = "recovering", !.seen = seen]]
    BY <1>1 DEF StartRecovery
  <2>2. proc' \in [Relays -> ProcRecord]  BY <2>1 DEF TypeOK, ProcRecord, Pcs
  <2> QED  BY <1>1, <2>2, ProgramStepType DEF StartRecovery, TypeOK
<1>2. CASE RecoverPositively(r)
  <2>1. proc[r].seen \in Receipts  BY DEF TypeOK, ProcRecord
  <2> QED  BY <1>2, <2>1, ProgramStepType DEF RecoverPositively, TypeOK
<1>3. CASE RecoverAbandoned(r)
  <2>1. effect' \in EffectRecord
    <3>1. 0 \in 0..MaxAttempts  BY NaturalBound
    <3>2. [effect EXCEPT !.state = "cancelled", !.owner = None, !.nonce = 0] \in EffectRecord
      BY <3>1 DEF TypeOK, EffectRecord, EffectStates
    <3> QED  BY <1>3, <3>2 DEF RecoverAbandoned, TypeOK, EffectStates
  <2>2. proc' \in [Relays -> ProcRecord]  BY <1>3 DEF RecoverAbandoned, Pcs
  <2> QED  BY <1>3, <2>1, <2>2, ProgramStepType DEF RecoverAbandoned, TypeOK
<1>4. CASE ReconcileBlocked(r)
  <2>1. keys' \in KeyRecord  BY <1>4 DEF ReconcileBlocked, TypeOK, KeyRecord, EffectRecord
  <2>2. run' \in RunRecord  BY <1>4 DEF ReconcileBlocked, Resume, RunRecord, Phases, Whys
  <2>3. hold' \in {"none", "mine", "other"}  BY <1>4 DEF ReconcileBlocked, Cleared, TypeOK
  <2> QED  BY <1>4, <2>1, <2>2, <2>3, ProgramStepType DEF ReconcileBlocked, TypeOK
<1>5. CASE RefreshCandidates(r)
  <2>1. run' \in RunRecord /\ keys' \in KeyRecord
    BY <1>5 DEF RefreshCandidates, TypeOK, RunRecord, KeyRecord
  <2> QED  BY <1>5, <2>1, ProgramStepType DEF RefreshCandidates, TypeOK
<1>6. CASE LoseReceipt(r)
  BY <1>6, ProgramStepType DEF LoseReceipt, TypeOK, EffectStates, Pcs
<1>7. CASE Advance(r)
  <2>1. effect' \in EffectRecord  BY <1>7 DEF Advance, TypeOK, EffectRecord
  <2> QED  BY <1>7, <2>1, ProgramStepType DEF Advance, TypeOK
<1>8. CASE ObserveCancelled(r)
  <2>1. ASSUME effect.receipt.of \in Messages PROVE RowReceipt(effect.receipt.of) \in Receipts
    BY <2>1 DEF Messages, Visible
  <2> QED  BY <1>8, <2>1, ProgramStepType DEF ObserveCancelled, TypeOK, EffectStates, Pcs
<1> QED
  BY <1>1, <1>2, <1>3, <1>4, <1>5, <1>6, <1>7, <1>8 DEF Recover

LEMMA PhoneType == ASSUME TypeOK, Phone PROVE TypeOK'
<1> USE ReceiptTypes, EffectTypes
<1>1. ASSUME Resume PROVE run' \in RunRecord  BY <1>1 DEF Resume, RunRecord, Phases, Whys
<1>2. CASE Retry
  BY <1>1, <1>2, ProgramStepType DEF Retry, TypeOK
<1>3. CASE Adopt
  BY <1>1, <1>3, ProgramStepType DEF Adopt, Cleared, TypeOK
<1>4. CASE Replay
  <2>1. effect' \in EffectRecord
    <3>1. 0 \in 0..MaxAttempts  BY NaturalBound
    <3> QED  BY <1>4, <3>1 DEF Replay, TypeOK, EffectRecord, EffectStates
  <2>2. allowed' \subseteq 0..MaxAttempts  BY <1>4 DEF Replay, TypeOK, EffectRecord
  <2> QED  BY <1>1, <1>4, <2>1, <2>2 DEF Replay, Cleared, TypeOK
<1>5. CASE Cancel
  <2>1. run' \in RunRecord  BY <1>5 DEF Cancel, RunRecord, Phases, Whys
  <2> QED  BY <1>5, <2>1, ProgramStepType DEF Cancel, TypeOK, EffectStates
<1>6. CASE Complete
  <2>1. run' \in RunRecord  BY <1>6 DEF Complete, TypeOK, RunRecord, Phases
  <2> QED  BY <1>6, <2>1, ProgramStepType DEF Complete, TypeOK
<1>7. CASE ConfirmUiStable
  BY <1>7, ProgramStepType DEF ConfirmUiStable, TypeOK
<1> QED  BY <1>2, <1>3, <1>4, <1>5, <1>6, <1>7 DEF Phone

LEMMA EnvironmentType == ASSUME TypeOK, Environment PROVE TypeOK'
<1>1. CASE ReclaimLease
  BY <1>1 DEF ReclaimLease, Raised, TypeOK, outside
<1>2. CASE OtherHold
  BY <1>2 DEF OtherHold, TypeOK, world, outside
<1>3. CASE ShowSettings
  BY <1>3 DEF ShowSettings, TypeOK, relays
<1>4. CASE ShowCandidate
  BY <1>4 DEF ShowCandidate, TypeOK, relays
<1>5. ASSUME NEW n \in Attempts, CommandActs(n) PROVE TypeOK'
  BY <1>5 DEF CommandActs, TypeOK, relays
<1>6. ASSUME NEW n \in Attempts, CommandEnds(n) PROVE TypeOK'
  BY <1>6 DEF CommandEnds, TypeOK, relays
<1>7. ASSUME NEW n \in Attempts, ShowPrompt(n) PROVE TypeOK'
  <2>1. shown' \in [Attempts -> RowStates]
    <3>1. PICK row \in CASE shown[n] = "none" -> {"outbox", "message"}
                         [] shown[n] = "outbox" -> {"gone", "message"}
                         [] shown[n] = "gone" -> {"message"}
                         [] OTHER -> {} : shown' = [shown EXCEPT ![n] = row]
      BY <1>7 DEF ShowPrompt
    <3>2. row \in RowStates  BY <3>1 DEF RowStates
    <3> QED  BY <3>1, <3>2 DEF TypeOK
  <2> QED  BY <1>7, <2>1 DEF ShowPrompt, TypeOK, relays
<1> QED  BY <1>1, <1>2, <1>3, <1>4, <1>5, <1>6, <1>7 DEF Environment

LEMMA CrashType ==
    ASSUME TypeOK, NEW r \in Relays, Crash(r) \/ BlockIncompatible(r) PROVE TypeOK'
<1>1. CASE Crash(r)
  <2>1. proc' \in [Relays -> ProcRecord]  BY <1>1, RestingType DEF Crash, TypeOK
  <2>2. orphan' \in BOOLEAN  BY <1>1 DEF Crash, TypeOK
  <2>3. up' \subseteq Relays  BY <1>1 DEF Crash, TypeOK
  <2> QED  BY <1>1, <2>1, <2>2, <2>3 DEF Crash, TypeOK
<1>2. CASE BlockIncompatible(r)
  <2>1. run' \in RunRecord  BY <1>2 DEF BlockIncompatible, RunRecord, Phases, Whys
  <2> QED  BY <1>2, <2>1, ProgramStepType DEF BlockIncompatible, TypeOK
<1> QED  BY <1>1, <1>2

LEMMA InitType == Init => TypeOK
<1> SUFFICES ASSUME Init PROVE TypeOK  OBVIOUS
<1>1. 0 \in 0..MaxAttempts  BY NaturalBound
<1>2. NoReceipt \in Receipts  BY <1>1 DEF NoReceipt, Receipts
<1>3. Resting \in ProcRecord  BY <1>1, <1>2 DEF Resting, ProcRecord, Pcs, Whys
<1>4. run \in RunRecord  BY DEF Init, RunRecord, Phases, Whys
<1>5. effect \in EffectRecord
  <2>1. PICK kind \in Kinds, gated \in BOOLEAN :
          effect = [kind |-> kind, gated |-> gated, state |-> "prepared", owner |-> None,
                    attempts |-> 0, nonce |-> 0, mayExecute |-> FALSE, receipt |-> NoReceipt,
                    advanced |-> FALSE]
    BY DEF Init
  <2> QED  BY <1>1, <1>2, <2>1 DEF EffectRecord, EffectStates
<1>6. keys \in KeyRecord  BY <1>1 DEF Init, KeyRecord
<1>7. proc \in [Relays -> ProcRecord]  BY <1>3 DEF Init
<1> QED  BY <1>4, <1>5, <1>6, <1>7 DEF Init, TypeOK, RowStates

LEMMA StepType == ASSUME TypeOK, [Next]_vars PROVE TypeOK'
<1>1. CASE UNCHANGED vars
  BY <1>1 DEF vars, TypeOK
<1>2. CASE Next
  BY <1>2, DriveType, SettleType, RecoverType, PhoneType, EnvironmentType, CrashType DEF Next
<1> QED  BY <1>1, <1>2

\* Every variable keeps its type, for any number of relays, kinds of effect
\* and attempts.
THEOREM TypeCorrect == Spec => []TypeOK
BY InitType, StepType, PTL DEF Spec

-----------------------------------------------------------------------------
(* At most once.  The invariant that is inductive speaks of launched         *)
(* commands rather than of those that acted, and of a relay at its gate,     *)
(* which may launch whatever the row says by then.                           *)

\* The command of attempt n runs, has run, or is past the gate.
Launched(n) ==
    \/ command[n] # "none"
    \/ \E r \in Relays : proc[r].pc \in {"ready", "working"} /\ proc[r].att = n

\* The row remembers the launch of its own attempt; a repetition was allowed
\* after every earlier one.
LaunchesAreKnown ==
    \A n \in Attempts : Launched(n) =>
        /\ n <= effect.attempts
        /\ n \in allowed \/ (n = effect.attempts /\ effect.mayExecute)

\* What can be claimed again, or counts as not done, was not released.
ResetIsSafe ==
    /\ effect.state = "prepared" => ~effect.mayExecute
    /\ effect.state \in {"failed", "cancelled"} =>
         ~effect.mayExecute \/ effect.attempts \in allowed

EmittedWasLaunched == \A n \in emitted : command[n] # "none"

IInv == TypeOK /\ LaunchesAreKnown /\ ResetIsSafe /\ EmittedWasLaunched

\* A step that launches nothing.
NoLaunch == \A n \in Attempts : Launched(n)' => Launched(n)

\* A step that leaves the attempt and its release as they are.
Kept == effect'.attempts = effect.attempts /\ effect'.mayExecute = effect.mayExecute

LEMMA InitInv == Init => IInv
<1> SUFFICES ASSUME Init PROVE IInv  OBVIOUS
<1>1. TypeOK  BY InitType
<1>2. \A n \in Attempts : ~Launched(n)  BY DEF Init, Launched, Resting
<1>3. ResetIsSafe  BY DEF Init, ResetIsSafe
<1>4. EmittedWasLaunched  BY DEF Init, EmittedWasLaunched
<1> QED  BY <1>1, <1>2, <1>3, <1>4 DEF IInv, LaunchesAreKnown

LEMMA QuietMoves ==
    ASSUME TypeOK, NEW r \in Relays, UNCHANGED command
    PROVE  /\ UNCHANGED proc => NoLaunch
           /\ \A pc \in Pcs \ {"ready", "working"} : GoTo(r, pc) => NoLaunch
           /\ Rest(r) => NoLaunch
           /\ \A err \in Errors : Fail(r, err) => NoLaunch
           /\ \A why \in Whys : ThenBlock(r, why) => NoLaunch
<1>1. proc \in [Relays -> ProcRecord]  BY DEF TypeOK
<1>2. ASSUME proc'[r].pc \notin {"ready", "working"},
             \A q \in Relays \ {r} : proc'[q] = proc[q]
      PROVE  NoLaunch
  BY <1>2 DEF NoLaunch, Launched
<1>3. ASSUME UNCHANGED proc PROVE NoLaunch  BY <1>3 DEF NoLaunch, Launched
<1>4. ASSUME NEW pc \in Pcs \ {"ready", "working"}, GoTo(r, pc) PROVE NoLaunch
  BY <1>1, <1>2, <1>4 DEF GoTo, ProcRecord
<1>5. ASSUME Rest(r) PROVE NoLaunch  BY <1>1, <1>2, <1>5 DEF Rest, Resting
<1>6. ASSUME NEW err \in Errors, Fail(r, err) PROVE NoLaunch
  BY <1>1, <1>2, <1>6 DEF Fail, ProcRecord
<1>7. ASSUME NEW why \in Whys, ThenBlock(r, why) PROVE NoLaunch
  BY <1>1, <1>2, <1>7 DEF ThenBlock, ProcRecord
<1> QED  BY <1>3, <1>4, <1>5, <1>6, <1>7

LEMMA EffectMoves ==
    ASSUME TypeOK
    PROVE  /\ UNCHANGED effect => Kept
           /\ \A state : Transition(state) => Kept /\ effect'.state = state
           /\ \A receipt : Committed(receipt) => Kept /\ effect'.state = "committed"
           /\ \A receipt : RecordLate(receipt) =>
                Kept /\ effect'.state \in {effect.state, "committed"}
           /\ Prepared => /\ effect'.attempts = effect.attempts
                          /\ effect'.mayExecute = FALSE
                          /\ effect'.state = "prepared"
BY DEF TypeOK, EffectRecord, Kept, Transition, Committed, RecordLate, Prepared

\* The shape of most steps of the program.
LEMMA AccountedStep ==
    ASSUME IInv, TypeOK', NoLaunch, UNCHANGED <<command, emitted>>, allowed \subseteq allowed',
           effect'.attempts = effect.attempts,
           effect.mayExecute => effect'.mayExecute \/ effect.attempts \in allowed',
           ResetIsSafe'
    PROVE  IInv'
<1>1. ASSUME NEW n \in Attempts, Launched(n)'
      PROVE  n <= effect'.attempts /\ (n \in allowed' \/ (n = effect'.attempts /\ effect'.mayExecute))
  <2>1. Launched(n)  BY <1>1 DEF NoLaunch
  <2> QED  BY <2>1 DEF IInv, LaunchesAreKnown
<1>2. LaunchesAreKnown'  BY <1>1 DEF LaunchesAreKnown
<1>3. EmittedWasLaunched'  BY DEF IInv, EmittedWasLaunched
<1> QED  BY <1>2, <1>3 DEF IInv

LEMMA KeptStep ==
    ASSUME IInv, TypeOK', NoLaunch, UNCHANGED <<command, emitted, allowed>>, Kept,
           effect'.state \in {effect.state, "dispatched", "committed", "ambiguous"}
    PROVE  IInv'
<1>1. ResetIsSafe'  BY DEF Kept, IInv, ResetIsSafe
<1> QED  BY <1>1, AccountedStep DEF Kept

LEMMA DriveInv == ASSUME IInv, TypeOK', NEW r \in Relays, Drive(r) PROVE IInv'
<1> USE QuietMoves, EffectMoves DEF world, outside
<1>0. TypeOK  BY DEF IInv
<1>1. CASE Satisfy(r)
  BY <1>0, <1>1, KeptStep DEF Satisfy
<1>2. CASE Claim(r)
  <2>1. /\ effect'.attempts = effect.attempts + 1
        /\ effect'.mayExecute = effect.mayExecute
        /\ effect'.state = "prepared" /\ effect.state = "prepared"
    BY <1>0, <1>2 DEF Claim, TypeOK, EffectRecord
  <2>2. ~effect.mayExecute  BY <2>1 DEF IInv, ResetIsSafe
  <2>3. NoLaunch
    <3>1. proc'[r].pc = "claimed" /\ \A q \in Relays \ {r} : proc'[q] = proc[q]
      BY <1>0, <1>2 DEF Claim, TypeOK, Resting
    <3> QED  BY <1>2, <3>1 DEF NoLaunch, Launched, Claim
  <2>4. effect.attempts \in Nat  BY <1>0, NaturalBound DEF TypeOK, EffectRecord
  <2>5. LaunchesAreKnown'
    <3> SUFFICES ASSUME NEW n \in Attempts, Launched(n)'
                 PROVE  n <= effect'.attempts /\ n \in allowed'
      BY DEF LaunchesAreKnown
    <3>1. Launched(n)  BY <2>3 DEF NoLaunch
    <3>2. n <= effect.attempts /\ n \in allowed
      BY <2>2, <3>1 DEF IInv, LaunchesAreKnown
    <3> QED  BY <1>2, <2>1, <2>4, <3>2, NaturalBound DEF Claim, Attempts
  <2>6. ResetIsSafe'  BY <2>1, <2>2 DEF ResetIsSafe
  <2>7. EmittedWasLaunched'  BY <1>2 DEF Claim, IInv, EmittedWasLaunched
  <2> QED  BY <2>5, <2>6, <2>7 DEF IInv
<1>3. CASE TurnStarts(r)
  BY <1>0, <1>3, KeptStep DEF TurnStarts, Pcs
<1>4. CASE TurnRefused(r)
  BY <1>0, <1>4, KeptStep DEF TurnRefused, Errors
<1>5. CASE Dispatch(r)
  <2>1. /\ effect'.attempts = effect.attempts /\ effect'.state = "dispatched"
        /\ effect'.mayExecute = ~effect.gated
        /\ effect.state = "prepared" /\ proc[r].att = effect.attempts
    BY <1>0, <1>5 DEF Dispatch, Owns, TypeOK, EffectRecord
  <2>2. ~effect.mayExecute  BY <2>1 DEF IInv, ResetIsSafe
  <2>3. ASSUME NEW n \in Attempts, Launched(n)'
        PROVE  Launched(n) \/ (n = effect.attempts /\ effect'.mayExecute)
    <3>1. /\ proc'[r].pc \in {"ready", "working"} => ~effect.gated
          /\ proc'[r].att = effect.attempts
          /\ \A q \in Relays \ {r} : proc'[q] = proc[q]
      BY <1>0, <1>5, <2>1 DEF Dispatch, GoTo, TypeOK, ProcRecord
    <3>2. CASE command[n] # "none"  BY <3>2 DEF Launched
    <3>3. CASE command[n] = "none"
      <4>1. PICK q \in Relays : proc'[q].pc \in {"ready", "working"} /\ proc'[q].att = n
        BY <1>5, <2>3, <3>3 DEF Launched, Dispatch
      <4>2. CASE q = r  BY <2>1, <3>1, <4>1, <4>2
      <4>3. CASE q # r  BY <3>1, <4>1, <4>3 DEF Launched
      <4> QED  BY <4>2, <4>3
    <3> QED  BY <3>2, <3>3
  <2>4. LaunchesAreKnown'
    <3> SUFFICES ASSUME NEW n \in Attempts, Launched(n)'
                 PROVE  /\ n <= effect'.attempts
                        /\ n \in allowed' \/ (n = effect'.attempts /\ effect'.mayExecute)
      BY DEF LaunchesAreKnown
    <3>1. CASE Launched(n)
      BY <1>5, <2>1, <2>2, <3>1 DEF IInv, LaunchesAreKnown, Dispatch
    <3>2. CASE n = effect.attempts /\ effect'.mayExecute
      BY <2>1, <3>2, NaturalBound DEF Attempts
    <3> QED  BY <2>3, <3>1, <3>2
  <2>5. ResetIsSafe'  BY <2>1 DEF ResetIsSafe
  <2>6. EmittedWasLaunched'  BY <1>5 DEF Dispatch, IInv, EmittedWasLaunched
  <2> QED  BY <2>4, <2>5, <2>6 DEF IInv
<1>6. CASE HookFails(r)
  BY <1>0, <1>6, KeptStep DEF HookFails, Errors
<1>7. CASE MarkMayExecute(r)
  <2>1. /\ effect'.attempts = effect.attempts /\ effect'.state = "dispatched"
        /\ effect'.mayExecute = TRUE /\ proc[r].att = effect.attempts
    BY <1>0, <1>7 DEF MarkMayExecute, Owns, TypeOK, EffectRecord
  <2>2. ASSUME NEW n \in Attempts, Launched(n)'
        PROVE  Launched(n) \/ n = effect.attempts
    <3>1. /\ proc'[r].att = effect.attempts
          /\ \A q \in Relays \ {r} : proc'[q] = proc[q]
      BY <1>0, <1>7, <2>1 DEF MarkMayExecute, GoTo, TypeOK, ProcRecord
    <3> QED  BY <1>7, <2>2, <3>1 DEF Launched, MarkMayExecute
  <2>3. LaunchesAreKnown'
    <3> SUFFICES ASSUME NEW n \in Attempts, Launched(n)'
                 PROVE  /\ n <= effect'.attempts
                        /\ n \in allowed' \/ (n = effect'.attempts /\ effect'.mayExecute)
      BY DEF LaunchesAreKnown
    <3>1. CASE Launched(n)
      BY <1>7, <2>1, <3>1 DEF IInv, LaunchesAreKnown, MarkMayExecute
    <3>2. CASE n = effect.attempts
      BY <2>1, <3>2, NaturalBound DEF Attempts
    <3> QED  BY <2>2, <3>1, <3>2
  <2>4. ResetIsSafe'  BY <2>1 DEF ResetIsSafe
  <2>5. EmittedWasLaunched'  BY <1>7 DEF MarkMayExecute, IInv, EmittedWasLaunched
  <2> QED  BY <2>3, <2>4, <2>5 DEF IInv
<1>8. CASE GateFails(r)
  BY <1>0, <1>8, KeptStep DEF GateFails, Errors
<1>9. CASE Release(r)
  <2>1. \A n \in Attempts : command'[n] # "none" => command[n] # "none" \/ n = proc[r].att
    BY <1>0, <1>9 DEF Release, TypeOK
  <2>2. \A q \in Relays : proc'[q].att = proc[q].att /\ (q # r => proc'[q] = proc[q])
    BY <1>0, <1>9 DEF Release, GoTo, TypeOK, ProcRecord
  <2>3. proc[r].pc = "ready"  BY <1>9 DEF Release, At
  <2>4. NoLaunch
    <3> SUFFICES ASSUME NEW n \in Attempts, Launched(n)' PROVE Launched(n)
      BY DEF NoLaunch
    <3>1. CASE command'[n] # "none"  BY <2>1, <2>3, <3>1 DEF Launched
    <3>2. CASE command'[n] = "none"
      <4>1. PICK q \in Relays : proc'[q].pc \in {"ready", "working"} /\ proc'[q].att = n
        BY <3>2 DEF Launched
      <4> QED  BY <2>2, <2>3, <4>1 DEF Launched
    <3> QED  BY <3>1, <3>2
  <2>5. LaunchesAreKnown'  BY <1>9, <2>4 DEF Release, NoLaunch, IInv, LaunchesAreKnown
  <2>6. ResetIsSafe'  BY <1>9 DEF Release, IInv, ResetIsSafe
  <2>7. EmittedWasLaunched'
    <3>1. ASSUME NEW n \in Attempts, command[n] # "none" PROVE command'[n] # "none"
      BY <1>0, <1>9, <3>1 DEF Release, TypeOK
    <3> QED  BY <1>0, <1>9, <3>1 DEF Release, TypeOK, IInv, EmittedWasLaunched
  <2> QED  BY <2>5, <2>6, <2>7 DEF IInv
<1>10. CASE CommandFails(r)
  BY <1>0, <1>10, KeptStep DEF CommandFails, Errors
<1>11. CASE Commit(r)
  <2>1. NoLaunch  BY <1>0, <1>11 DEF Commit, Errors
  <2>2. Kept /\ effect'.state \in {effect.state, "committed"}  BY <1>0, <1>11 DEF Commit
  <2> QED  BY <1>11, <2>1, <2>2, KeptStep DEF Commit
<1> QED
  BY <1>1, <1>2, <1>3, <1>4, <1>5, <1>6, <1>7, <1>8, <1>9, <1>10, <1>11 DEF Drive

LEMMA SettleInv == ASSUME IInv, TypeOK', NEW r \in Relays, Settle(r) PROVE IInv'
<1> USE QuietMoves, EffectMoves DEF world, outside
<1>0. TypeOK  BY DEF IInv
<1>1. CASE FailCertainly(r)
  <2>1. NoLaunch  BY <1>0, <1>1 DEF FailCertainly, Pcs, Whys
  <2>2. Kept  BY <1>0, <1>1 DEF FailCertainly
  <2>3. ~effect.mayExecute  BY <1>1 DEF FailCertainly, Unreleased, IInv, ResetIsSafe
  <2>4. ResetIsSafe'  BY <2>2, <2>3 DEF Kept, ResetIsSafe
  <2> QED  BY <1>1, <2>1, <2>2, <2>4, AccountedStep DEF Kept, FailCertainly
<1>2. CASE PutBack(r)
  <2>1. NoLaunch  BY <1>0, <1>2 DEF PutBack
  <2>2. CASE UNCHANGED effect  BY <1>0, <1>2, <2>1, <2>2, KeptStep DEF PutBack
  <2>3. CASE effect.state = "failed" /\ Prepared
    <3>1. effect.mayExecute => effect.attempts \in allowed  BY <2>3 DEF IInv, ResetIsSafe
    <3>2. ResetIsSafe'  BY <1>0, <2>3 DEF ResetIsSafe
    <3> QED  BY <1>0, <1>2, <2>1, <2>3, <3>1, <3>2, AccountedStep DEF PutBack
  <2> QED  BY <1>2, <2>2, <2>3 DEF PutBack
<1>3. CASE RejectConfiguration(r)
  <2>1. NoLaunch  BY <1>0, <1>3 DEF RejectConfiguration, Whys
  <2>2. Kept  BY <1>0, <1>3 DEF RejectConfiguration
  <2>3. effect'.state = "failed" /\ effect'.attempts \in allowed'
    BY <1>0, <1>3, <2>2 DEF RejectConfiguration, Kept
  <2>4. ResetIsSafe'  BY <2>3 DEF ResetIsSafe
  <2> QED  BY <1>3, <2>1, <2>2, <2>4, AccountedStep DEF Kept, RejectConfiguration
<1>4. CASE FailPositively(r)
  <2>1. NoLaunch  BY <1>0, <1>4 DEF FailPositively
  <2>2. Kept /\ effect'.state \in {effect.state, "committed"}  BY <1>0, <1>4 DEF FailPositively
  <2> QED  BY <1>4, <2>1, <2>2, KeptStep DEF FailPositively
<1>5. CASE FailAmbiguously(r)
  BY <1>0, <1>5, KeptStep DEF FailAmbiguously, Pcs
<1>6. CASE FailUnchanged(r)
  <2>1. Rest(r) /\ UNCHANGED <<effect, command, emitted, allowed>>  BY <1>6 DEF FailUnchanged
  <2> QED  BY <1>0, <2>1, KeptStep
<1>7. CASE Quarantine(r)
  BY <1>0, <1>7, KeptStep DEF Quarantine, Whys
<1>8. CASE Block(r)
  <2>1. Rest(r) /\ UNCHANGED <<effect, command, emitted, allowed>>  BY <1>8 DEF Block
  <2> QED  BY <1>0, <2>1, KeptStep
<1> QED
  BY <1>1, <1>2, <1>3, <1>4, <1>5, <1>6, <1>7, <1>8 DEF Settle

LEMMA RecoverInv == ASSUME IInv, TypeOK', NEW r \in Relays, Recover(r) PROVE IInv'
<1> USE QuietMoves, EffectMoves DEF world, outside
<1>0. TypeOK  BY DEF IInv
<1>1. CASE StartRecovery(r)
  <2>1. proc'[r].pc = "recovering" /\ \A q \in Relays \ {r} : proc'[q] = proc[q]
    BY <1>0, <1>1 DEF StartRecovery, TypeOK, Resting
  <2>2. NoLaunch  BY <1>1, <2>1 DEF StartRecovery, NoLaunch, Launched
  <2> QED  BY <1>0, <1>1, <2>2, KeptStep DEF StartRecovery
<1>2. CASE RecoverPositively(r)
  <2>1. NoLaunch  BY <1>0, <1>2 DEF RecoverPositively
  <2>2. Kept /\ effect'.state \in {effect.state, "committed"}  BY <1>0, <1>2 DEF RecoverPositively
  <2> QED  BY <1>2, <2>1, <2>2, KeptStep DEF RecoverPositively
<1>3. CASE RecoverAbandoned(r)
  <2>1. NoLaunch  BY <1>0, <1>3 DEF RecoverAbandoned, Pcs
  <2>2. UNCHANGED <<command, emitted, allowed>>  BY <1>3 DEF RecoverAbandoned
  <2>3. CASE UNCHANGED effect  BY <1>0, <2>1, <2>2, <2>3, KeptStep
  <2>4. CASE Transition("ambiguous")  BY <1>0, <2>1, <2>2, <2>4, KeptStep
  <2>5. CASE ~effect.mayExecute /\ Prepared
    <3>1. ResetIsSafe'  BY <1>0, <2>5 DEF ResetIsSafe
    <3> QED  BY <1>0, <2>1, <2>2, <2>5, <3>1, AccountedStep
  <2>6. CASE /\ ~effect.mayExecute
             /\ effect' = [effect EXCEPT !.state = "cancelled", !.owner = None, !.nonce = 0]
    <3>1. Kept  BY <1>0, <2>6 DEF Kept, TypeOK, EffectRecord
    <3>2. ResetIsSafe'
      <4>1. effect'.state = "cancelled"  BY <1>0, <2>6 DEF TypeOK, EffectRecord
      <4> QED  BY <2>6, <3>1, <4>1 DEF Kept, ResetIsSafe
    <3> QED  BY <2>1, <2>2, <3>1, <3>2, AccountedStep DEF Kept
  <2> QED  BY <1>3, <2>3, <2>4, <2>5, <2>6 DEF RecoverAbandoned
<1>4. CASE ReconcileBlocked(r)
  BY <1>0, <1>4, KeptStep DEF ReconcileBlocked
<1>5. CASE RefreshCandidates(r)
  BY <1>0, <1>5, KeptStep DEF RefreshCandidates
<1>6. CASE LoseReceipt(r)
  BY <1>0, <1>6, KeptStep DEF LoseReceipt, Pcs
<1>7. CASE Advance(r)
  <2>1. Kept /\ effect'.state = effect.state  BY <1>0, <1>7 DEF Advance, Kept, TypeOK, EffectRecord
  <2> QED  BY <1>0, <1>7, <2>1, KeptStep DEF Advance
<1>8. CASE ObserveCancelled(r)
  <2>1. NoLaunch  BY <1>0, <1>8 DEF ObserveCancelled, Pcs
  <2>2. Kept /\ effect'.state \in {effect.state, "committed", "ambiguous"}
    BY <1>0, <1>8 DEF ObserveCancelled
  <2> QED  BY <1>8, <2>1, <2>2, KeptStep DEF ObserveCancelled
<1> QED
  BY <1>1, <1>2, <1>3, <1>4, <1>5, <1>6, <1>7, <1>8 DEF Recover

LEMMA PhoneInv == ASSUME IInv, TypeOK', Phone PROVE IInv'
<1> USE EffectMoves DEF world, outside
<1>0. TypeOK  BY DEF IInv
<1>1. ASSUME UNCHANGED <<proc, command>> PROVE NoLaunch  BY <1>1 DEF NoLaunch, Launched
<1>2. CASE Retry
  <2>1. CASE UNCHANGED effect  BY <1>0, <1>1, <1>2, <2>1, KeptStep DEF Retry
  <2>2. CASE effect.state = "failed" /\ Prepared
    <3>1. effect.mayExecute => effect.attempts \in allowed  BY <2>2 DEF IInv, ResetIsSafe
    <3>2. ResetIsSafe'  BY <1>0, <2>2 DEF ResetIsSafe
    <3> QED  BY <1>0, <1>1, <1>2, <2>2, <3>1, <3>2, AccountedStep DEF Retry
  <2> QED  BY <1>2, <2>1, <2>2 DEF Retry
<1>3. CASE Adopt
  BY <1>0, <1>1, <1>3, KeptStep DEF Adopt
<1>4. CASE Replay
  <2>1. effect'.attempts = effect.attempts /\ effect'.mayExecute = FALSE
    BY <1>0, <1>4 DEF Replay, TypeOK, EffectRecord
  <2>2. ResetIsSafe'  BY <2>1 DEF ResetIsSafe
  <2> QED  BY <1>1, <1>4, <2>1, <2>2, AccountedStep DEF Replay
<1>5. CASE Cancel
  <2>1. CASE UNCHANGED effect  BY <1>0, <1>1, <1>5, <2>1, KeptStep DEF Cancel
  <2>2. CASE effect.state \in {"prepared", "failed"} /\ Transition("cancelled")
    <3>1. Kept /\ effect'.state = "cancelled"  BY <1>0, <2>2
    <3>2. ResetIsSafe'  BY <1>5, <2>2, <3>1 DEF Cancel, Kept, IInv, ResetIsSafe
    <3> QED  BY <1>1, <1>5, <3>1, <3>2, AccountedStep DEF Cancel, Kept
  <2> QED  BY <1>5, <2>1, <2>2 DEF Cancel
<1>6. CASE Complete
  BY <1>0, <1>1, <1>6, KeptStep DEF Complete
<1>7. CASE ConfirmUiStable
  BY <1>0, <1>1, <1>7, KeptStep DEF ConfirmUiStable
<1> QED  BY <1>2, <1>3, <1>4, <1>5, <1>6, <1>7 DEF Phone

LEMMA EnvironmentInv == ASSUME IInv, TypeOK', Environment PROVE IInv'
<1>0. TypeOK  BY DEF IInv
<1>1. ASSUME UNCHANGED <<proc, command>> PROVE NoLaunch  BY <1>1 DEF NoLaunch, Launched
<1>2. ASSUME UNCHANGED <<proc, command, emitted, effect, allowed>> PROVE IInv'
  BY <1>1, <1>2, KeptStep DEF Kept
<1>3. CASE ReclaimLease \/ OtherHold
  BY <1>2, <1>3 DEF ReclaimLease, OtherHold, world, outside
<1>4. CASE ShowSettings \/ ShowCandidate \/ \E n \in Attempts : ShowPrompt(n)
  BY <1>2, <1>4 DEF ShowSettings, ShowCandidate, ShowPrompt, relays
<1>5. ASSUME NEW n \in Attempts, CommandActs(n) PROVE IInv'
  <2>1. UNCHANGED <<proc, command, effect, allowed>>  BY <1>5 DEF CommandActs, relays
  <2>2. LaunchesAreKnown'  BY <2>1 DEF IInv, LaunchesAreKnown, Launched
  <2>3. ResetIsSafe'  BY <2>1 DEF IInv, ResetIsSafe
  <2>4. EmittedWasLaunched'  BY <1>5 DEF CommandActs, IInv, EmittedWasLaunched
  <2> QED  BY <2>2, <2>3, <2>4 DEF IInv
<1>6. ASSUME NEW n \in Attempts, CommandEnds(n) PROVE IInv'
  <2>1. UNCHANGED <<proc, emitted, effect, allowed>>  BY <1>6 DEF CommandEnds, relays
  <2>2. \A m \in Attempts : (command'[m] # "none") = (command[m] # "none")
    BY <1>0, <1>6 DEF CommandEnds, TypeOK
  <2>3. \A m \in Attempts : Launched(m)' => Launched(m)  BY <2>1, <2>2 DEF Launched
  <2>4. LaunchesAreKnown'  BY <2>1, <2>3 DEF IInv, LaunchesAreKnown
  <2>5. ResetIsSafe'  BY <2>1 DEF IInv, ResetIsSafe
  <2>6. EmittedWasLaunched'  BY <1>0, <2>1, <2>2 DEF TypeOK, IInv, EmittedWasLaunched
  <2> QED  BY <2>4, <2>5, <2>6 DEF IInv
<1> QED  BY <1>3, <1>4, <1>5, <1>6 DEF Environment

LEMMA CrashInv ==
    ASSUME IInv, TypeOK', NEW r \in Relays, Crash(r) \/ BlockIncompatible(r) PROVE IInv'
<1>0. TypeOK  BY DEF IInv
<1>1. UNCHANGED <<command, emitted, effect, allowed>>
  BY DEF Crash, BlockIncompatible, world, outside
<1>2. NoLaunch
  <2>1. Rest(r) \/ UNCHANGED proc  BY DEF Crash, BlockIncompatible, Rest
  <2> QED  BY <1>0, <1>1, <2>1, QuietMoves
<1> QED  BY <1>1, <1>2, KeptStep DEF Kept

LEMMA StepInv == ASSUME IInv, [Next]_vars PROVE IInv'
<1>1. TypeOK'  BY StepType DEF IInv
<1>2. CASE UNCHANGED vars
  <2>1. NoLaunch  BY <1>2 DEF vars, NoLaunch, Launched
  <2> QED  BY <1>1, <1>2, <2>1, KeptStep DEF vars, Kept
<1>3. CASE Next
  BY <1>1, <1>3, DriveInv, SettleInv, RecoverInv, PhoneInv, EnvironmentInv, CrashInv DEF Next
<1> QED  BY <1>2, <1>3

\* At most once, for any number of relays, crashes and attempts: beyond the
\* first, a command acts on the window only after a repetition was allowed.
THEOREM AtMostOnce == Spec => []NoUnconfirmedRepeat
<1>1. ASSUME IInv PROVE NoUnconfirmedRepeat
  <2>1. emitted \ allowed \subseteq {effect.attempts}
    BY <1>1 DEF IInv, TypeOK, EmittedWasLaunched, LaunchesAreKnown, Launched
  <2>2. IsFiniteSet({effect.attempts}) /\ Cardinality({effect.attempts}) = 1
    BY FS_Singleton
  <2>3. Cardinality(emitted \ allowed) <= 1  BY <2>1, <2>2, FS_Subset
  <2> QED  BY <2>3 DEF NoUnconfirmedRepeat
<1> QED  BY <1>1, InitInv, StepInv, PTL DEF Spec

\* What acted on the window is never prepared again, failed or cancelled as if
\* it had not, unless a repetition was allowed.
THEOREM ActedStaysKnown == Spec => []ActedIsRemembered
<1>1. ASSUME IInv PROVE ActedIsRemembered
  BY <1>1 DEF IInv, TypeOK, EmittedWasLaunched, LaunchesAreKnown, Launched, ResetIsSafe,
              ActedIsRemembered
<1> QED  BY <1>1, InitInv, StepInv, PTL DEF Spec

-----------------------------------------------------------------------------
(* What a step may never do *)

\* The action of StoppedRunReleasesNothing.
Fenced ==
    /\ effect'.mayExecute /\ ~effect.mayExecute => run.phase = "active"
    /\ run.phase = "cancelled" => run'.phase = "cancelled" /\ effect'.attempts = effect.attempts

\* The action of OnlyOwnHoldIsLifted.
Spared == hold = "other" /\ hold' # "other" => UNCHANGED <<run, effect>>

\* A step that releases nothing, and does not touch the run unless it is under
\* way or blocked.
LEMMA QuietFence ==
    ASSUME Kept \/ (effect'.attempts = effect.attempts /\ ~effect'.mayExecute),
           run.phase = "cancelled" => run' = run
    PROVE  Fenced
BY DEF Kept, Fenced

LEMMA RelayFence ==
    ASSUME TypeOK, NEW r \in Relays, Drive(r) \/ Settle(r) \/ Recover(r) PROVE Fenced
<1> USE EffectMoves
<1>1. CASE Claim(r)
  BY <1>1 DEF Claim, Wakes, TypeOK, EffectRecord, Fenced
<1>2. CASE Dispatch(r)
  BY <1>2 DEF Dispatch, TypeOK, EffectRecord, Fenced
<1>3. CASE MarkMayExecute(r)
  BY <1>3 DEF MarkMayExecute, TypeOK, EffectRecord, Fenced
<1>4. CASE Satisfy(r) \/ TurnStarts(r) \/ TurnRefused(r) \/ HookFails(r) \/ GateFails(r)
            \/ Release(r) \/ CommandFails(r)
  <2>1. Kept /\ run' = run
    BY <1>4 DEF Satisfy, TurnStarts, TurnRefused, HookFails, GateFails, Release, CommandFails
  <2> QED  BY <2>1, QuietFence
<1>5. CASE Commit(r)
  <2>1. Kept /\ run' = run  BY <1>5 DEF Commit
  <2> QED  BY <2>1, QuietFence
<1>6. CASE FailCertainly(r) \/ RejectConfiguration(r) \/ FailAmbiguously(r)
            \/ FailUnchanged(r) \/ Quarantine(r)
  <2>1. Kept /\ run' = run
    BY <1>6 DEF FailCertainly, RejectConfiguration, FailAmbiguously, FailUnchanged, Quarantine
  <2> QED  BY <2>1, QuietFence
<1>7. CASE PutBack(r)
  BY <1>7, QuietFence DEF PutBack
<1>8. CASE FailPositively(r)
  <2>1. Kept /\ run' = run  BY <1>8 DEF FailPositively
  <2> QED  BY <2>1, QuietFence
<1>9. CASE Block(r)
  BY <1>9, QuietFence DEF Block
<1>10. CASE StartRecovery(r) \/ RecoverPositively(r) \/ LoseReceipt(r) \/ RefreshCandidates(r)
             \/ ReconcileBlocked(r)
  <2>1. Kept /\ (run.phase = "cancelled" => run' = run)
    BY <1>10
    DEF StartRecovery, RecoverPositively, LoseReceipt, RefreshCandidates, ReconcileBlocked
  <2> QED  BY <2>1, QuietFence
<1>11. CASE RecoverAbandoned(r)
  <2>1. run' = run /\ (\/ UNCHANGED effect \/ Transition("ambiguous") \/ Prepared
                       \/ effect' = [effect EXCEPT !.state = "cancelled", !.owner = None, !.nonce = 0])
    BY <1>11 DEF RecoverAbandoned
  <2>2. ASSUME effect' = [effect EXCEPT !.state = "cancelled", !.owner = None, !.nonce = 0]
        PROVE  Kept
    BY <2>2 DEF Kept, TypeOK, EffectRecord
  <2> QED  BY <2>1, <2>2, QuietFence
<1>12. CASE Advance(r)
  <2>1. Kept /\ run' = run  BY <1>12 DEF Advance, Kept, TypeOK, EffectRecord
  <2> QED  BY <2>1, QuietFence
<1>13. CASE ObserveCancelled(r)
  <2>1. Kept /\ run' = run  BY <1>13 DEF ObserveCancelled
  <2> QED  BY <2>1, QuietFence
<1> QED
  BY <1>1, <1>2, <1>3, <1>4, <1>5, <1>6, <1>7, <1>8, <1>9, <1>10, <1>11, <1>12, <1>13
  DEF Drive, Settle, Recover

LEMMA StepFence == ASSUME TypeOK, [Next]_vars PROVE Fenced
<1> USE EffectMoves
<1>1. CASE UNCHANGED vars
  BY <1>1, QuietFence DEF vars
<1>2. ASSUME NEW r \in Relays, Crash(r) PROVE Fenced
  BY <1>2, QuietFence DEF Crash
<1>3. ASSUME NEW r \in Relays, BlockIncompatible(r) PROVE Fenced
  BY <1>3, QuietFence DEF BlockIncompatible, Wakes
<1>4. CASE Retry
  <2>1. UNCHANGED effect \/ Prepared  BY <1>4 DEF Retry
  <2> QED  BY <1>4, <2>1, QuietFence DEF Retry
<1>5. CASE Adopt
  BY <1>5, QuietFence DEF Adopt
<1>6. CASE Replay
  <2>1. effect'.attempts = effect.attempts /\ ~effect'.mayExecute
    BY <1>6 DEF Replay, TypeOK, EffectRecord
  <2> QED  BY <1>6, <2>1, QuietFence DEF Replay
<1>7. CASE Cancel
  <2>1. Kept  BY <1>7 DEF Cancel
  <2> QED  BY <1>7, <2>1, QuietFence DEF Cancel
<1>8. CASE Complete \/ ConfirmUiStable
  BY <1>8, QuietFence DEF Complete, ConfirmUiStable
<1>9. CASE Environment
  <2>1. UNCHANGED <<run, effect>>
    BY <1>9
    DEF Environment, ReclaimLease, OtherHold, ShowSettings, ShowCandidate, CommandActs,
        CommandEnds, ShowPrompt, relays
  <2> QED  BY <2>1, QuietFence
<1> QED
  BY <1>1, <1>2, <1>3, <1>4, <1>5, <1>6, <1>7, <1>8, <1>9, RelayFence DEF Next, Phone

\* A run that is blocked, completed or cancelled releases no effect, and a
\* cancelled one starts no attempt and stays cancelled.
THEOREM StopIsAFence == Spec => StoppedRunReleasesNothing
<1>1. TypeOK /\ [Next]_vars => [Fenced]_vars  BY StepFence
<1> QED  BY <1>1, InitType, StepType, PTL DEF Spec, StoppedRunReleasesNothing, Fenced

LEMMA StepSpares == ASSUME [Next]_vars PROVE Spared
<1>1. Cleared("other") = "other" /\ Raised("other") = "other"  BY DEF Cleared, Raised
<1>2. \A receipt : RecordLate(receipt) => hold' = Cleared(hold)  BY DEF RecordLate
<1>3. CASE UNCHANGED vars
  BY <1>3 DEF vars, Spared
<1>4. ASSUME NEW r \in Relays, Drive(r) PROVE Spared
  BY <1>1, <1>2, <1>4
  DEF Drive, Satisfy, Claim, TurnStarts, TurnRefused, Dispatch, HookFails, MarkMayExecute,
      GateFails, Release, CommandFails, Commit, Spared
<1>5. ASSUME NEW r \in Relays, Settle(r) PROVE Spared
  BY <1>1, <1>2, <1>5
  DEF Settle, FailCertainly, PutBack, RejectConfiguration, FailPositively, FailAmbiguously,
      FailUnchanged, Quarantine, Block, Spared
<1>6. ASSUME NEW r \in Relays, Recover(r) PROVE Spared
  BY <1>1, <1>2, <1>6
  DEF Recover, StartRecovery, RecoverPositively, RecoverAbandoned, ReconcileBlocked,
      RefreshCandidates, LoseReceipt, Advance, ObserveCancelled, Spared
<1>7. ASSUME NEW r \in Relays, BlockIncompatible(r) \/ Crash(r) PROVE Spared
  BY <1>7 DEF BlockIncompatible, Crash, Spared
<1>8. CASE Phone
  BY <1>1, <1>8 DEF Phone, Retry, Adopt, Replay, Cancel, Complete, ConfirmUiStable, Spared
<1>9. CASE Environment
  BY <1>1, <1>9
  DEF Environment, ReclaimLease, OtherHold, ShowSettings, ShowCandidate, CommandActs,
      CommandEnds, ShowPrompt, relays, Spared
<1> QED  BY <1>3, <1>4, <1>5, <1>6, <1>7, <1>8, <1>9 DEF Next

\* No receipt, adoption, replay or recovery of this effect lifts the hold that
\* another action has put on the window.
THEOREM OtherHoldIsSpared == Spec => OnlyOwnHoldIsLifted
<1>1. [Next]_vars => [Spared]_vars  BY StepSpares
<1> QED  BY <1>1, PTL DEF Spec, OnlyOwnHoldIsLifted, Spared

-----------------------------------------------------------------------------
(* The hold of an effect that may have happened.                             *)

\* Whoever makes the effect ambiguous is to raise the hold next, and does so
\* unless it dies.
Secured ==
    /\ \A q \in Relays : At(q, "quarantining") =>
         At(q, "quarantining")' \/ hold' # "none" \/ q \notin up'
    /\ effect'.state = "ambiguous" =>
         effect.state = "ambiguous" \/ \E q \in Relays : At(q, "quarantining")'

\* Only r moves.
Alone(r) == up' = up /\ \A q \in Relays \ {r} : proc'[q] = proc[q]

LEMMA AloneSecures ==
    ASSUME NEW r \in Relays, Alone(r), proc[r].pc # "quarantining",
           effect'.state = "ambiguous" => effect.state = "ambiguous"
    PROVE  Secured
BY DEF Alone, Secured, At

\* Whatever a relay turns to, the others stay where they are.
LEMMA MovesAlone ==
    ASSUME TypeOK, NEW r \in Relays, up' = up
    PROVE  /\ UNCHANGED proc => Alone(r)
           /\ \A pc \in Pcs : GoTo(r, pc) => Alone(r) /\ proc'[r].pc = pc
           /\ Rest(r) => Alone(r)
           /\ \A err : Fail(r, err) => Alone(r)
           /\ \A why : ThenBlock(r, why) => Alone(r)
<1>1. proc \in [Relays -> ProcRecord]  BY DEF TypeOK
<1>2. ASSUME NEW pc \in Pcs, GoTo(r, pc) PROVE Alone(r) /\ proc'[r].pc = pc
  BY <1>1, <1>2 DEF GoTo, Alone, ProcRecord
<1> QED
  BY <1>1, <1>2 DEF Rest, Fail, ThenBlock, Alone

LEMMA DriveSecures == ASSUME TypeOK, NEW r \in Relays, Drive(r) PROVE Secured
<1>1. CASE Claim(r)
  BY <1>1, AloneSecures DEF Claim, Wakes, At, Alone, TypeOK, EffectRecord
<1>2. CASE Release(r)
  BY <1>2, AloneSecures, MovesAlone DEF Release, At, Pcs
<1>3. CASE Commit(r)
  BY <1>3, AloneSecures, MovesAlone, EffectMoves DEF Commit, Returned, At
<1>4. CASE Satisfy(r) \/ TurnStarts(r) \/ TurnRefused(r)
  BY <1>4, AloneSecures, MovesAlone, EffectMoves DEF Satisfy, TurnStarts, TurnRefused, Wakes, At, Pcs
<1>5. CASE Dispatch(r) \/ MarkMayExecute(r)
  <2>1. effect'.state \in {"dispatched", effect.state}
    BY <1>5 DEF Dispatch, MarkMayExecute, TypeOK, EffectRecord
  <2> QED
    BY <1>5, <2>1, AloneSecures, MovesAlone DEF Dispatch, MarkMayExecute, At, Pcs
<1>6. CASE HookFails(r) \/ GateFails(r) \/ CommandFails(r)
  BY <1>6, AloneSecures, MovesAlone DEF HookFails, GateFails, CommandFails, At
<1> QED
  BY <1>1, <1>2, <1>3, <1>4, <1>5, <1>6 DEF Drive

LEMMA SettleSecures == ASSUME TypeOK, NEW r \in Relays, Settle(r) PROVE Secured
<1>1. CASE FailCertainly(r) \/ RejectConfiguration(r)
  BY <1>1, AloneSecures, MovesAlone, EffectMoves DEF FailCertainly, RejectConfiguration, Failing, At, Pcs
<1>2. CASE PutBack(r)
  BY <1>2, AloneSecures, MovesAlone, EffectMoves DEF PutBack, Failing, At
<1>3. CASE FailPositively(r)
  BY <1>3, AloneSecures, MovesAlone, EffectMoves DEF FailPositively, Failing, At
<1>4. CASE FailAmbiguously(r)
  BY <1>4, MovesAlone DEF FailAmbiguously, Failing, At, Pcs, Alone, Secured
<1>5. CASE FailUnchanged(r)
  BY <1>5, AloneSecures, MovesAlone DEF FailUnchanged, Failing, At
<1>6. CASE Quarantine(r)
  <2>1. hold' # "none"
    BY <1>6 DEF Quarantine, Raised
  <2> QED
    BY <1>6, <2>1 DEF Quarantine, Secured
<1>7. CASE Block(r)
  BY <1>7, AloneSecures, MovesAlone DEF Block, At
<1> QED
  BY <1>1, <1>2, <1>3, <1>4, <1>5, <1>6, <1>7 DEF Settle

LEMMA RecoverSecures == ASSUME TypeOK, NEW r \in Relays, Recover(r) PROVE Secured
<1>1. CASE StartRecovery(r)
  BY <1>1, AloneSecures DEF StartRecovery, Wakes, At, Alone
<1>2. CASE RecoverPositively(r)
  BY <1>2, AloneSecures, MovesAlone, EffectMoves DEF RecoverPositively, At
<1>3. CASE RecoverAbandoned(r)
  <2>1. CASE Transition("ambiguous") /\ GoTo(r, "quarantining")
    BY <1>3, <2>1, MovesAlone DEF RecoverAbandoned, At, Pcs, Alone, Secured
  <2>2. CASE ~(Transition("ambiguous") /\ GoTo(r, "quarantining"))
    <3>1. effect'.state = "ambiguous" => effect.state = "ambiguous"
      BY <1>3, <2>2, EffectMoves DEF RecoverAbandoned, TypeOK, EffectRecord
    <3> QED
      BY <1>3, <2>2, <3>1, AloneSecures, MovesAlone DEF RecoverAbandoned, At
  <2> QED
    BY <2>1, <2>2
<1>4. CASE ReconcileBlocked(r) \/ RefreshCandidates(r) \/ Advance(r)
  <2>1. effect'.state = "ambiguous" => effect.state = "ambiguous"
    BY <1>4, EffectMoves DEF ReconcileBlocked, RefreshCandidates, Advance, TypeOK, EffectRecord
  <2> QED
    BY <1>4, <2>1, AloneSecures, MovesAlone DEF ReconcileBlocked, RefreshCandidates, Advance, Wakes, At
<1>5. CASE LoseReceipt(r)
  BY <1>5, MovesAlone DEF LoseReceipt, At, Pcs, Alone, Secured
<1>6. CASE ObserveCancelled(r)
  <2>1. CASE Transition("ambiguous") /\ GoTo(r, "quarantining")
    BY <1>6, <2>1, MovesAlone DEF ObserveCancelled, At, Pcs, Alone, Secured
  <2>2. CASE ~(Transition("ambiguous") /\ GoTo(r, "quarantining"))
    BY <1>6, <2>2, AloneSecures, MovesAlone, EffectMoves DEF ObserveCancelled, At
  <2> QED
    BY <2>1, <2>2
<1> QED
  BY <1>1, <1>2, <1>3, <1>4, <1>5, <1>6 DEF Recover

LEMMA StepSecures == ASSUME TypeOK, [Next]_vars PROVE Secured
<1>1. CASE UNCHANGED vars
  BY <1>1 DEF vars, Secured, At
<1>2. ASSUME NEW r \in Relays, BlockIncompatible(r)
      PROVE  Secured
  BY <1>2 DEF BlockIncompatible, Secured, At
<1>3. ASSUME NEW r \in Relays, Crash(r)
      PROVE  Secured
  BY <1>3 DEF Crash, Secured, At, TypeOK
<1>4. CASE Phone
  <2>1. effect'.state = "ambiguous" => effect.state = "ambiguous"
    BY <1>4, EffectMoves
    DEF Phone, Retry, Adopt, Replay, Cancel, Complete, ConfirmUiStable, TypeOK, EffectRecord
  <2>2. UNCHANGED <<up, proc>>
    BY <1>4 DEF Phone, Retry, Adopt, Replay, Cancel, Complete, ConfirmUiStable
  <2> QED
    BY <2>1, <2>2 DEF Secured, At
<1>5. CASE Environment
  BY <1>5
  DEF Environment, ReclaimLease, OtherHold, ShowSettings, ShowCandidate, CommandActs,
      CommandEnds, ShowPrompt, relays, Secured, At
<1> QED
  BY <1>1, <1>2, <1>3, <1>4, <1>5, DriveSecures, SettleSecures, RecoverSecures DEF Next

\* While the effect is ambiguous, there is a hold, or a relay about to raise
\* one, until one was lifted.
AmbiguityIsHeld ==
    effect.state = "ambiguous" =>
        hold # "none" \/ lifted \/ \E r \in Relays : At(r, "quarantining")

LEMMA StepHeld ==
    ASSUME TypeOK, AmbiguityIsHeld, [HoldNext]_<<vars, lifted>>
    PROVE  AmbiguityIsHeld'
<1>1. CASE UNCHANGED <<vars, lifted>>
  BY <1>1 DEF vars, AmbiguityIsHeld, At
<1>2. CASE HoldNext
  <2>1. Secured
    BY <1>2, StepSecures DEF HoldNext
  <2>2. SUFFICES ASSUME effect'.state = "ambiguous", hold' = "none",
                        ~\E r \in Relays : At(r, "quarantining")'
                 PROVE  lifted'
    BY DEF AmbiguityIsHeld
  <2>3. effect.state = "ambiguous"
    BY <2>1, <2>2 DEF Secured
  <2>4. lifted \/ Lifts
    BY <2>1, <2>2, <2>3 DEF AmbiguityIsHeld, Secured, Lifts
  <2> QED
    BY <1>2, <2>3, <2>4 DEF HoldNext, BecomesAmbiguous
<1> QED
  BY <1>1, <1>2

\* A run that is blocked on an effect that may have happened has the window
\* under a hold, or about to be, until somebody lifts it or the relay that was
\* to raise it dies, for any number of relays and attempts.
THEOREM AmbiguityHolds == HoldSpec => []AmbiguousBlockIsHeld
<1>1. HoldInit => AmbiguityIsHeld
  BY DEF HoldInit, Init, AmbiguityIsHeld
<1>2. AmbiguityIsHeld => AmbiguousBlockIsHeld
  BY DEF AmbiguityIsHeld, AmbiguousBlockIsHeld
<1>3. HoldInit => Init
  BY DEF HoldInit
<1>4. [HoldNext]_<<vars, lifted>> => [Next]_vars
  BY DEF HoldNext, vars
<1> QED
  BY <1>1, <1>2, <1>3, <1>4, InitType, StepType, StepHeld, PTL DEF HoldSpec
=============================================================================
