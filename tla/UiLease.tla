------------------------------- MODULE UiLease -------------------------------
(***************************************************************************)
(* The process-shared UI lease of conductor-remote.  Several relay         *)
(* processes drive one Conductor window; a singleton SQLite row            *)
(* (ui_mutex) names the relay that may do so, the action it does, whether   *)
(* that action may already have touched the window (mayExecute) and the    *)
(* detached helper that is doing it.                                       *)
(*                                                                         *)
(* Each relay runs one UI turn at a time (its in-process queue is the      *)
(* module UiTurns) and, next to it, a watchdog that recovers overdue       *)
(* leases.  acquireUiLease reads the row and probes its processes BEFORE   *)
(* the transaction that compares and swaps it, so an acquisition is two    *)
(* steps.  A relay may crash between any two steps; its helpers survive.   *)
(*                                                                         *)
(* Relays are process incarnations: a PID with its start time, so a        *)
(* restarted relay is another element.  Helpers are process groups.        *)
(***************************************************************************)
EXTENDS Naturals, FiniteSets

CONSTANTS
    Relays,            \* relay process incarnations
    Nonces,            \* one per acquisition (randomUUID)
    Helpers,           \* external processes a turn may spawn
    None,
    MaxProbeFailures   \* bound: process inspections that fail in a behaviour

ASSUME ConstantsAssumption ==
    /\ None \notin Relays \cup Nonces \cup Helpers
    /\ MaxProbeFailures \in Nat

VARIABLES
    relay,        \* lifecycle of each incarnation
    mutex,        \* the ui_mutex row
    overdue,      \* the row's deadline_at has passed
    quarantine,   \* the ui_quarantine row
    turn,         \* the UI turn of each relay
    dog,          \* the recovery pass of each relay's watchdog
    helper,       \* the external processes
    failures      \* inspections that have failed so far

vars == <<relay, mutex, overdue, quarantine, turn, dog, helper, failures>>

-----------------------------------------------------------------------------
(* Rows, snapshots, records *)

Priorities == {"interactive", "background"}

Row == [owner : Relays \cup {None}, nonce : Nonces \cup {None},
        mayExecute : BOOLEAN, ext : Helpers \cup {None}]

FreeRow == [owner |-> None, nonce |-> None, mayExecute |-> FALSE, ext |-> None]

Snapshots == [row : Row, ownerAlive : BOOLEAN, extAlive : BOOLEAN]

NoSnapshot == [row |-> FreeRow, ownerAlive |-> FALSE, extAlive |-> FALSE]

IdleTurn == [pc |-> "idle", prio |-> "interactive", gated |-> FALSE,
             nonce |-> None, helper |-> None, seen |-> NoSnapshot]

IdleDog == [pc |-> "idle", nonce |-> None, seen |-> NoSnapshot]

\* The pause before the row is read again.
Settling == [IdleDog EXCEPT !.pc = "settling"]

TurnPcs == {"idle", "observed", "held", "open", "spawned", "recorded",
            "working", "settled"}

\* The turn owns the lease in these states.
Holding == TurnPcs \ {"idle", "observed"}

DogPcs == {"idle", "terminating", "settling", "reclaiming", "recovered"}

\* "lingering": the leader is gone but a member of its group survives.
HelperStates == {"unborn", "blocked", "running", "lingering", "dead"}

Alive(h) == helper[h].st \in {"blocked", "running", "lingering"}

Init ==
    /\ relay = [r \in Relays |-> "off"]
    /\ mutex = FreeRow
    /\ overdue = FALSE
    /\ quarantine = [active |-> FALSE, action |-> None]
    /\ turn = [r \in Relays |-> IdleTurn]
    /\ dog = [r \in Relays |-> IdleDog]
    /\ helper = [h \in Helpers |-> [st |-> "unborn", nonce |-> None, gated |-> FALSE]]
    /\ failures = 0

-----------------------------------------------------------------------------
(* Process inspection.  A probe of a live process always says alive.  A     *)
(* probe of a dead one says alive too when the process table cannot be      *)
(* read: it fails closed.                                                   *)

OwnerAlive(row) == row.owner # None /\ relay[row.owner] = "up"

ExtAlive(row) == row.ext # None /\ Alive(row.ext)

CountFailure(failed) ==
    IF failed THEN failures < MaxProbeFailures /\ failures' = failures + 1
              ELSE UNCHANGED failures

\* readUiLeaseOwner and its two probes, outside any transaction.
Observe(s) ==
    /\ s.row = mutex
    /\ OwnerAlive(mutex) => s.ownerAlive
    /\ ExtAlive(mutex) => s.extAlive
    /\ s.ownerAlive => mutex.owner # None
    /\ s.extAlive => mutex.ext # None
    /\ CountFailure(\/ s.ownerAlive /\ ~OwnerAlive(mutex)
                    \/ s.extAlive /\ ~ExtAlive(mutex))

PossibleSnapshots == [row : {mutex}, ownerAlive : BOOLEAN, extAlive : BOOLEAN]

-----------------------------------------------------------------------------
(* The transaction of acquireUiLease *)

\* A random nonce is in no record the system still holds.
InUse ==
    {mutex.nonce, quarantine.action}
      \cup {turn[r].nonce : r \in Relays} \cup {turn[r].seen.row.nonce : r \in Relays}
      \cup {dog[r].nonce : r \in Relays} \cup {dog[r].seen.row.nonce : r \in Relays}
      \cup {helper[h].nonce : h \in {i \in Helpers : Alive(i)}}

\* Deviation: the recorded helper is not probed.
BusyIgnoresHelper(seen) ==
    mutex # FreeRow /\ (mutex = seen.row => seen.ownerAlive)

\* Deviation: the row is not compared with what was read.
BusyWithoutCompare(seen) ==
    mutex # FreeRow /\ (seen.ownerAlive \/ seen.extAlive)

\* Deviation: a row that crossed mayExecute is never taken over.
BusyOnceExecuting(seen) ==
    /\ mutex # FreeRow
    /\ mutex = seen.row => seen.ownerAlive \/ seen.extAlive \/ mutex.mayExecute

\* The row still is what was read and its processes were read as alive, or
\* another owner is in it now.
Busy(seen) ==
    /\ mutex # FreeRow
    /\ mutex = seen.row => seen.ownerAlive \/ seen.extAlive

Held(prio) == quarantine.active /\ prio = "background"

\* Deviation: the takeover forgets the hold.
ActivateQuarantineForgotten(action) == UNCHANGED quarantine

\* activateUiQuarantine: a hold that is already up is kept as it is.
ActivateQuarantine(action) ==
    quarantine' = IF quarantine.active THEN quarantine
                  ELSE [active |-> TRUE, action |-> action]

AcquireRefused(prio, seen) ==
    /\ Held(prio) \/ Busy(seen)
    /\ UNCHANGED <<mutex, overdue, quarantine>>

\* A dead owner that may have acted is reclaimed into quarantine, which
\* turns a background caller away once the row is clear.
AcquireQuarantines(prio, seen) ==
    /\ prio = "background" /\ ~Held(prio) /\ ~Busy(seen)
    /\ mutex.mayExecute
    /\ mutex' = FreeRow /\ overdue' = FALSE
    /\ ActivateQuarantine(mutex.nonce)

AcquireAssigns(r, prio, seen, n) ==
    /\ ~Held(prio) /\ ~Busy(seen)
    /\ mutex.mayExecute => prio = "interactive"
    /\ n \in Nonces \ InUse
    /\ mutex' = [owner |-> r, nonce |-> n, mayExecute |-> FALSE, ext |-> None]
    /\ overdue' = FALSE
    /\ IF mutex.mayExecute THEN ActivateQuarantine(mutex.nonce) ELSE UNCHANGED quarantine

-----------------------------------------------------------------------------
(* Relays *)

\* Start a relay: it registers before it takes any turn.
Register(r) ==
    /\ relay[r] = "off"
    /\ relay' = [relay EXCEPT ![r] = "up"]
    /\ UNCHANGED <<mutex, overdue, quarantine, turn, dog, helper, failures>>

\* The process dies.  Its row, its helpers and the quarantine stay.
Crash(r) ==
    /\ relay[r] = "up"
    /\ relay' = [relay EXCEPT ![r] = "dead"]
    /\ turn' = [turn EXCEPT ![r] = IdleTurn]
    /\ dog' = [dog EXCEPT ![r] = IdleDog]
    /\ UNCHANGED <<mutex, overdue, quarantine, helper, failures>>

-----------------------------------------------------------------------------
(* A UI turn *)

TurnAt(r, pc) == relay[r] = "up" /\ turn[r].pc = pc

GoTo(r, pc) == turn' = [turn EXCEPT ![r].pc = pc]

\* A caller's turn starts: the unlocked part of acquireUiLease.
TurnObserve(r, prio, gated) ==
    /\ TurnAt(r, "idle")
    /\ \E s \in PossibleSnapshots :
         /\ Observe(s)
         /\ turn' = [turn EXCEPT ![r] = [IdleTurn EXCEPT !.pc = "observed", !.prio = prio,
                                                        !.gated = gated, !.seen = s]]
    /\ UNCHANGED <<relay, mutex, overdue, quarantine, dog, helper>>

\* The transaction of acquireUiLease; a refused caller gives its turn up.
TurnAcquire(r) ==
    /\ TurnAt(r, "observed")
    /\ LET t == turn[r] IN
         \/ /\ \/ AcquireRefused(t.prio, t.seen)
               \/ AcquireQuarantines(t.prio, t.seen)
            /\ turn' = [turn EXCEPT ![r] = IdleTurn]
         \/ \E n \in Nonces :
              /\ AcquireAssigns(r, t.prio, t.seen, n)
              /\ turn' = [turn EXCEPT ![r] = [IdleTurn EXCEPT !.pc = "held", !.prio = t.prio,
                                                             !.gated = t.gated, !.nonce = n]]
    /\ UNCHANGED <<relay, dog, helper, failures>>

OwnRow(r) == mutex.owner = r /\ mutex.nonce = turn[r].nonce

\* An ungated turn is marked mayExecute before its operation; a lost row
\* rejects the turn.
OpenTurn(r) ==
    /\ TurnAt(r, "held") /\ ~turn[r].gated
    /\ IF OwnRow(r)
       THEN GoTo(r, "open") /\ mutex' = [mutex EXCEPT !.mayExecute = TRUE]
       ELSE GoTo(r, "settled") /\ UNCHANGED mutex
    /\ UNCHANGED <<relay, overdue, quarantine, dog, helper, failures>>

Spawn(r, h, st, pc) ==
    /\ helper[h].st = "unborn"
    /\ helper' = [helper EXCEPT ![h] = [st |-> st, nonce |-> turn[r].nonce, gated |-> turn[r].gated]]
    /\ turn' = [turn EXCEPT ![r].pc = pc, ![r].helper = h]

\* An ungated command runs at once; its process is recorded nowhere.
SpawnUngated(r, h) ==
    /\ TurnAt(r, "open")
    /\ Spawn(r, h, "running", "working")
    /\ UNCHANGED <<relay, mutex, overdue, quarantine, dog, failures>>

\* A gated command starts as a wrapper blocked on its private pipe.
SpawnGated(r, h) ==
    /\ TurnAt(r, "held") /\ turn[r].gated
    /\ Spawn(r, h, "blocked", "spawned")
    /\ UNCHANGED <<relay, mutex, overdue, quarantine, dog, failures>>

\* onSpawned: the row takes the wrapper's identity and mayExecute; a lost
\* row rejects the gate and the wrapper is killed.
RecordHelper(r) ==
    /\ TurnAt(r, "spawned")
    /\ IF OwnRow(r)
       THEN /\ mutex' = [mutex EXCEPT !.mayExecute = TRUE, !.ext = turn[r].helper]
            /\ GoTo(r, "recorded")
            /\ UNCHANGED helper
       ELSE /\ helper' = [helper EXCEPT ![turn[r].helper].st = "dead"]
            /\ GoTo(r, "held")
            /\ UNCHANGED mutex
    /\ UNCHANGED <<relay, overdue, quarantine, dog, failures>>

\* Abort, timeout or a rejected registration: the pipe closes and the
\* wrapper is killed before it ran anything.
GateRejected(r) ==
    /\ TurnAt(r, "spawned") \/ TurnAt(r, "recorded")
    /\ helper' = [helper EXCEPT ![turn[r].helper].st = "dead"]
    /\ GoTo(r, "held")
    /\ UNCHANGED <<relay, mutex, overdue, quarantine, dog, failures>>

\* Deviation: GO starts a command although the wrapper was killed meanwhile.
GoRevives(r) ==
    /\ TurnAt(r, "recorded")
    /\ helper' = [helper EXCEPT ![turn[r].helper].st = "running"]
    /\ GoTo(r, "working")
    /\ UNCHANGED <<relay, mutex, overdue, quarantine, dog, failures>>

\* GO crosses the pipe; a wrapper the watchdog killed meanwhile stays dead.
Go(r) ==
    /\ TurnAt(r, "recorded")
    /\ helper' = [helper EXCEPT ![turn[r].helper].st = IF @ = "blocked" THEN "running" ELSE @]
    /\ GoTo(r, "working")
    /\ UNCHANGED <<relay, mutex, overdue, quarantine, dog, failures>>

\* The runner sees its command's process close.
CommandReturns(r) ==
    /\ TurnAt(r, "working")
    /\ helper[turn[r].helper].st \in {"lingering", "dead"}
    /\ turn' = [turn EXCEPT ![r].pc = IF turn[r].gated THEN "held" ELSE "open",
                            ![r].helper = None]
    /\ UNCHANGED <<relay, mutex, overdue, quarantine, dog, helper, failures>>

\* A durable effect without a positive receipt raises the hold itself.
EffectAmbiguous(r) ==
    /\ TurnAt(r, "held") /\ turn[r].gated /\ OwnRow(r) /\ mutex.mayExecute
    /\ ActivateQuarantine(turn[r].nonce)
    /\ GoTo(r, "settled")
    /\ UNCHANGED <<relay, mutex, overdue, dog, helper, failures>>

\* releaseUiLease, once, in the finally of the turn or of the effect.  A row
\* whose external process is read as alive is retained.
ReleaseTurn(r) ==
    /\ TurnAt(r, "held") \/ TurnAt(r, "open") \/ TurnAt(r, "settled")
    /\ \E extAlive \in BOOLEAN :
         /\ OwnRow(r) /\ ExtAlive(mutex) => extAlive
         /\ extAlive => OwnRow(r) /\ mutex.ext # None
         /\ CountFailure(extAlive /\ ~ExtAlive(mutex))
         /\ IF OwnRow(r) /\ ~extAlive
            THEN mutex' = FreeRow /\ overdue' = FALSE
            ELSE UNCHANGED <<mutex, overdue>>
    /\ turn' = [turn EXCEPT ![r] = IdleTurn]
    /\ UNCHANGED <<relay, quarantine, dog, helper>>

-----------------------------------------------------------------------------
(* External processes and time *)

\* A helper's group empties, or its leader goes and members survive it.  A
\* blocked wrapper whose relay died reads end-of-file and exits.
HelperEnds(h) ==
    /\ \/ helper[h].st = "running"
          /\ \E st \in {"lingering", "dead"} : helper' = [helper EXCEPT ![h].st = st]
       \/ helper[h].st = "lingering" /\ helper' = [helper EXCEPT ![h].st = "dead"]
       \/ /\ helper[h].st = "blocked"
          /\ \A r \in Relays : turn[r].helper # h
          /\ helper' = [helper EXCEPT ![h].st = "dead"]
    /\ UNCHANGED <<relay, mutex, overdue, quarantine, turn, dog, failures>>

DeadlinePasses ==
    /\ mutex.owner # None /\ ~overdue
    /\ overdue' = TRUE
    /\ UNCHANGED <<relay, mutex, quarantine, turn, dog, helper, failures>>

\* The phone confirms the hold it was shown, or a positive receipt of the
\* held action arrives.
ClearQuarantine ==
    /\ quarantine.active
    /\ quarantine' = [active |-> FALSE, action |-> None]
    /\ UNCHANGED <<relay, mutex, overdue, turn, dog, helper, failures>>

-----------------------------------------------------------------------------
(* recoverExpiredUiLease, one pass of a relay's watchdog *)

DogAt(r, pc) == relay[r] = "up" /\ dog[r].pc = pc

\* Only passes that go on past the first checks are steps: another live
\* owner is left alone, and so is this relay's own row without a helper.
DogObserve(r) ==
    /\ DogAt(r, "idle") /\ mutex.owner # None /\ overdue
    /\ \E s \in PossibleSnapshots :
         /\ Observe(s)
         /\ ~(s.ownerAlive /\ mutex.owner # r)
         /\ \/ s.extAlive
            \/ ~s.ownerAlive
         /\ dog' = [dog EXCEPT ![r] = IF s.extAlive
                                      THEN [pc |-> "terminating", nonce |-> None, seen |-> s]
                                      ELSE Settling]
    /\ UNCHANGED <<relay, mutex, overdue, quarantine, turn, helper>>

\* terminateRecordedProcessGroup proves the group empty.  It refuses a group
\* whose leader is gone.  The live owner then leaves the row to its turn.
DogTerminates(r) ==
    /\ DogAt(r, "terminating")
    /\ LET h == dog[r].seen.row.ext IN
         /\ helper[h].st # "lingering"
         /\ helper' = [helper EXCEPT ![h].st = "dead"]
    /\ dog' = [dog EXCEPT ![r] = IF @.seen.ownerAlive THEN IdleDog ELSE Settling]
    /\ UNCHANGED <<relay, mutex, overdue, quarantine, turn, failures>>

DogCannotTerminate(r) ==
    /\ DogAt(r, "terminating")
    /\ CountFailure(helper[dog[r].seen.row.ext].st # "lingering")
    /\ dog' = [dog EXCEPT ![r] = IdleDog]
    /\ UNCHANGED <<relay, mutex, overdue, quarantine, turn, helper>>

\* After the settle pause, acquireUiLease reads and probes the row again.
DogReobserve(r) ==
    /\ DogAt(r, "settling")
    /\ \E s \in PossibleSnapshots :
         Observe(s) /\ dog' = [dog EXCEPT ![r] = [pc |-> "reclaiming", nonce |-> None, seen |-> s]]
    /\ UNCHANGED <<relay, mutex, overdue, quarantine, turn, helper>>

\* The recovery lease is interactive and does no UI work.
DogReclaims(r) ==
    /\ DogAt(r, "reclaiming")
    /\ \/ /\ AcquireRefused("interactive", dog[r].seen)
          /\ dog' = [dog EXCEPT ![r] = IdleDog]
       \/ \E n \in Nonces :
            /\ AcquireAssigns(r, "interactive", dog[r].seen, n)
            /\ dog' = [dog EXCEPT ![r] = [IdleDog EXCEPT !.pc = "recovered", !.nonce = n]]
    /\ UNCHANGED <<relay, turn, helper, failures>>

DogReleases(r) ==
    /\ DogAt(r, "recovered")
    /\ IF mutex.owner = r /\ mutex.nonce = dog[r].nonce
       THEN mutex' = FreeRow /\ overdue' = FALSE
       ELSE UNCHANGED <<mutex, overdue>>
    /\ dog' = [dog EXCEPT ![r] = IdleDog]
    /\ UNCHANGED <<relay, quarantine, turn, helper, failures>>

-----------------------------------------------------------------------------
(* Specification *)

TurnStep(r) ==
    \/ TurnAcquire(r) \/ OpenTurn(r) \/ RecordHelper(r) \/ GateRejected(r)
    \/ Go(r) \/ CommandReturns(r) \/ EffectAmbiguous(r) \/ ReleaseTurn(r)
    \/ \E h \in Helpers : SpawnUngated(r, h) \/ SpawnGated(r, h)

DogStep(r) ==
    \/ DogObserve(r) \/ DogTerminates(r) \/ DogCannotTerminate(r)
    \/ DogReobserve(r) \/ DogReclaims(r) \/ DogReleases(r)

Next ==
    \/ \E r \in Relays : Register(r) \/ Crash(r) \/ TurnStep(r) \/ DogStep(r)
    \/ \E r \in Relays, prio \in Priorities, gated \in BOOLEAN : TurnObserve(r, prio, gated)
    \/ \E h \in Helpers : HelperEnds(h)
    \/ DeadlinePasses
    \/ ClearQuarantine

Spec == Init /\ [][Next]_vars

\* A live relay's turn and its watchdog's timer keep running and deadlines
\* pass.  Nothing makes a helper exit, a caller arrive or a person confirm.
Fairness ==
    /\ \A r \in Relays : WF_vars(TurnStep(r)) /\ WF_vars(DogStep(r))
    /\ WF_vars(DeadlinePasses)

FairSpec == Spec /\ Fairness

-----------------------------------------------------------------------------
(* Type invariant *)

TurnRecords == [pc : TurnPcs, prio : Priorities, gated : BOOLEAN,
                nonce : Nonces \cup {None}, helper : Helpers \cup {None}, seen : Snapshots]

DogRecords == [pc : DogPcs, nonce : Nonces \cup {None}, seen : Snapshots]

\* Every variable has its type, and a turn or watchdog that works on a helper
\* names one.
TypeOK ==
    /\ relay \in [Relays -> {"off", "up", "dead"}]
    /\ mutex \in Row
    /\ overdue \in BOOLEAN
    /\ quarantine \in [active : BOOLEAN, action : Nonces \cup {None}]
    /\ turn \in [Relays -> TurnRecords]
    /\ dog \in [Relays -> DogRecords]
    /\ helper \in [Helpers -> [st : HelperStates, nonce : Nonces \cup {None}, gated : BOOLEAN]]
    /\ failures \in 0..MaxProbeFailures

-----------------------------------------------------------------------------
(* Safety *)

\* The lease serialises the window: a gated helper that was told GO and whose
\* leader still runs is the very process the mutex row names, under the
\* acquisition that spawned it, with mayExecute already durable.  Hence two
\* gated helpers never drive the window at once, whatever relays crash,
\* however stale the snapshots acquisitions act on.
GatedHelperIsRecorded ==
    \A h \in Helpers :
        helper[h].gated /\ helper[h].st = "running" =>
            mutex.ext = h /\ mutex.mayExecute /\ mutex.nonce = helper[h].nonce

\* A live relay is never robbed: while its turn or its watchdog holds a
\* lease, the row names that relay and that acquisition.
LiveOwnerKeepsItsRow ==
    \A r \in Relays : relay[r] = "up" =>
        /\ turn[r].pc \in Holding => OwnRow(r)
        /\ dog[r].pc = "recovered" => mutex.owner = r /\ mutex.nonce = dog[r].nonce

\* The row never changes hands while the process group it records has a
\* living member, nor while its owner lives unless the owner gives it up.
HandoverNeedsDeadProcesses ==
    [][mutex.owner # None /\ mutex'.nonce # mutex.nonce =>
         /\ ~ExtAlive(mutex)
         /\ relay[mutex.owner] = "up" => mutex' = FreeRow]_vars

\* A row that crossed mayExecute and is taken from a dead owner leaves the
\* window under a hold in the same transaction.
ReclaimRaisesHold ==
    [][mutex.mayExecute /\ relay[mutex.owner] = "dead" /\ mutex'.nonce # mutex.nonce =>
         quarantine'.active]_vars

-----------------------------------------------------------------------------
(* The abstract specification *)

\* The gated command that drives the window is the running one the row names.
Driver == IF mutex.ext # None /\ helper[mutex.ext].st = "running" THEN mutex.ext ELSE None

Finished == {h \in Helpers : helper[h].gated /\ helper[h].st \in {"lingering", "dead"}}

Window == INSTANCE UiWindow WITH Drivers <- Helpers, driver <- Driver, finished <- Finished

\* The lease with all its crashes, stale snapshots and recovery passes gives
\* gated commands an exclusive window: each begins only when none drives it,
\* and never twice.
ImplementsWindow == Window!Spec

-----------------------------------------------------------------------------
(* Liveness *)

HeldByDead(n) == mutex.nonce = n /\ relay[mutex.owner] = "dead"

\* A lease whose relay died is taken over as long as some relay runs, unless
\* a member of the recorded group outlives its leader: nobody may signal
\* that group, so the row waits for it.
DeadOwnerIsReclaimed ==
    \A n \in Nonces :
        HeldByDead(n) ~> \/ mutex.nonce # n
                         \/ \A r \in Relays : relay[r] # "up"
                         \/ mutex.ext # None /\ helper[mutex.ext].st = "lingering"

\* "The live owning relay will observe its helper's exit, reconcile the
\* effect, and release its own nonce": a live relay's row whose helper is
\* gone does not stay for ever.
LiveOwnerReleases ==
    \A n \in Nonces :
        (/\ mutex.nonce = n /\ mutex.ext # None /\ ~ExtAlive(mutex)
         /\ relay[mutex.owner] = "up") ~> (mutex.nonce # n \/ relay[mutex.owner] # "up")

=============================================================================
