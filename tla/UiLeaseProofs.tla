---------------------------- MODULE UiLeaseProofs ----------------------------
(* Theorems about UiLease, for every number of relays, acquisitions and     *)
(* helpers.                                                                *)
EXTENDS UiLease, TLAPS

\* The types of the records an action builds.
LEMMA InitialRecords ==
    /\ FreeRow \in Row
    /\ NoSnapshot \in Snapshots
    /\ IdleTurn \in TurnRecords
    /\ IdleDog \in DogRecords
    /\ Settling \in DogRecords
<1>1. FreeRow \in Row  BY DEF FreeRow, Row
<1>2. NoSnapshot \in Snapshots  BY <1>1 DEF NoSnapshot, Snapshots
<1>3. IdleTurn \in TurnRecords
  BY <1>2 DEF IdleTurn, TurnRecords, TurnPcs, Priorities
<1>4. IdleDog \in DogRecords  BY <1>2 DEF IdleDog, DogRecords, DogPcs
<1>5. Settling \in DogRecords
  BY <1>4 DEF Settling, DogRecords, DogPcs
<1> QED  BY <1>1, <1>2, <1>3, <1>4, <1>5

LEMMA ObserveType ==
    ASSUME TypeOK, NEW s \in PossibleSnapshots, Observe(s)
    PROVE  s \in Snapshots /\ failures' \in 0..MaxProbeFailures
BY ConstantsAssumption DEF TypeOK, PossibleSnapshots, Snapshots, Observe, CountFailure

LEMMA RefusedType ==
    ASSUME TypeOK, NEW prio, NEW seen, AcquireRefused(prio, seen)
    PROVE  mutex' \in Row /\ overdue' \in BOOLEAN
           /\ quarantine' \in [active : BOOLEAN, action : Nonces \cup {None}]
BY DEF TypeOK, AcquireRefused

LEMMA QuarantinesType ==
    ASSUME TypeOK, NEW prio, NEW seen, AcquireQuarantines(prio, seen)
    PROVE  mutex' \in Row /\ overdue' \in BOOLEAN
           /\ quarantine' \in [active : BOOLEAN, action : Nonces \cup {None}]
BY InitialRecords DEF TypeOK, AcquireQuarantines, ActivateQuarantine, Row

LEMMA AssignsType ==
    ASSUME TypeOK, NEW r \in Relays, NEW prio, NEW seen, NEW n \in Nonces,
           AcquireAssigns(r, prio, seen, n)
    PROVE  mutex' \in Row /\ overdue' \in BOOLEAN
           /\ quarantine' \in [active : BOOLEAN, action : Nonces \cup {None}]
<1>1. mutex' \in Row /\ overdue' \in BOOLEAN  BY DEF AcquireAssigns, Row
<1>2. mutex.nonce \in Nonces \cup {None}  BY DEF TypeOK, Row
<1>3. \/ quarantine' = quarantine
      \/ quarantine' = [active |-> TRUE, action |-> mutex.nonce]
  BY DEF AcquireAssigns, ActivateQuarantine
<1>4. quarantine \in [active : BOOLEAN, action : Nonces \cup {None}]  BY DEF TypeOK
<1>5. quarantine' \in [active : BOOLEAN, action : Nonces \cup {None}]
  <2>1. CASE quarantine' = quarantine  BY <1>4, <2>1
  <2>2. CASE quarantine' = [active |-> TRUE, action |-> mutex.nonce]  BY <1>2, <2>2
  <2> QED  BY <1>3, <2>1, <2>2
<1> QED  BY <1>1, <1>5

LEMMA GoToType ==
    ASSUME turn \in [Relays -> TurnRecords], NEW r \in Relays, NEW pc \in TurnPcs, GoTo(r, pc)
    PROVE  turn' \in [Relays -> TurnRecords]
BY DEF GoTo, TurnRecords

LEMMA KillType ==
    ASSUME helper \in [Helpers -> [st : HelperStates, nonce : Nonces \cup {None}, gated : BOOLEAN]],
           NEW h, NEW st \in HelperStates, helper' = [helper EXCEPT ![h].st = st]
    PROVE  helper' \in [Helpers -> [st : HelperStates, nonce : Nonces \cup {None}, gated : BOOLEAN]]
OBVIOUS

-----------------------------------------------------------------------------
(* Type correctness is inductive *)

LEMMA TypeInductive == TypeOK /\ [Next]_vars => TypeOK'
<1> SUFFICES ASSUME TypeOK, [Next]_vars PROVE TypeOK'
  OBVIOUS
<1> USE InitialRecords, ConstantsAssumption
<1>1. ASSUME NEW r \in Relays, Register(r) PROVE TypeOK'
  BY <1>1 DEF TypeOK, Register
<1>2. ASSUME NEW r \in Relays, Crash(r) PROVE TypeOK'
  BY <1>2 DEF TypeOK, Crash
<1>3. ASSUME NEW r \in Relays, NEW prio \in Priorities, NEW gated \in BOOLEAN,
             TurnObserve(r, prio, gated)
      PROVE TypeOK'
  <2> PICK s \in PossibleSnapshots :
        /\ Observe(s)
        /\ turn' = [turn EXCEPT ![r] = [IdleTurn EXCEPT !.pc = "observed", !.prio = prio,
                                                       !.gated = gated, !.seen = s]]
    BY <1>3 DEF TurnObserve
  <2>1. s \in Snapshots /\ failures' \in 0..MaxProbeFailures  BY ObserveType
  <2>2. [IdleTurn EXCEPT !.pc = "observed", !.prio = prio, !.gated = gated, !.seen = s] \in TurnRecords
    BY <2>1 DEF IdleTurn, TurnRecords, TurnPcs, Priorities
  <2> QED  BY <1>3, <2>1, <2>2 DEF TypeOK, TurnObserve
<1>4. ASSUME NEW r \in Relays, TurnAcquire(r) PROVE TypeOK'
  <2> DEFINE t == turn[r]
  <2> t \in TurnRecords  BY DEF TypeOK
  <2>1. CASE /\ AcquireRefused(t.prio, t.seen) \/ AcquireQuarantines(t.prio, t.seen)
             /\ turn' = [turn EXCEPT ![r] = IdleTurn]
    BY <1>4, <2>1, RefusedType, QuarantinesType DEF TypeOK, TurnAcquire
  <2>2. ASSUME NEW n \in Nonces, AcquireAssigns(r, t.prio, t.seen, n),
               turn' = [turn EXCEPT ![r] = [IdleTurn EXCEPT !.pc = "held", !.prio = t.prio,
                                                           !.gated = t.gated, !.nonce = n]]
        PROVE TypeOK'
    <3>1. [IdleTurn EXCEPT !.pc = "held", !.prio = t.prio, !.gated = t.gated, !.nonce = n] \in TurnRecords
      BY DEF IdleTurn, TurnRecords, TurnPcs
    <3> HIDE DEF t
    <3> QED  BY <1>4, <2>2, <3>1, AssignsType DEF TypeOK, TurnAcquire
  <2> QED  BY <1>4, <2>1, <2>2 DEF TurnAcquire
<1>5. ASSUME NEW r \in Relays, OpenTurn(r) PROVE TypeOK'
  <2>1. turn' \in [Relays -> TurnRecords]
    BY <1>5, GoToType DEF TypeOK, OpenTurn, TurnPcs
  <2>2. mutex' \in Row
    <3>1. mutex \in Row  BY DEF TypeOK
    <3>2. [mutex EXCEPT !.mayExecute = TRUE] \in Row  BY <3>1 DEF Row
    <3>3. mutex' = mutex \/ mutex' = [mutex EXCEPT !.mayExecute = TRUE]
      BY <1>5 DEF OpenTurn, GoTo
    <3> QED  BY <3>1, <3>2, <3>3
  <2> QED  BY <1>5, <2>1, <2>2 DEF TypeOK, OpenTurn
<1>6. ASSUME NEW r \in Relays, NEW h \in Helpers, SpawnUngated(r, h) \/ SpawnGated(r, h) PROVE TypeOK'
  <2> PICK st \in {"running", "blocked"}, pc \in {"working", "spawned"} : Spawn(r, h, st, pc)
    BY <1>6 DEF SpawnUngated, SpawnGated
  <2>1. turn' \in [Relays -> TurnRecords]
    BY DEF TypeOK, Spawn, TurnRecords, TurnPcs
  <2>2. helper' \in [Helpers -> [st : HelperStates, nonce : Nonces \cup {None}, gated : BOOLEAN]]
    BY DEF TypeOK, Spawn, HelperStates, TurnRecords
  <2> QED  BY <1>6, <2>1, <2>2 DEF TypeOK, SpawnUngated, SpawnGated
<1>7. ASSUME NEW r \in Relays, RecordHelper(r) PROVE TypeOK'
  <2>1. turn' \in [Relays -> TurnRecords]
    BY <1>7, GoToType DEF TypeOK, RecordHelper, TurnPcs
  <2>2. mutex' \in Row  
    <3>1. turn[r].helper \in Helpers \cup {None}  BY DEF TypeOK, TurnRecords
    <3>2. mutex' = mutex \/ mutex' = [mutex EXCEPT !.mayExecute = TRUE, !.ext = turn[r].helper]
      BY <1>7 DEF RecordHelper, GoTo
    <3>3. mutex \in Row  BY DEF TypeOK
    <3>4. [mutex EXCEPT !.mayExecute = TRUE, !.ext = turn[r].helper] \in Row  BY <3>1, <3>3 DEF Row
    <3> QED  BY <3>2, <3>3, <3>4
  <2>3. helper' \in [Helpers -> [st : HelperStates, nonce : Nonces \cup {None}, gated : BOOLEAN]]
    BY <1>7, KillType DEF TypeOK, RecordHelper, HelperStates
  <2> QED  BY <1>7, <2>1, <2>2, <2>3 DEF TypeOK, RecordHelper
<1>8. ASSUME NEW r \in Relays, GateRejected(r) PROVE TypeOK'
  <2>1. turn' \in [Relays -> TurnRecords]
    BY <1>8, GoToType DEF TypeOK, GateRejected, TurnPcs
  <2>2. helper' \in [Helpers -> [st : HelperStates, nonce : Nonces \cup {None}, gated : BOOLEAN]]
    BY <1>8, KillType DEF TypeOK, GateRejected, HelperStates
  <2> QED  BY <1>8, <2>1, <2>2 DEF TypeOK, GateRejected
<1>9. ASSUME NEW r \in Relays, Go(r) PROVE TypeOK'
  <2>1. turn' \in [Relays -> TurnRecords]
    BY <1>9, GoToType DEF TypeOK, Go, TurnPcs
  <2>2. helper' \in [Helpers -> [st : HelperStates, nonce : Nonces \cup {None}, gated : BOOLEAN]]
    <3>1. PICK st \in HelperStates : helper' = [helper EXCEPT ![turn[r].helper].st = st]
      <4>1. CASE turn[r].helper \in Helpers
        BY <1>9, <4>1 DEF TypeOK, Go, HelperStates
      <4>2. CASE turn[r].helper \notin Helpers
        <5>1. \A v : [helper EXCEPT ![turn[r].helper] = v] = helper  BY <4>2 DEF TypeOK
        <5>2. helper' = helper  BY <1>9, <5>1 DEF Go
        <5>3. helper' = [helper EXCEPT ![turn[r].helper].st = "dead"]  BY <5>1, <5>2
        <5> QED  BY <5>3 DEF HelperStates
      <4> QED  BY <4>1, <4>2
    <3> QED  BY <3>1, KillType DEF TypeOK
  <2> QED  BY <1>9, <2>1, <2>2 DEF TypeOK, Go
<1>10. ASSUME NEW r \in Relays, CommandReturns(r) PROVE TypeOK'
  BY <1>10 DEF TypeOK, CommandReturns, TurnRecords, TurnPcs
<1>11. ASSUME NEW r \in Relays, EffectAmbiguous(r) PROVE TypeOK'
  <2>1. turn' \in [Relays -> TurnRecords]
    BY <1>11, GoToType DEF TypeOK, EffectAmbiguous, TurnPcs
  <2>2. quarantine' \in [active : BOOLEAN, action : Nonces \cup {None}]
    BY <1>11 DEF TypeOK, EffectAmbiguous, ActivateQuarantine, TurnRecords
  <2> QED  BY <1>11, <2>1, <2>2 DEF TypeOK, EffectAmbiguous
<1>12. ASSUME NEW r \in Relays, ReleaseTurn(r) PROVE TypeOK'
  <2> PICK extAlive \in BOOLEAN :
        /\ CountFailure(extAlive /\ ~ExtAlive(mutex))
        /\ IF OwnRow(r) /\ ~extAlive
           THEN mutex' = FreeRow /\ overdue' = FALSE
           ELSE UNCHANGED <<mutex, overdue>>
    BY <1>12 DEF ReleaseTurn
  <2>1. failures' \in 0..MaxProbeFailures  BY DEF TypeOK, CountFailure
  <2>2. mutex' \in Row /\ overdue' \in BOOLEAN  BY DEF TypeOK
  <2> QED  BY <1>12, <2>1, <2>2 DEF TypeOK, ReleaseTurn
<1>13. ASSUME NEW h \in Helpers, HelperEnds(h) PROVE TypeOK'
  <2>1. helper' \in [Helpers -> [st : HelperStates, nonce : Nonces \cup {None}, gated : BOOLEAN]]
    BY <1>13, KillType DEF TypeOK, HelperEnds, HelperStates
  <2> QED  BY <1>13, <2>1 DEF TypeOK, HelperEnds
<1>14. ASSUME DeadlinePasses \/ ClearQuarantine PROVE TypeOK'
  <2>1. CASE DeadlinePasses  BY <2>1 DEF TypeOK, DeadlinePasses
  <2>2. CASE ClearQuarantine  BY <2>2 DEF TypeOK, ClearQuarantine
  <2> QED  BY <1>14, <2>1, <2>2
<1>15. ASSUME NEW r \in Relays, DogObserve(r) PROVE TypeOK'
  <2> PICK s \in PossibleSnapshots :
        /\ Observe(s)
        /\ dog' = [dog EXCEPT ![r] = IF s.extAlive
                                     THEN [pc |-> "terminating", nonce |-> None, seen |-> s]
                                     ELSE Settling]
    BY <1>15 DEF DogObserve
  <2>1. s \in Snapshots /\ failures' \in 0..MaxProbeFailures  BY ObserveType
  <2>2. [pc |-> "terminating", nonce |-> None, seen |-> s] \in DogRecords
    BY <2>1 DEF DogRecords, DogPcs
  <2>3. dog' \in [Relays -> DogRecords]  BY <2>2 DEF TypeOK
  <2> QED  BY <1>15, <2>1, <2>3 DEF TypeOK, DogObserve
<1>16. ASSUME NEW r \in Relays, DogTerminates(r) PROVE TypeOK'
  <2>1. helper' \in [Helpers -> [st : HelperStates, nonce : Nonces \cup {None}, gated : BOOLEAN]]
    BY <1>16, KillType DEF TypeOK, DogTerminates, HelperStates
  <2>2. dog' \in [Relays -> DogRecords]  BY <1>16 DEF TypeOK, DogTerminates
  <2> QED  BY <1>16, <2>1, <2>2 DEF TypeOK, DogTerminates
<1>17. ASSUME NEW r \in Relays, DogCannotTerminate(r) PROVE TypeOK'
  <2>1. failures' \in 0..MaxProbeFailures  BY <1>17 DEF TypeOK, DogCannotTerminate, CountFailure
  <2> QED  BY <1>17, <2>1 DEF TypeOK, DogCannotTerminate
<1>18. ASSUME NEW r \in Relays, DogReobserve(r) PROVE TypeOK'
  <2> PICK s \in PossibleSnapshots :
        Observe(s) /\ dog' = [dog EXCEPT ![r] = [pc |-> "reclaiming", nonce |-> None, seen |-> s]]
    BY <1>18 DEF DogReobserve
  <2>1. s \in Snapshots /\ failures' \in 0..MaxProbeFailures  BY ObserveType
  <2>2. [pc |-> "reclaiming", nonce |-> None, seen |-> s] \in DogRecords
    BY <2>1 DEF DogRecords, DogPcs
  <2> QED  BY <1>18, <2>1, <2>2 DEF TypeOK, DogReobserve
<1>19. ASSUME NEW r \in Relays, DogReclaims(r) PROVE TypeOK'
  <2>1. CASE /\ AcquireRefused("interactive", dog[r].seen)
             /\ dog' = [dog EXCEPT ![r] = IdleDog]
    BY <1>19, <2>1, RefusedType DEF TypeOK, DogReclaims
  <2>2. ASSUME NEW n \in Nonces, AcquireAssigns(r, "interactive", dog[r].seen, n),
               dog' = [dog EXCEPT ![r] = [IdleDog EXCEPT !.pc = "recovered", !.nonce = n]]
        PROVE TypeOK'
    <3>1. [IdleDog EXCEPT !.pc = "recovered", !.nonce = n] \in DogRecords
      BY DEF IdleDog, DogRecords, DogPcs
    <3> QED  BY <1>19, <2>2, <3>1, AssignsType DEF TypeOK, DogReclaims
  <2> QED  BY <1>19, <2>1, <2>2 DEF DogReclaims
<1>20. ASSUME NEW r \in Relays, DogReleases(r) PROVE TypeOK'
  BY <1>20 DEF TypeOK, DogReleases
<1>21. CASE UNCHANGED vars
  BY <1>21 DEF TypeOK, vars
<1> QED
  BY <1>1, <1>2, <1>3, <1>4, <1>5, <1>6, <1>7, <1>8, <1>9, <1>10, <1>11, <1>12, <1>13, <1>14,
     <1>15, <1>16, <1>17, <1>18, <1>19, <1>20, <1>21 DEF Next, TurnStep, DogStep

LEMMA InitType == Init => TypeOK
<1> SUFFICES ASSUME Init PROVE TypeOK
  OBVIOUS
<1>1. helper \in [Helpers -> [st : HelperStates, nonce : Nonces \cup {None}, gated : BOOLEAN]]
  BY DEF Init, HelperStates
<1>2. failures \in 0..MaxProbeFailures  BY ConstantsAssumption DEF Init
<1> QED  BY <1>1, <1>2, InitialRecords DEF Init, TypeOK

\* Every reachable state of the lease is well typed.
THEOREM TypeCorrect == Spec => []TypeOK
BY InitType, TypeInductive, PTL DEF Spec

-----------------------------------------------------------------------------
(* The inductive invariant *)

GatedRunning(h) == helper[h].gated /\ helper[h].st = "running"

\* A free row is empty; an owner is a relay that started; the recorded
\* process is a gated one that exists.
RowShape ==
    /\ mutex.owner = None => mutex = FreeRow
    /\ mutex.owner # None => mutex.nonce # None /\ relay[mutex.owner] \in {"up", "dead"}
    /\ mutex.ext # None => helper[mutex.ext].gated /\ helper[mutex.ext].st # "unborn"

\* Only a live relay is inside a turn or a recovery pass, and no two of them
\* hold a lease.
ActorsLive ==
    /\ \A r \in Relays : turn[r].pc # "idle" \/ dog[r].pc # "idle" => relay[r] = "up"
    /\ \A r1, r2 \in Relays : ~(turn[r1].pc \in Holding /\ dog[r2].pc = "recovered")

\* What a snapshot read as dead stays dead, however old the snapshot is.
SoundSnapshot(s) ==
    /\ s.row.owner # None /\ ~s.ownerAlive => relay[s.row.owner] = "dead"
    /\ s.row.ext # None /\ ~s.extAlive => helper[s.row.ext].st = "dead"
    /\ s.row.ext # None => helper[s.row.ext].gated /\ helper[s.row.ext].st # "unborn"
    /\ s.extAlive => s.row.ext # None

SnapshotsSound == \A r \in Relays : SoundSnapshot(turn[r].seen) /\ SoundSnapshot(dog[r].seen)

\* Where a turn stands with its helper.
TurnShape ==
    \A r \in Relays :
        LET t == turn[r] IN
        /\ t.pc \in {"spawned", "recorded", "working"} =>
             t.helper # None /\ helper[t.helper].gated = t.gated /\ helper[t.helper].nonce = t.nonce
        /\ t.pc \in {"spawned", "recorded"} => t.gated /\ helper[t.helper].st \in {"blocked", "dead"}
        /\ t.pc = "recorded" \/ (t.pc = "working" /\ t.gated) => mutex.ext = t.helper /\ mutex.mayExecute
        /\ t.pc = "working" => helper[t.helper].st \in {"running", "lingering", "dead"}
        /\ t.pc = "open" => ~t.gated

\* A watchdog terminates what it saw alive; its own lease has no helper.
DogShape ==
    \A r \in Relays :
        /\ dog[r].pc = "terminating" => dog[r].seen.extAlive
        /\ dog[r].pc = "recovered" => mutex.ext = None

\* Between two commands, and while a recovery pass holds the lease, no gated
\* helper runs.
QuietHolders ==
    /\ \A r \in Relays : turn[r].pc \in Holding /\ ~(turn[r].pc = "working" /\ turn[r].gated) =>
           \A h \in Helpers : ~GatedRunning(h)
    /\ \A r \in Relays : dog[r].pc = "recovered" => \A h \in Helpers : ~GatedRunning(h)

IInv ==
    /\ TypeOK /\ RowShape /\ ActorsLive /\ SnapshotsSound /\ TurnShape /\ DogShape
    /\ QuietHolders /\ LiveOwnerKeepsItsRow /\ GatedHelperIsRecorded

\* The facts an acquisition acts on: whoever was in the row is dead, with its
\* recorded process; nobody alive holds the lease and no gated helper runs.
Takeable ==
    /\ \/ mutex = FreeRow
       \/ /\ mutex.owner # None /\ relay[mutex.owner] = "dead"
          /\ mutex.ext # None => helper[mutex.ext].st = "dead"
    /\ \A r \in Relays : turn[r].pc \notin Holding /\ dog[r].pc # "recovered"
    /\ \A h \in Helpers : ~GatedRunning(h)

LEMMA NotBusyIsTakeable ==
    ASSUME IInv, NEW seen \in Snapshots, SoundSnapshot(seen), ~Busy(seen)
    PROVE  Takeable
<1>1. \/ mutex = FreeRow
      \/ /\ mutex.owner # None /\ relay[mutex.owner] = "dead"
         /\ mutex.ext # None => helper[mutex.ext].st = "dead"
  <2>1. CASE mutex = FreeRow  BY <2>1
  <2>2. CASE mutex # FreeRow
    <3>1. mutex = seen.row /\ ~seen.ownerAlive /\ ~seen.extAlive
      BY <2>2 DEF Busy, Snapshots
    <3>2. mutex.owner # None  BY <2>2 DEF IInv, RowShape
    <3> QED  BY <3>1, <3>2 DEF SoundSnapshot
  <2> QED  BY <2>1, <2>2
<1>2. ASSUME NEW r \in Relays PROVE turn[r].pc \notin Holding /\ dog[r].pc # "recovered"
  <2>1. SUFFICES ASSUME turn[r].pc \in Holding \/ dog[r].pc = "recovered" PROVE FALSE
    OBVIOUS
  <2>2. relay[r] = "up"  BY <2>1 DEF IInv, ActorsLive, Holding
  <2>3. mutex.owner = r  BY <2>1, <2>2 DEF IInv, LiveOwnerKeepsItsRow, OwnRow
  <2> QED  BY <1>1, <2>2, <2>3, ConstantsAssumption DEF FreeRow
<1>3. ASSUME NEW h \in Helpers, GatedRunning(h) PROVE FALSE
  <2>1. mutex.ext = h /\ helper[h].st = "running"
    BY <1>3 DEF IInv, GatedHelperIsRecorded, GatedRunning
  <2> QED  BY <1>1, <2>1, ConstantsAssumption DEF FreeRow
<1> QED  BY <1>1, <1>2, <1>3 DEF Takeable

LEMMA ObservedIsSound ==
    ASSUME IInv, NEW s \in PossibleSnapshots, Observe(s)
    PROVE  SoundSnapshot(s)
<1>1. s.row = mutex /\ s.ownerAlive \in BOOLEAN /\ s.extAlive \in BOOLEAN
  BY DEF PossibleSnapshots
<1>2. ASSUME mutex.owner # None, ~s.ownerAlive PROVE relay[mutex.owner] = "dead"
  BY <1>2 DEF Observe, OwnerAlive, IInv, RowShape
<1>3. ASSUME mutex.ext # None, ~s.extAlive PROVE helper[mutex.ext].st = "dead"
  <2>1. mutex.ext \in Helpers  BY <1>3 DEF IInv, TypeOK, Row
  <2> QED  BY <1>3, <2>1 DEF Observe, ExtAlive, Alive, IInv, RowShape, TypeOK, HelperStates
<1> QED  BY <1>1, <1>2, <1>3 DEF SoundSnapshot, Observe, IInv, RowShape

-----------------------------------------------------------------------------
(* The invariant is inductive: one lemma per kind of step *)

LEMMA RegisterKeepsInv ==
    ASSUME IInv, TypeOK', NEW r \in Relays, Register(r)
    PROVE  IInv'
<1>1. /\ UNCHANGED <<mutex, turn, dog, helper>>
      /\ relay[r] = "off" /\ relay'[r] = "up"
      /\ \A q \in Relays : q # r => relay'[q] = relay[q]
  BY DEF Register, IInv, TypeOK
<1>2. mutex.owner \in Relays \cup {None}  BY DEF IInv, TypeOK, Row
<1>3. RowShape'  BY <1>1, <1>2 DEF IInv, RowShape
<1>4. ActorsLive'  BY <1>1 DEF IInv, ActorsLive
<1>5. SnapshotsSound'
  <2>1. ASSUME NEW q \in Relays PROVE SoundSnapshot(turn[q].seen)' /\ SoundSnapshot(dog[q].seen)'
    <3>1. turn[q].seen \in Snapshots /\ dog[q].seen \in Snapshots
      BY DEF IInv, TypeOK, TurnRecords, DogRecords
    <3>2. SoundSnapshot(turn[q].seen)' BY <1>1, <3>1 DEF IInv, SnapshotsSound, SoundSnapshot, Snapshots, Row
    <3>3. SoundSnapshot(dog[q].seen)' BY <1>1, <3>1 DEF IInv, SnapshotsSound, SoundSnapshot, Snapshots, Row
    <3> QED  BY <3>2, <3>3
  <2> QED  BY <2>1 DEF SnapshotsSound
<1>6. TurnShape' /\ DogShape' /\ QuietHolders' /\ GatedHelperIsRecorded'
  BY <1>1 DEF IInv, TurnShape, DogShape, QuietHolders, GatedHelperIsRecorded, GatedRunning
<1>7. LiveOwnerKeepsItsRow'
  <2>1. turn[r].pc = "idle" /\ dog[r].pc = "idle"  BY <1>1 DEF IInv, ActorsLive
  <2> QED  BY <1>1, <2>1 DEF IInv, LiveOwnerKeepsItsRow, OwnRow, Holding
<1> QED  BY <1>3, <1>4, <1>5, <1>6, <1>7 DEF IInv

\* The snapshots of a step that takes none, or drops some.
LEMMA SnapshotsKept ==
    ASSUME IInv,
           \A q \in Relays : relay[q] = "dead" => relay'[q] = "dead",
           \A h \in Helpers : helper[h].st # "unborn" =>
               /\ helper'[h].gated = helper[h].gated /\ helper'[h].st # "unborn"
               /\ helper[h].st = "dead" => helper'[h].st = "dead",
           \A q \in Relays : /\ turn'[q].seen \in {turn[q].seen, NoSnapshot}
                             /\ dog'[q].seen \in {dog[q].seen, NoSnapshot}
    PROVE  SnapshotsSound'
<1>1. ASSUME NEW q \in Relays PROVE SoundSnapshot(turn[q].seen)'
  <2>1. turn[q].seen \in Snapshots  BY DEF IInv, TypeOK, TurnRecords
  <2>2. SoundSnapshot(turn[q].seen)  BY DEF IInv, SnapshotsSound
  <2>3. CASE turn'[q].seen = turn[q].seen
    BY <2>1, <2>2, <2>3 DEF SoundSnapshot, Snapshots, Row
  <2>4. CASE turn'[q].seen = NoSnapshot
    BY <2>4 DEF SoundSnapshot, NoSnapshot, FreeRow
  <2> QED  BY <2>3, <2>4
<1>2. ASSUME NEW q \in Relays PROVE SoundSnapshot(dog[q].seen)'
  <2>1. dog[q].seen \in Snapshots  BY DEF IInv, TypeOK, DogRecords
  <2>2. SoundSnapshot(dog[q].seen)  BY DEF IInv, SnapshotsSound
  <2>3. CASE dog'[q].seen = dog[q].seen
    BY <2>1, <2>2, <2>3 DEF SoundSnapshot, Snapshots, Row
  <2>4. CASE dog'[q].seen = NoSnapshot
    BY <2>4 DEF SoundSnapshot, NoSnapshot, FreeRow
  <2> QED  BY <2>3, <2>4
<1> QED  BY <1>1, <1>2 DEF SnapshotsSound

LEMMA CrashKeepsInv ==
    ASSUME IInv, TypeOK', NEW r \in Relays, Crash(r)
    PROVE  IInv'
<1>1. /\ UNCHANGED <<mutex, helper>>
      /\ relay[r] = "up" /\ relay'[r] = "dead"
      /\ turn'[r] = IdleTurn /\ dog'[r] = IdleDog
      /\ \A q \in Relays : q # r => relay'[q] = relay[q] /\ turn'[q] = turn[q] /\ dog'[q] = dog[q]
  BY DEF Crash, IInv, TypeOK
<1>2. /\ IdleTurn.pc = "idle" /\ IdleTurn.seen = NoSnapshot
      /\ IdleDog.pc = "idle" /\ IdleDog.seen = NoSnapshot /\ "idle" \notin Holding
  BY DEF IdleTurn, IdleDog, Holding
<1>3. RowShape'  BY <1>1 DEF IInv, RowShape, TypeOK, Row
<1>4. ActorsLive'  BY <1>1, <1>2 DEF IInv, ActorsLive
<1>5. SnapshotsSound'  BY <1>1, <1>2, SnapshotsKept
<1>6. TurnShape'  BY <1>1, <1>2 DEF IInv, TurnShape
<1>7. DogShape' /\ QuietHolders' /\ GatedHelperIsRecorded' /\ LiveOwnerKeepsItsRow'
  BY <1>1, <1>2 DEF IInv, DogShape, QuietHolders, GatedHelperIsRecorded, GatedRunning,
     LiveOwnerKeepsItsRow, OwnRow
<1> QED  BY <1>3, <1>4, <1>5, <1>6, <1>7 DEF IInv

LEMMA TurnObserveKeepsInv ==
    ASSUME IInv, TypeOK', NEW r \in Relays, NEW prio \in Priorities, NEW gated \in BOOLEAN,
           TurnObserve(r, prio, gated)
    PROVE  IInv'
<1> PICK s \in PossibleSnapshots :
      /\ Observe(s)
      /\ turn' = [turn EXCEPT ![r] = [IdleTurn EXCEPT !.pc = "observed", !.prio = prio,
                                                     !.gated = gated, !.seen = s]]
  BY DEF TurnObserve
<1>1. /\ UNCHANGED <<relay, mutex, helper, dog>>
      /\ relay[r] = "up" /\ turn'[r].pc = "observed" /\ turn'[r].seen = s
      /\ \A q \in Relays : q # r => turn'[q] = turn[q]
  BY DEF TurnObserve, TurnAt, IInv, TypeOK, IdleTurn
<1>2. "observed" \notin Holding  BY DEF Holding
<1>3. RowShape'  BY <1>1 DEF IInv, RowShape
<1>4. ActorsLive'  BY <1>1, <1>2 DEF IInv, ActorsLive
<1>5. SnapshotsSound'
  <2>1. SoundSnapshot(s)  BY ObservedIsSound
  <2>2. ASSUME NEW q \in Relays PROVE SoundSnapshot(turn[q].seen)' /\ SoundSnapshot(dog[q].seen)'
    <3>1. CASE q = r  BY <1>1, <2>1, <3>1 DEF IInv, SnapshotsSound, SoundSnapshot
    <3>2. CASE q # r  BY <1>1, <3>2 DEF IInv, SnapshotsSound, SoundSnapshot
    <3> QED  BY <3>1, <3>2
  <2> QED  BY <2>2 DEF SnapshotsSound
<1>6. TurnShape'  BY <1>1, <1>2 DEF IInv, TurnShape
<1>7. DogShape' /\ QuietHolders' /\ GatedHelperIsRecorded' /\ LiveOwnerKeepsItsRow'
  BY <1>1, <1>2 DEF IInv, DogShape, QuietHolders, GatedHelperIsRecorded, GatedRunning,
     LiveOwnerKeepsItsRow, OwnRow
<1> QED  BY <1>3, <1>4, <1>5, <1>6, <1>7 DEF IInv

\* The row leaves the dead owner (or was free) and nobody else holds it.
LEMMA TurnAcquireKeepsInv ==
    ASSUME IInv, TypeOK', NEW r \in Relays, TurnAcquire(r)
    PROVE  IInv'
<1> DEFINE t == turn[r]
<1>1. relay[r] = "up" /\ t.seen \in Snapshots /\ SoundSnapshot(t.seen) /\ UNCHANGED <<relay, helper, dog>>
  BY DEF TurnAcquire, TurnAt, IInv, TypeOK, TurnRecords, SnapshotsSound
<1>2. /\ IdleTurn.pc = "idle" /\ IdleTurn.seen = NoSnapshot
      /\ "idle" \notin Holding /\ "held" \in Holding
  BY DEF IdleTurn, Holding, TurnPcs
<1>3. ASSUME AcquireRefused(t.prio, t.seen) \/ AcquireQuarantines(t.prio, t.seen),
             turn' = [turn EXCEPT ![r] = IdleTurn]
      PROVE  IInv'
  <2>1. turn'[r] = IdleTurn /\ \A q \in Relays : q # r => turn'[q] = turn[q]
    BY <1>3 DEF IInv, TypeOK
  <2>2. \/ mutex' = mutex
        \/ Takeable /\ mutex' = FreeRow
    BY <1>1, <1>3, NotBusyIsTakeable DEF AcquireRefused, AcquireQuarantines
  <2>3. RowShape'  BY <1>1, <2>2 DEF IInv, RowShape, FreeRow
  <2>4. ActorsLive'  BY <1>1, <1>2, <2>1 DEF IInv, ActorsLive
  <2>5. SnapshotsSound'  BY <1>1, <1>2, <2>1, SnapshotsKept
  <2>6. TurnShape'
    BY <1>1, <1>2, <2>1, <2>2 DEF IInv, TurnShape, Takeable, Holding, TurnPcs
  <2>7. DogShape'  BY <1>1, <2>2 DEF IInv, DogShape, Takeable, FreeRow
  <2>7a. QuietHolders'
    BY <1>1, <1>2, <2>1 DEF IInv, QuietHolders, GatedRunning
  <2>8. GatedHelperIsRecorded' /\ LiveOwnerKeepsItsRow'
    BY <1>1, <1>2, <2>1, <2>2 DEF IInv, GatedHelperIsRecorded, GatedRunning,
       LiveOwnerKeepsItsRow, OwnRow, Takeable
  <2> QED  BY <2>3, <2>4, <2>5, <2>6, <2>7, <2>7a, <2>8 DEF IInv
<1>4. ASSUME NEW n \in Nonces, AcquireAssigns(r, t.prio, t.seen, n),
             turn' = [turn EXCEPT ![r] = [IdleTurn EXCEPT !.pc = "held", !.prio = t.prio,
                                                         !.gated = t.gated, !.nonce = n]]
      PROVE  IInv'
  <2>1. /\ turn'[r].pc = "held" /\ turn'[r].nonce = n /\ turn'[r].seen = NoSnapshot
        /\ \A q \in Relays : q # r => turn'[q] = turn[q]
    BY <1>4 DEF IInv, TypeOK, IdleTurn
  <2>2. /\ Takeable
        /\ mutex'.owner = r /\ mutex'.nonce = n /\ mutex'.ext = None
    BY <1>1, <1>4, NotBusyIsTakeable DEF AcquireAssigns
  <2>3. RowShape'  BY <1>1, <2>2, ConstantsAssumption DEF IInv, RowShape
  <2>4. ActorsLive'  BY <1>1, <1>2, <2>1, <2>2 DEF IInv, ActorsLive, Takeable
  <2>5. SnapshotsSound'  BY <1>1, <1>2, <2>1, SnapshotsKept
  <2>6. TurnShape'
    BY <1>1, <1>2, <2>1, <2>2 DEF IInv, TurnShape, Takeable, Holding, TurnPcs
  <2>7. DogShape' /\ QuietHolders'
    BY <1>1, <1>2, <2>1, <2>2 DEF IInv, DogShape, QuietHolders, GatedRunning, Takeable
  <2>8. GatedHelperIsRecorded'
    BY <1>1, <2>2 DEF GatedHelperIsRecorded, GatedRunning, Takeable
  <2>9. LiveOwnerKeepsItsRow'
    BY <1>1, <2>1, <2>2 DEF LiveOwnerKeepsItsRow, OwnRow, Takeable
  <2> QED  BY <2>3, <2>4, <2>5, <2>6, <2>7, <2>8, <2>9 DEF IInv
<1> QED  BY <1>3, <1>4 DEF TurnAcquire

\* Who holds the lease holds it alone.
LEMMA OneHolder ==
    ASSUME IInv, NEW r \in Relays, turn[r].pc \in Holding
    PROVE  /\ relay[r] = "up" /\ OwnRow(r) /\ mutex.owner # None
           /\ \A q \in Relays : q # r => turn[q].pc \notin Holding
           /\ \A q \in Relays : dog[q].pc # "recovered"
<1>1. \A q \in Relays : turn[q].pc \in Holding => relay[q] = "up" /\ mutex.owner = q /\ OwnRow(q)
  BY DEF IInv, ActorsLive, LiveOwnerKeepsItsRow, OwnRow, Holding
<1>2. \A q \in Relays : dog[q].pc # "recovered"  BY DEF IInv, ActorsLive
<1> QED  BY <1>1, <1>2, ConstantsAssumption

\* A step of the turn of r that keeps its lease.
HoldingStep(r) ==
    /\ UNCHANGED <<relay, dog>>
    /\ turn[r].pc \in Holding /\ turn'[r].pc \in Holding
    /\ turn'[r].nonce = turn[r].nonce /\ turn'[r].seen = turn[r].seen
    /\ \A q \in Relays : q # r => turn'[q] = turn[q]
    /\ mutex'.owner = mutex.owner /\ mutex'.nonce = mutex.nonce

\* Helpers are neither revived nor relabelled.
HelpersAge ==
    \A h \in Helpers : helper[h].st # "unborn" =>
        /\ helper'[h].gated = helper[h].gated /\ helper'[h].st # "unborn"
        /\ helper[h].st = "dead" => helper'[h].st = "dead"

LEMMA HoldingStepKeeps ==
    ASSUME IInv, NEW r \in Relays, HoldingStep(r), HelpersAge
    PROVE  ActorsLive' /\ SnapshotsSound' /\ DogShape' /\ LiveOwnerKeepsItsRow'
<1>1. ActorsLive'
  <2>1. relay[r] = "up" /\ \A q \in Relays : dog[q].pc # "recovered"  BY OneHolder DEF HoldingStep
  <2> QED  BY <2>1 DEF IInv, ActorsLive, HoldingStep
<1>2. SnapshotsSound'
  <2>1. ASSUME NEW q \in Relays
        PROVE  turn'[q].seen \in {turn[q].seen, NoSnapshot} /\ dog'[q].seen \in {dog[q].seen, NoSnapshot}
    <3>1. turn'[q].seen = turn[q].seen  BY DEF HoldingStep
    <3> QED  BY <3>1 DEF HoldingStep
  <2>2. \A q \in Relays : relay[q] = "dead" => relay'[q] = "dead"  BY DEF HoldingStep
  <2> QED  BY <2>1, <2>2, SnapshotsKept DEF HelpersAge
<1>3. DogShape'  BY OneHolder DEF IInv, DogShape, HoldingStep
<1>4. LiveOwnerKeepsItsRow'
  <2>1. \A q \in Relays : turn'[q].pc \in Holding => mutex'.owner = q /\ mutex'.nonce = turn'[q].nonce
    BY OneHolder DEF HoldingStep, OwnRow
  <2>2. \A q \in Relays : dog'[q].pc # "recovered"  BY OneHolder DEF HoldingStep
  <2> QED  BY <2>1, <2>2 DEF LiveOwnerKeepsItsRow, OwnRow
<1> QED  BY <1>1, <1>2, <1>3, <1>4

LEMMA OpenTurnKeepsInv ==
    ASSUME IInv, TypeOK', NEW r \in Relays, OpenTurn(r)
    PROVE  IInv'
<1>1. /\ UNCHANGED <<relay, dog, helper>>
      /\ turn[r].pc = "held" /\ ~turn[r].gated
      /\ turn[r].pc \in Holding /\ "open" \in Holding
  BY DEF OpenTurn, TurnAt, Holding, TurnPcs
<1>2. /\ turn'[r] = [turn[r] EXCEPT !.pc = "open"]
      /\ \A q \in Relays : q # r => turn'[q] = turn[q]
      /\ mutex' = [mutex EXCEPT !.mayExecute = TRUE]
  BY <1>1, OneHolder DEF OpenTurn, GoTo, IInv, TypeOK
<1>3. /\ turn'[r].pc = "open" /\ turn'[r].gated = turn[r].gated
      /\ turn'[r].nonce = turn[r].nonce /\ turn'[r].seen = turn[r].seen
      /\ mutex'.owner = mutex.owner /\ mutex'.nonce = mutex.nonce /\ mutex'.ext = mutex.ext
      /\ mutex'.mayExecute
  BY <1>2 DEF IInv, TypeOK, TurnRecords, Row
<1>4. HoldingStep(r) /\ HelpersAge  BY <1>1, <1>2, <1>3 DEF HoldingStep, HelpersAge
<1>5. RowShape'  BY <1>1, <1>3, OneHolder DEF IInv, RowShape
<1>6. TurnShape'
  <2>1. ASSUME NEW q \in Relays, q # r
        PROVE  turn'[q].pc \notin {"open", "spawned", "recorded", "working"}
    BY <1>1, <1>2, <2>1, OneHolder DEF Holding, TurnPcs
  <2> QED  BY <1>1, <1>3, <2>1 DEF TurnShape
<1>7. QuietHolders'  BY <1>1, <1>2, <1>3 DEF IInv, QuietHolders, GatedRunning
<1>8. GatedHelperIsRecorded'  BY <1>1, <1>3 DEF IInv, GatedHelperIsRecorded
<1> QED  BY <1>4, <1>5, <1>6, <1>7, <1>8, HoldingStepKeeps DEF IInv

LEMMA SpawnKeepsInv ==
    ASSUME IInv, TypeOK', NEW r \in Relays, NEW h \in Helpers, SpawnUngated(r, h) \/ SpawnGated(r, h)
    PROVE  IInv'
<1> PICK st \in {"running", "blocked"}, pc \in {"working", "spawned"} :
      /\ Spawn(r, h, st, pc)
      /\ \/ st = "running" /\ pc = "working" /\ ~turn[r].gated
         \/ st = "blocked" /\ pc = "spawned" /\ turn[r].gated
  BY DEF SpawnUngated, SpawnGated, IInv, TurnShape, TurnAt
<1>1. /\ UNCHANGED <<relay, dog, mutex>>
      /\ turn[r].pc \in {"held", "open"}
      /\ turn[r].pc \in Holding /\ "working" \in Holding /\ "spawned" \in Holding
  BY DEF SpawnUngated, SpawnGated, TurnAt, Holding, TurnPcs
<1>2. /\ turn'[r].pc = pc /\ turn'[r].helper = h /\ turn'[r].gated = turn[r].gated
      /\ turn'[r].nonce = turn[r].nonce /\ turn'[r].seen = turn[r].seen
      /\ \A q \in Relays : q # r => turn'[q] = turn[q]
  BY DEF Spawn, IInv, TypeOK, TurnRecords
<1>3. /\ helper[h].st = "unborn"
      /\ helper'[h] = [st |-> st, nonce |-> turn[r].nonce, gated |-> turn[r].gated]
      /\ \A k \in Helpers : k # h => helper'[k] = helper[k]
  BY DEF Spawn, IInv, TypeOK
<1>4. HoldingStep(r) /\ HelpersAge  BY <1>1, <1>2, <1>3 DEF HoldingStep, HelpersAge
<1>5. RowShape'
  <2>1. mutex.ext # None => mutex.ext \in Helpers /\ mutex.ext # h
    BY <1>3 DEF IInv, TypeOK, Row, RowShape
  <2> QED  BY <1>1, <1>3, <2>1 DEF IInv, RowShape
<1>6. TurnShape'
  <2>1. ASSUME NEW q \in Relays, q # r
        PROVE  turn'[q].pc \notin {"open", "spawned", "recorded", "working"}
    BY <1>1, <1>2, <2>1, OneHolder DEF Holding, TurnPcs
  <2>2. h # None  BY ConstantsAssumption
  <2> QED  BY <1>1, <1>2, <1>3, <2>1, <2>2 DEF TurnShape
<1>7. \A k \in Helpers : GatedRunning(k)' => GatedRunning(k)
  BY <1>3 DEF GatedRunning
<1>8. \A k \in Helpers : ~GatedRunning(k)  BY <1>1 DEF IInv, QuietHolders
<1>9. QuietHolders' /\ GatedHelperIsRecorded'
  BY <1>7, <1>8 DEF QuietHolders, GatedHelperIsRecorded, GatedRunning
<1> QED  BY <1>4, <1>5, <1>6, <1>9, HoldingStepKeeps DEF IInv

LEMMA RecordHelperKeepsInv ==
    ASSUME IInv, TypeOK', NEW r \in Relays, RecordHelper(r)
    PROVE  IInv'
<1> DEFINE h == turn[r].helper
<1>1. /\ UNCHANGED <<relay, dog>>
      /\ turn[r].pc = "spawned" /\ turn[r].pc \in Holding /\ "recorded" \in Holding
  BY DEF RecordHelper, TurnAt, Holding, TurnPcs
<1>2. OwnRow(r)  BY <1>1, OneHolder
<1>3. UNCHANGED helper  BY <1>2 DEF RecordHelper
<1>4. mutex' = [mutex EXCEPT !.mayExecute = TRUE, !.ext = h]  BY <1>2 DEF RecordHelper
<1>5. /\ mutex'.owner = mutex.owner /\ mutex'.nonce = mutex.nonce
      /\ mutex'.mayExecute /\ mutex'.ext = h
  BY <1>4 DEF IInv, TypeOK, Row
<1>6. turn' = [turn EXCEPT ![r].pc = "recorded"]  BY <1>2 DEF RecordHelper, GoTo
<1>7. /\ turn'[r].pc = "recorded" /\ turn'[r].helper = h /\ turn'[r].gated = turn[r].gated
      /\ turn'[r].nonce = turn[r].nonce /\ turn'[r].seen = turn[r].seen
      /\ \A q \in Relays : q # r => turn'[q] = turn[q]
  BY <1>6 DEF IInv, TypeOK, TurnRecords
<1>8. /\ h # None /\ helper[h].gated = turn[r].gated /\ helper[h].nonce = turn[r].nonce
      /\ turn[r].gated /\ helper[h].st \in {"blocked", "dead"}
  BY <1>1 DEF IInv, TurnShape
<1> HIDE DEF h
<1>9. HoldingStep(r) /\ HelpersAge  BY <1>1, <1>3, <1>5, <1>7 DEF HoldingStep, HelpersAge
<1>10. RowShape'  BY <1>1, <1>3, <1>5, <1>8, OneHolder DEF IInv, RowShape
<1>11. TurnShape'
  <2>1. ASSUME NEW q \in Relays, q # r
        PROVE  turn'[q].pc \notin {"open", "spawned", "recorded", "working"}
    BY <1>1, <1>7, <2>1, OneHolder DEF Holding, TurnPcs
  <2> QED  BY <1>3, <1>5, <1>7, <1>8, <2>1 DEF TurnShape
<1>12. \A k \in Helpers : ~GatedRunning(k)  BY <1>1 DEF IInv, QuietHolders
<1>13. QuietHolders' /\ GatedHelperIsRecorded'
  BY <1>3, <1>12 DEF QuietHolders, GatedHelperIsRecorded, GatedRunning
<1> QED  BY <1>9, <1>10, <1>11, <1>13, HoldingStepKeeps DEF IInv

\* A turn kills its wrapper, before GO.
LEMMA GateRejectedKeepsInv ==
    ASSUME IInv, TypeOK', NEW r \in Relays, GateRejected(r)
    PROVE  IInv'
<1> DEFINE h == turn[r].helper
<1>1. /\ UNCHANGED <<relay, dog, mutex>>
      /\ turn[r].pc \in {"spawned", "recorded"} /\ turn[r].pc \in Holding /\ "held" \in Holding
  BY DEF GateRejected, TurnAt, Holding, TurnPcs
<1>2. h \in Helpers
  BY <1>1 DEF IInv, TypeOK, TurnRecords, TurnShape
<1>3. /\ helper'[h].st = "dead" /\ helper'[h].gated = helper[h].gated
      /\ \A k \in Helpers : k # h => helper'[k] = helper[k]
  BY <1>2 DEF GateRejected, IInv, TypeOK
<1>4. turn' = [turn EXCEPT ![r].pc = "held"]  BY DEF GateRejected, GoTo
<1>5. /\ turn'[r].pc = "held" /\ turn'[r].nonce = turn[r].nonce /\ turn'[r].seen = turn[r].seen
      /\ \A q \in Relays : q # r => turn'[q] = turn[q]
  BY <1>4 DEF IInv, TypeOK, TurnRecords
<1> HIDE DEF h
<1>6. HoldingStep(r) /\ HelpersAge  BY <1>1, <1>2, <1>3, <1>5 DEF HoldingStep, HelpersAge
<1>7. RowShape'
  <2>1. mutex.ext # None => mutex.ext \in Helpers  BY DEF IInv, TypeOK, Row
  <2> QED  BY <1>1, <1>2, <1>3, <2>1 DEF IInv, RowShape
<1>8. TurnShape'
  <2>1. ASSUME NEW q \in Relays
        PROVE  turn'[q].pc \notin {"open", "spawned", "recorded", "working"}
    BY <1>1, <1>5, <2>1, OneHolder DEF Holding, TurnPcs
  <2> QED  BY <2>1 DEF TurnShape
<1>9. \A k \in Helpers : ~GatedRunning(k)  BY <1>1 DEF IInv, QuietHolders
<1>10. \A k \in Helpers : ~GatedRunning(k)'  BY <1>2, <1>3, <1>9 DEF GatedRunning
<1>11. QuietHolders' /\ GatedHelperIsRecorded'
  BY <1>10 DEF QuietHolders, GatedHelperIsRecorded, GatedRunning
<1> QED  BY <1>6, <1>7, <1>8, <1>11, HoldingStepKeeps DEF IInv

LEMMA GoKeepsInv ==
    ASSUME IInv, TypeOK', NEW r \in Relays, Go(r)
    PROVE  IInv'
<1> DEFINE h == turn[r].helper
<1>1. /\ UNCHANGED <<relay, dog, mutex>>
      /\ turn[r].pc = "recorded" /\ turn[r].pc \in Holding /\ "working" \in Holding
  BY DEF Go, TurnAt, Holding, TurnPcs
<1>2. /\ h \in Helpers /\ h # None /\ turn[r].gated /\ mutex.ext = h /\ mutex.mayExecute
      /\ helper[h].gated = turn[r].gated /\ helper[h].nonce = turn[r].nonce
      /\ helper[h].st \in {"blocked", "dead"}
  BY <1>1 DEF IInv, TypeOK, TurnRecords, TurnShape
<1>3. /\ helper'[h].st = IF helper[h].st = "blocked" THEN "running" ELSE helper[h].st
      /\ helper'[h].gated = helper[h].gated /\ helper'[h].nonce = helper[h].nonce
      /\ \A k \in Helpers : k # h => helper'[k] = helper[k]
  BY <1>2 DEF Go, IInv, TypeOK
<1>4. turn' = [turn EXCEPT ![r].pc = "working"]  BY DEF Go, GoTo
<1>5. /\ turn'[r].pc = "working" /\ turn'[r].helper = h /\ turn'[r].gated = turn[r].gated
      /\ turn'[r].nonce = turn[r].nonce /\ turn'[r].seen = turn[r].seen
      /\ \A q \in Relays : q # r => turn'[q] = turn[q]
  BY <1>4 DEF IInv, TypeOK, TurnRecords
<1> HIDE DEF h
<1>6. HoldingStep(r) /\ HelpersAge  BY <1>1, <1>2, <1>3, <1>5 DEF HoldingStep, HelpersAge
<1>7. RowShape'  BY <1>1, <1>2, <1>3 DEF IInv, RowShape
<1>8. \A q \in Relays : q # r => turn'[q].pc \notin Holding
  BY <1>1, <1>5, OneHolder
<1>9. TurnShape'
  <2>1. ASSUME NEW q \in Relays, q # r
        PROVE  turn'[q].pc \notin {"open", "spawned", "recorded", "working"}
    BY <1>8, <2>1 DEF Holding, TurnPcs
  <2> QED  BY <1>1, <1>2, <1>3, <1>5, <2>1 DEF TurnShape
<1>10. QuietHolders'
  BY <1>1, <1>2, <1>5, <1>8, OneHolder DEF QuietHolders
<1>11. GatedHelperIsRecorded'
  <2>1. \A k \in Helpers : ~GatedRunning(k)  BY <1>1 DEF IInv, QuietHolders
  <2>2. mutex.nonce = turn[r].nonce  BY <1>1, OneHolder DEF OwnRow
  <2> QED  BY <1>1, <1>2, <1>3, <2>1, <2>2 DEF GatedHelperIsRecorded, GatedRunning
<1> QED  BY <1>6, <1>7, <1>9, <1>10, <1>11, HoldingStepKeeps DEF IInv

LEMMA CommandReturnsKeepsInv ==
    ASSUME IInv, TypeOK', NEW r \in Relays, CommandReturns(r)
    PROVE  IInv'
<1>1. /\ UNCHANGED <<relay, dog, mutex, helper>>
      /\ turn[r].pc = "working" /\ turn[r].pc \in Holding /\ "held" \in Holding /\ "open" \in Holding
      /\ helper[turn[r].helper].st # "running"
  BY DEF CommandReturns, TurnAt, Holding, TurnPcs
<1>2. /\ turn'[r].pc = IF turn[r].gated THEN "held" ELSE "open"
      /\ turn'[r].gated = turn[r].gated
      /\ turn'[r].nonce = turn[r].nonce /\ turn'[r].seen = turn[r].seen
      /\ \A q \in Relays : q # r => turn'[q] = turn[q]
  BY DEF CommandReturns, IInv, TypeOK, TurnRecords
<1>3. HoldingStep(r) /\ HelpersAge  BY <1>1, <1>2 DEF HoldingStep, HelpersAge
<1>4. RowShape'  BY <1>1 DEF IInv, RowShape
<1>5. TurnShape'
  <2>1. ASSUME NEW q \in Relays, q # r
        PROVE  turn'[q].pc \notin {"open", "spawned", "recorded", "working"}
    BY <1>1, <1>2, <2>1, OneHolder DEF Holding, TurnPcs
  <2> QED  BY <1>1, <1>2, <2>1 DEF TurnShape
<1>6. \A k \in Helpers : ~GatedRunning(k)
  <2>1. CASE turn[r].gated
    BY <1>1, <2>1 DEF IInv, TurnShape, GatedHelperIsRecorded, GatedRunning
  <2>2. CASE ~turn[r].gated  BY <1>1, <2>2 DEF IInv, QuietHolders
  <2> QED  BY <2>1, <2>2
<1>7. QuietHolders' /\ GatedHelperIsRecorded'
  BY <1>1, <1>6 DEF QuietHolders, GatedHelperIsRecorded, GatedRunning
<1> QED  BY <1>3, <1>4, <1>5, <1>7, HoldingStepKeeps DEF IInv

LEMMA EffectAmbiguousKeepsInv ==
    ASSUME IInv, TypeOK', NEW r \in Relays, EffectAmbiguous(r)
    PROVE  IInv'
<1>1. /\ UNCHANGED <<relay, dog, mutex, helper>>
      /\ turn[r].pc = "held" /\ turn[r].pc \in Holding /\ "settled" \in Holding
      /\ turn' = [turn EXCEPT ![r].pc = "settled"]
  BY DEF EffectAmbiguous, TurnAt, Holding, TurnPcs, GoTo
<1>2. /\ turn'[r].pc = "settled"
      /\ turn'[r].nonce = turn[r].nonce /\ turn'[r].seen = turn[r].seen
      /\ \A q \in Relays : q # r => turn'[q] = turn[q]
  BY <1>1 DEF IInv, TypeOK, TurnRecords
<1>3. HoldingStep(r) /\ HelpersAge  BY <1>1, <1>2 DEF HoldingStep, HelpersAge
<1>4. RowShape' /\ GatedHelperIsRecorded'
  BY <1>1 DEF IInv, RowShape, GatedHelperIsRecorded
<1>5. TurnShape'
  <2>1. ASSUME NEW q \in Relays
        PROVE  turn'[q].pc \notin {"open", "spawned", "recorded", "working"}
    BY <1>1, <1>2, <2>1, OneHolder DEF Holding, TurnPcs
  <2> QED  BY <2>1 DEF TurnShape
<1>6. QuietHolders'
  BY <1>1 DEF IInv, QuietHolders, GatedRunning
<1> QED  BY <1>3, <1>4, <1>5, <1>6, HoldingStepKeeps DEF IInv

\* The row is given up, or retained for a process that reads as alive.
LEMMA ReleaseTurnKeepsInv ==
    ASSUME IInv, TypeOK', NEW r \in Relays, ReleaseTurn(r)
    PROVE  IInv'
<1>1. /\ UNCHANGED <<relay, dog, helper>>
      /\ turn[r].pc \in {"held", "open", "settled"} /\ turn[r].pc \in Holding
      /\ mutex' = mutex \/ mutex' = FreeRow
      /\ turn' = [turn EXCEPT ![r] = IdleTurn]
  BY DEF ReleaseTurn, TurnAt, Holding, TurnPcs
<1>2. /\ turn'[r] = IdleTurn
      /\ \A q \in Relays : q # r => turn'[q] = turn[q]
  BY <1>1 DEF IInv, TypeOK
<1>3. IdleTurn.pc = "idle" /\ IdleTurn.seen = NoSnapshot /\ "idle" \notin Holding
  BY DEF IdleTurn, Holding
<1>4. \A q \in Relays : turn'[q].pc \notin Holding /\ dog'[q].pc # "recovered"
  BY <1>1, <1>2, <1>3, OneHolder
<1>5. \A k \in Helpers : ~GatedRunning(k)  BY <1>1 DEF IInv, QuietHolders
<1>6. RowShape'  BY <1>1 DEF IInv, RowShape, FreeRow
<1>7. ActorsLive'  BY <1>1, <1>2, <1>3, <1>4 DEF IInv, ActorsLive
<1>8. SnapshotsSound'
  <2>1. ASSUME NEW q \in Relays
        PROVE  turn'[q].seen \in {turn[q].seen, NoSnapshot} /\ dog'[q].seen \in {dog[q].seen, NoSnapshot}
    BY <1>1, <1>2, <1>3
  <2> QED  BY <1>1, <2>1, SnapshotsKept
<1>9. TurnShape'
  <2>1. ASSUME NEW q \in Relays
        PROVE  turn'[q].pc \notin {"open", "spawned", "recorded", "working"}
    BY <1>4 DEF Holding, TurnPcs
  <2> QED  BY <2>1 DEF TurnShape
<1>10. DogShape'  BY <1>1, <1>4 DEF IInv, DogShape
<1>11. QuietHolders' /\ GatedHelperIsRecorded'
  BY <1>1, <1>5 DEF QuietHolders, GatedHelperIsRecorded, GatedRunning
<1>12. LiveOwnerKeepsItsRow'  BY <1>4 DEF LiveOwnerKeepsItsRow
<1> QED  BY <1>6, <1>7, <1>8, <1>9, <1>10, <1>11, <1>12 DEF IInv

\* Snapshots do not move with a step that leaves turns and watchdogs alone.
LEMMA HelperEndsKeepsInv ==
    ASSUME IInv, TypeOK', NEW h \in Helpers, HelperEnds(h)
    PROVE  IInv'
<1>1. UNCHANGED <<relay, turn, dog, mutex>>  BY DEF HelperEnds
<1>2. /\ helper'[h].gated = helper[h].gated /\ helper'[h].nonce = helper[h].nonce
      /\ \A k \in Helpers : k # h => helper'[k] = helper[k]
      /\ helper[h].st \in {"blocked", "running", "lingering"}
      /\ helper'[h].st \in {"lingering", "dead"}
      /\ helper[h].st \in {"blocked", "lingering"} => helper'[h].st = "dead"
      /\ helper[h].st = "blocked" => \A r \in Relays : turn[r].helper # h
  BY DEF HelperEnds, IInv, TypeOK
<1>3. HelpersAge  BY <1>2 DEF HelpersAge
<1>4. RowShape'
  <2>1. mutex.ext # None => mutex.ext \in Helpers  BY DEF IInv, TypeOK, Row
  <2> QED  BY <1>1, <1>2, <2>1 DEF IInv, RowShape
<1>5. ActorsLive' /\ DogShape' /\ LiveOwnerKeepsItsRow'
  BY <1>1 DEF IInv, ActorsLive, DogShape, LiveOwnerKeepsItsRow, OwnRow
<1>6. SnapshotsSound'
  <2>1. \A q \in Relays : /\ turn'[q].seen \in {turn[q].seen, NoSnapshot}
                          /\ dog'[q].seen \in {dog[q].seen, NoSnapshot}
    BY <1>1
  <2> QED  BY <1>1, <1>3, <2>1, SnapshotsKept DEF HelpersAge
<1>7. TurnShape'
  <2>1. ASSUME NEW r \in Relays, turn[r].helper # None PROVE turn[r].helper \in Helpers
    BY <2>1 DEF IInv, TypeOK, TurnRecords
  <2>2. ASSUME NEW r \in Relays, turn[r].pc \in {"spawned", "recorded", "working"}
        PROVE  /\ helper'[turn[r].helper].gated = turn[r].gated
               /\ helper'[turn[r].helper].nonce = turn[r].nonce
               /\ turn[r].pc \in {"spawned", "recorded"} => helper'[turn[r].helper].st \in {"blocked", "dead"}
               /\ turn[r].pc = "working" => helper'[turn[r].helper].st \in {"running", "lingering", "dead"}
    <3>1. CASE turn[r].helper = h  BY <1>2, <2>2, <3>1 DEF IInv, TurnShape
    <3>2. CASE turn[r].helper # h  BY <1>2, <2>1, <2>2, <3>2 DEF IInv, TurnShape
    <3> QED  BY <3>1, <3>2
  <2> QED  BY <1>1, <2>2 DEF IInv, TurnShape
<1>8. \A k \in Helpers : GatedRunning(k)' => GatedRunning(k) /\ helper'[k].nonce = helper[k].nonce
  BY <1>2 DEF GatedRunning
<1>9. QuietHolders'
  <2>1. \A r \in Relays : turn'[r] = turn[r] /\ dog'[r] = dog[r]  BY <1>1
  <2> QED  BY <1>8, <2>1 DEF IInv, QuietHolders
<1>10. GatedHelperIsRecorded'
  BY <1>1, <1>8 DEF IInv, GatedHelperIsRecorded, GatedRunning
<1> QED  BY <1>4, <1>5, <1>6, <1>7, <1>9, <1>10 DEF IInv

\* The row, its marks and the turns stay when only the quarantine or the
\* deadline moves.
LEMMA SidelinesKeepInv ==
    ASSUME IInv, TypeOK', UNCHANGED <<relay, mutex, turn, dog, helper>>
    PROVE  IInv'
<1>1. RowShape' /\ ActorsLive' /\ TurnShape' /\ DogShape'
  BY DEF IInv, RowShape, ActorsLive, TurnShape, DogShape
<1>2. SnapshotsSound'  BY DEF IInv, SnapshotsSound, SoundSnapshot
<1>3. QuietHolders' /\ LiveOwnerKeepsItsRow' /\ GatedHelperIsRecorded'
  BY DEF IInv, QuietHolders, GatedRunning, LiveOwnerKeepsItsRow, OwnRow, GatedHelperIsRecorded
<1> QED  BY <1>1, <1>2, <1>3 DEF IInv

\* The watchdog reads the row and probes it, or gives up.
LEMMA WatchdogLooksKeepsInv ==
    ASSUME IInv, TypeOK', NEW r \in Relays, UNCHANGED <<relay, mutex, turn, helper>>,
           relay[r] = "up", \A q \in Relays : q # r => dog'[q] = dog[q],
           dog'[r].pc # "recovered",
           dog'[r].pc = "terminating" => dog'[r].seen.extAlive,
           SoundSnapshot(dog'[r].seen)
    PROVE  IInv'
<1>1. RowShape' /\ TurnShape' /\ GatedHelperIsRecorded'
  BY DEF IInv, RowShape, TurnShape, GatedHelperIsRecorded
<1>2. ActorsLive'  BY DEF IInv, ActorsLive
<1>3. SnapshotsSound'
  <2>1. ASSUME NEW q \in Relays PROVE SoundSnapshot(turn[q].seen)' /\ SoundSnapshot(dog[q].seen)'
    <3>1. SoundSnapshot(turn[q].seen)'  BY DEF IInv, SnapshotsSound, SoundSnapshot
    <3>2. CASE q = r  BY <3>1, <3>2 DEF SoundSnapshot
    <3>3. CASE q # r  BY <3>1, <3>3 DEF IInv, SnapshotsSound, SoundSnapshot
    <3> QED  BY <3>2, <3>3
  <2> QED  BY <2>1 DEF SnapshotsSound
<1>4. DogShape'  BY DEF IInv, DogShape
<1>5. QuietHolders'  BY DEF IInv, QuietHolders, GatedRunning
<1>6. LiveOwnerKeepsItsRow'  BY DEF IInv, LiveOwnerKeepsItsRow, OwnRow
<1> QED  BY <1>1, <1>2, <1>3, <1>4, <1>5, <1>6 DEF IInv

LEMMA NoSnapshotIsSound == SoundSnapshot(NoSnapshot)
BY DEF SoundSnapshot, NoSnapshot, FreeRow

LEMMA DogObserveKeepsInv ==
    ASSUME IInv, TypeOK', NEW r \in Relays, DogObserve(r)
    PROVE  IInv'
<1> PICK s \in PossibleSnapshots :
      /\ Observe(s)
      /\ dog' = [dog EXCEPT ![r] = IF s.extAlive
                                   THEN [pc |-> "terminating", nonce |-> None, seen |-> s]
                                   ELSE Settling]
  BY DEF DogObserve
<1>1. Settling.pc = "settling" /\ Settling.seen = NoSnapshot  BY DEF Settling, IdleDog
<1>2. /\ UNCHANGED <<relay, mutex, turn, helper>> /\ relay[r] = "up"
      /\ \A q \in Relays : q # r => dog'[q] = dog[q]
  BY DEF DogObserve, DogAt, IInv, TypeOK
<1>3. SoundSnapshot(s)  BY ObservedIsSound
<1>4. dog'[r] = IF s.extAlive THEN [pc |-> "terminating", nonce |-> None, seen |-> s] ELSE Settling
  BY DEF IInv, TypeOK
<1>5. CASE s.extAlive
  <2>1. dog'[r].pc = "terminating" /\ dog'[r].seen = s  BY <1>4, <1>5
  <2> QED  BY <1>2, <1>3, <1>5, <2>1, WatchdogLooksKeepsInv
<1>6. CASE ~s.extAlive
  <2>1. dog'[r].pc = "settling" /\ dog'[r].seen = NoSnapshot  BY <1>1, <1>4, <1>6
  <2> QED  BY <1>2, <2>1, NoSnapshotIsSound, WatchdogLooksKeepsInv
<1> QED  BY <1>5, <1>6

LEMMA DogReobserveKeepsInv ==
    ASSUME IInv, TypeOK', NEW r \in Relays, DogReobserve(r)
    PROVE  IInv'
<1> PICK s \in PossibleSnapshots :
      Observe(s) /\ dog' = [dog EXCEPT ![r] = [pc |-> "reclaiming", nonce |-> None, seen |-> s]]
  BY DEF DogReobserve
<1>1. /\ UNCHANGED <<relay, mutex, turn, helper>> /\ relay[r] = "up"
      /\ \A q \in Relays : q # r => dog'[q] = dog[q]
      /\ dog'[r].pc = "reclaiming" /\ dog'[r].seen = s
  BY DEF DogReobserve, DogAt, IInv, TypeOK
<1> QED  BY <1>1, ObservedIsSound, WatchdogLooksKeepsInv

LEMMA DogCannotTerminateKeepsInv ==
    ASSUME IInv, TypeOK', NEW r \in Relays, DogCannotTerminate(r)
    PROVE  IInv'
<1>1. /\ UNCHANGED <<relay, mutex, turn, helper>> /\ relay[r] = "up"
      /\ \A q \in Relays : q # r => dog'[q] = dog[q]
      /\ dog'[r].pc = "idle" /\ dog'[r].seen = NoSnapshot
  BY DEF DogCannotTerminate, DogAt, IInv, TypeOK, IdleDog
<1> QED  BY <1>1, NoSnapshotIsSound, WatchdogLooksKeepsInv

\* The watchdog kills the recorded group.
LEMMA DogTerminatesKeepsInv ==
    ASSUME IInv, TypeOK', NEW r \in Relays, DogTerminates(r)
    PROVE  IInv'
<1> DEFINE h == dog[r].seen.row.ext
<1>1. /\ UNCHANGED <<relay, mutex, turn>> /\ relay[r] = "up"
      /\ \A q \in Relays : q # r => dog'[q] = dog[q]
      /\ dog'[r].pc \in {"idle", "settling"} /\ dog'[r].seen = NoSnapshot
      /\ dog[r].pc = "terminating"
  BY DEF DogTerminates, DogAt, IInv, TypeOK, IdleDog, Settling
<1>2. h \in Helpers /\ helper[h].st # "unborn"
  <2>1. h # None /\ helper[h].st # "unborn"
    BY <1>1 DEF IInv, DogShape, SnapshotsSound, SoundSnapshot
  <2> QED  BY <2>1 DEF IInv, TypeOK, DogRecords, Snapshots, Row
<1>3. /\ helper'[h].st = "dead" /\ helper'[h].gated = helper[h].gated
      /\ helper'[h].nonce = helper[h].nonce
      /\ \A k \in Helpers : k # h => helper'[k] = helper[k]
  BY <1>2 DEF DogTerminates, IInv, TypeOK
<1> HIDE DEF h
<1>4. RowShape'
  <2>1. mutex.ext # None => mutex.ext \in Helpers  BY DEF IInv, TypeOK, Row
  <2> QED  BY <1>1, <1>2, <1>3, <2>1 DEF IInv, RowShape
<1>5. ActorsLive'  BY <1>1 DEF IInv, ActorsLive
<1>6. SnapshotsSound'
  <2>1. ASSUME NEW q \in Relays
        PROVE  turn'[q].seen \in {turn[q].seen, NoSnapshot} /\ dog'[q].seen \in {dog[q].seen, NoSnapshot}
    BY <1>1
  <2> QED  BY <1>1, <1>2, <1>3, <2>1, SnapshotsKept
<1>7. TurnShape'
  <2>1. ASSUME NEW q \in Relays, turn[q].helper # None PROVE turn[q].helper \in Helpers
    BY <2>1 DEF IInv, TypeOK, TurnRecords
  <2>2. ASSUME NEW q \in Relays, turn[q].pc \in {"spawned", "recorded", "working"}
        PROVE  /\ helper'[turn[q].helper].gated = turn[q].gated
               /\ helper'[turn[q].helper].nonce = turn[q].nonce
               /\ turn[q].pc \in {"spawned", "recorded"} => helper'[turn[q].helper].st \in {"blocked", "dead"}
               /\ turn[q].pc = "working" => helper'[turn[q].helper].st \in {"running", "lingering", "dead"}
    <3>1. CASE turn[q].helper = h  BY <1>3, <2>2, <3>1 DEF IInv, TurnShape
    <3>2. CASE turn[q].helper # h  BY <1>3, <2>1, <2>2, <3>2 DEF IInv, TurnShape
    <3> QED  BY <3>1, <3>2
  <2> QED  BY <1>1, <2>2 DEF IInv, TurnShape
<1>8. DogShape'  BY <1>1 DEF IInv, DogShape
<1>9. \A k \in Helpers : GatedRunning(k)' => GatedRunning(k) /\ helper'[k].nonce = helper[k].nonce
  BY <1>2, <1>3 DEF GatedRunning
<1>10. QuietHolders'
  <2>1. \A q \in Relays : turn'[q] = turn[q] /\ (dog'[q].pc = "recovered" => dog[q].pc = "recovered")
    BY <1>1
  <2> QED  BY <1>9, <2>1 DEF IInv, QuietHolders
<1>11. GatedHelperIsRecorded'
  BY <1>1, <1>9 DEF IInv, GatedHelperIsRecorded, GatedRunning
<1>12. LiveOwnerKeepsItsRow'  BY <1>1 DEF IInv, LiveOwnerKeepsItsRow, OwnRow
<1> QED  BY <1>4, <1>5, <1>6, <1>7, <1>8, <1>10, <1>11, <1>12 DEF IInv

LEMMA DogReclaimsKeepsInv ==
    ASSUME IInv, TypeOK', NEW r \in Relays, DogReclaims(r)
    PROVE  IInv'
<1>1. /\ UNCHANGED <<relay, turn, helper>> /\ relay[r] = "up"
      /\ dog[r].seen \in Snapshots /\ SoundSnapshot(dog[r].seen)
  BY DEF DogReclaims, DogAt, IInv, TypeOK, DogRecords, SnapshotsSound
<1>2. ASSUME AcquireRefused("interactive", dog[r].seen), dog' = [dog EXCEPT ![r] = IdleDog]
      PROVE  IInv'
  <2>1. /\ UNCHANGED mutex /\ \A q \in Relays : q # r => dog'[q] = dog[q]
        /\ dog'[r].pc = "idle" /\ dog'[r].seen = NoSnapshot
    BY <1>2 DEF AcquireRefused, IInv, TypeOK, IdleDog
  <2> QED  BY <1>1, <2>1, NoSnapshotIsSound, WatchdogLooksKeepsInv
<1>3. ASSUME NEW n \in Nonces, AcquireAssigns(r, "interactive", dog[r].seen, n),
             dog' = [dog EXCEPT ![r] = [IdleDog EXCEPT !.pc = "recovered", !.nonce = n]]
      PROVE  IInv'
  <2>1. /\ dog'[r].pc = "recovered" /\ dog'[r].nonce = n /\ dog'[r].seen = NoSnapshot
        /\ \A q \in Relays : q # r => dog'[q] = dog[q]
    BY <1>3 DEF IInv, TypeOK, IdleDog
  <2>2. /\ Takeable
        /\ mutex'.owner = r /\ mutex'.nonce = n /\ mutex'.ext = None
    BY <1>1, <1>3, NotBusyIsTakeable DEF AcquireAssigns
  <2>3. RowShape'  BY <1>1, <2>2, ConstantsAssumption DEF IInv, RowShape
  <2>4. ActorsLive'  BY <1>1, <2>1, <2>2 DEF IInv, ActorsLive, Takeable
  <2>5. SnapshotsSound'
    <3>1. ASSUME NEW q \in Relays
          PROVE  turn'[q].seen \in {turn[q].seen, NoSnapshot} /\ dog'[q].seen \in {dog[q].seen, NoSnapshot}
      BY <1>1, <2>1
    <3> QED  BY <1>1, <3>1, SnapshotsKept
  <2>6. TurnShape'
    <3>1. ASSUME NEW q \in Relays
          PROVE  turn'[q].pc \notin {"open", "spawned", "recorded", "working"}
      BY <1>1, <2>2 DEF Takeable, Holding, TurnPcs
    <3> QED  BY <3>1 DEF TurnShape
  <2>7. DogShape'  BY <2>1, <2>2 DEF IInv, DogShape, Takeable
  <2>8. QuietHolders' /\ GatedHelperIsRecorded'
    BY <1>1, <2>2 DEF QuietHolders, GatedHelperIsRecorded, GatedRunning, Takeable
  <2>9. LiveOwnerKeepsItsRow'
    BY <1>1, <2>1, <2>2 DEF LiveOwnerKeepsItsRow, OwnRow, Takeable
  <2> QED  BY <2>3, <2>4, <2>5, <2>6, <2>7, <2>8, <2>9 DEF IInv
<1> QED  BY <1>2, <1>3 DEF DogReclaims

LEMMA DogReleasesKeepsInv ==
    ASSUME IInv, TypeOK', NEW r \in Relays, DogReleases(r)
    PROVE  IInv'
<1>1. /\ UNCHANGED <<relay, turn, helper>> /\ relay[r] = "up" /\ dog[r].pc = "recovered"
      /\ mutex.owner = r /\ mutex.nonce = dog[r].nonce
  BY DEF DogReleases, DogAt, IInv, LiveOwnerKeepsItsRow
<1>2. /\ mutex' = FreeRow
      /\ \A q \in Relays : q # r => dog'[q] = dog[q]
      /\ dog'[r].pc = "idle" /\ dog'[r].seen = NoSnapshot
  BY <1>1 DEF DogReleases, IInv, TypeOK, IdleDog
<1>3. \A q \in Relays : turn'[q].pc \notin Holding  BY <1>1 DEF IInv, ActorsLive
<1>4. \A q \in Relays : dog'[q].pc # "recovered"
  BY <1>1, <1>2 DEF IInv, ActorsLive, LiveOwnerKeepsItsRow
<1>5. \A k \in Helpers : ~GatedRunning(k)  BY <1>1 DEF IInv, QuietHolders
<1>6. RowShape'  BY <1>2 DEF RowShape, FreeRow
<1>7. ActorsLive'  BY <1>1, <1>2, <1>4 DEF IInv, ActorsLive
<1>8. SnapshotsSound'
  <2>1. ASSUME NEW q \in Relays
        PROVE  turn'[q].seen \in {turn[q].seen, NoSnapshot} /\ dog'[q].seen \in {dog[q].seen, NoSnapshot}
    BY <1>1, <1>2
  <2> QED  BY <1>1, <2>1, SnapshotsKept
<1>9. TurnShape'
  <2>1. ASSUME NEW q \in Relays
        PROVE  turn'[q].pc \notin {"open", "spawned", "recorded", "working"}
    BY <1>3 DEF Holding, TurnPcs
  <2> QED  BY <2>1 DEF TurnShape
<1>10. DogShape'  BY <1>2 DEF IInv, DogShape, FreeRow
<1>11. QuietHolders' /\ GatedHelperIsRecorded'
  BY <1>1, <1>5 DEF QuietHolders, GatedHelperIsRecorded, GatedRunning
<1>12. LiveOwnerKeepsItsRow'  BY <1>3, <1>4 DEF LiveOwnerKeepsItsRow
<1> QED  BY <1>6, <1>7, <1>8, <1>9, <1>10, <1>11, <1>12 DEF IInv

-----------------------------------------------------------------------------
(* The theorems *)

LEMMA InvInductive == IInv /\ [Next]_vars => IInv'
<1> SUFFICES ASSUME IInv, [Next]_vars PROVE IInv'
  OBVIOUS
<1> TypeOK'  BY TypeInductive DEF IInv
<1>1. ASSUME NEW r \in Relays, Register(r) \/ Crash(r) PROVE IInv'
  BY <1>1, RegisterKeepsInv, CrashKeepsInv
<1>2. ASSUME NEW r \in Relays, TurnStep(r) PROVE IInv'
  BY <1>2, TurnAcquireKeepsInv, OpenTurnKeepsInv, SpawnKeepsInv, RecordHelperKeepsInv,
     GateRejectedKeepsInv, GoKeepsInv, CommandReturnsKeepsInv, EffectAmbiguousKeepsInv,
     ReleaseTurnKeepsInv DEF TurnStep
<1>3. ASSUME NEW r \in Relays, DogStep(r) PROVE IInv'
  BY <1>3, DogObserveKeepsInv, DogTerminatesKeepsInv, DogCannotTerminateKeepsInv,
     DogReobserveKeepsInv, DogReclaimsKeepsInv, DogReleasesKeepsInv DEF DogStep
<1>4. ASSUME NEW r \in Relays, NEW prio \in Priorities, NEW gated \in BOOLEAN,
             TurnObserve(r, prio, gated)
      PROVE  IInv'
  BY <1>4, TurnObserveKeepsInv
<1>5. ASSUME NEW h \in Helpers, HelperEnds(h) PROVE IInv'
  BY <1>5, HelperEndsKeepsInv
<1>6. CASE DeadlinePasses \/ ClearQuarantine \/ UNCHANGED vars
  BY <1>6, SidelinesKeepInv DEF DeadlinePasses, ClearQuarantine, vars
<1> QED  BY <1>1, <1>2, <1>3, <1>4, <1>5, <1>6 DEF Next

LEMMA InvHolds == Spec => []IInv
<1>1. Init => IInv
  <2> SUFFICES ASSUME Init PROVE IInv
    OBVIOUS
  <2>1. TypeOK  BY InitType
  <2>2. \A r \in Relays : turn[r] = IdleTurn /\ dog[r] = IdleDog  BY DEF Init
  <2>3. /\ IdleTurn.pc = "idle" /\ IdleTurn.seen = NoSnapshot
        /\ IdleDog.pc = "idle" /\ IdleDog.seen = NoSnapshot /\ "idle" \notin Holding
    BY DEF IdleTurn, IdleDog, Holding
  <2>4. \A h \in Helpers : helper[h].st = "unborn"  BY DEF Init
  <2>5. RowShape  BY DEF Init, RowShape, FreeRow
  <2>6. ActorsLive /\ TurnShape /\ DogShape
    BY <2>2, <2>3 DEF ActorsLive, TurnShape, DogShape
  <2>7. SnapshotsSound  BY <2>2, <2>3, NoSnapshotIsSound DEF SnapshotsSound
  <2>8. QuietHolders /\ GatedHelperIsRecorded
    BY <2>4 DEF QuietHolders, GatedRunning, GatedHelperIsRecorded
  <2>9. LiveOwnerKeepsItsRow  BY <2>2, <2>3 DEF LiveOwnerKeepsItsRow
  <2> QED  BY <2>1, <2>5, <2>6, <2>7, <2>8, <2>9 DEF IInv
<1> QED  BY <1>1, InvInductive, PTL DEF Spec

\* Mutual exclusion of gated commands: however many relays crash and however
\* stale the snapshots are, a gated helper that drives the window is the one
\* the row records, under its own acquisition.
THEOREM WindowIsSerialised == Spec => []GatedHelperIsRecorded
<1>1. IInv => GatedHelperIsRecorded  BY DEF IInv
<1> QED  BY <1>1, InvHolds, PTL

\* No acquisition takes the row from a relay that lives.
THEOREM LiveOwnerIsNeverRobbed == Spec => []LiveOwnerKeepsItsRow
<1>1. IInv => LiveOwnerKeepsItsRow  BY DEF IInv
<1> QED  BY <1>1, InvHolds, PTL

-----------------------------------------------------------------------------
(* Action properties *)

LEMMA MutexStep ==
    ASSUME IInv, [Next]_vars, mutex'.nonce # mutex.nonce
    PROVE  \/ Takeable /\ (mutex.mayExecute => quarantine'.active)
           \/ /\ mutex' = FreeRow /\ mutex.owner \in Relays /\ relay[mutex.owner] = "up"
              /\ ~ExtAlive(mutex)
<1>1. ASSUME NEW r \in Relays, TurnAcquire(r)
      PROVE  Takeable /\ (mutex.mayExecute => quarantine'.active)
  <2>1. turn[r].seen \in Snapshots /\ SoundSnapshot(turn[r].seen)
    BY DEF IInv, TypeOK, TurnRecords, SnapshotsSound
  <2>2. ~AcquireRefused(turn[r].prio, turn[r].seen)
    BY DEF AcquireRefused
  <2>3. PICK n : \/ AcquireQuarantines(turn[r].prio, turn[r].seen)
                 \/ AcquireAssigns(r, turn[r].prio, turn[r].seen, n)
    BY <1>1, <2>2 DEF TurnAcquire
  <2>4. Takeable  BY <2>1, <2>3, NotBusyIsTakeable DEF AcquireQuarantines, AcquireAssigns
  <2>5. mutex.mayExecute => quarantine'.active
    BY <2>3 DEF AcquireQuarantines, AcquireAssigns, ActivateQuarantine
  <2> QED  BY <2>4, <2>5
<1>2. ASSUME NEW r \in Relays, DogReclaims(r)
      PROVE  Takeable /\ (mutex.mayExecute => quarantine'.active)
  <2>1. dog[r].seen \in Snapshots /\ SoundSnapshot(dog[r].seen)
    BY DEF IInv, TypeOK, DogRecords, SnapshotsSound
  <2>2. ~AcquireRefused("interactive", dog[r].seen)
    BY DEF AcquireRefused
  <2>3. PICK n : AcquireAssigns(r, "interactive", dog[r].seen, n)
    BY <1>2, <2>2 DEF DogReclaims
  <2>4. Takeable  BY <2>1, <2>3, NotBusyIsTakeable DEF AcquireAssigns
  <2>5. mutex.mayExecute => quarantine'.active
    BY <2>3 DEF AcquireAssigns, ActivateQuarantine
  <2> QED  BY <2>4, <2>5
<1>3. ASSUME NEW r \in Relays, ReleaseTurn(r)
      PROVE  mutex' = FreeRow /\ mutex.owner = r /\ relay[r] = "up" /\ ~ExtAlive(mutex)
  BY <1>3 DEF ReleaseTurn, TurnAt, OwnRow
<1>4. ASSUME NEW r \in Relays, DogReleases(r)
      PROVE  mutex' = FreeRow /\ mutex.owner = r /\ relay[r] = "up" /\ ~ExtAlive(mutex)
  BY <1>4 DEF DogReleases, DogAt, IInv, DogShape, ExtAlive
<1>5. ASSUME NEW r \in Relays, OpenTurn(r) \/ RecordHelper(r) PROVE mutex'.nonce = mutex.nonce
  <2>1. \/ mutex' = mutex \/ mutex' = [mutex EXCEPT !.mayExecute = TRUE]
        \/ mutex' = [mutex EXCEPT !.mayExecute = TRUE, !.ext = turn[r].helper]
    BY <1>5 DEF OpenTurn, RecordHelper, GoTo
  <2> QED  BY <2>1 DEF IInv, TypeOK, Row
<1>6. UNCHANGED mutex
      \/ \E r \in Relays : \/ TurnAcquire(r) \/ DogReclaims(r) \/ ReleaseTurn(r) \/ DogReleases(r)
                           \/ OpenTurn(r) \/ RecordHelper(r)
  <2>1. ASSUME NEW r \in Relays, Register(r) \/ Crash(r) PROVE UNCHANGED mutex
    BY <2>1 DEF Register, Crash
  <2>2. ASSUME NEW r \in Relays, NEW h \in Helpers,
               SpawnUngated(r, h) \/ SpawnGated(r, h) \/ HelperEnds(h)
        PROVE  UNCHANGED mutex
    BY <2>2 DEF SpawnUngated, SpawnGated, HelperEnds
  <2>3. ASSUME NEW r \in Relays,
               GateRejected(r) \/ Go(r) \/ CommandReturns(r) \/ EffectAmbiguous(r)
        PROVE  UNCHANGED mutex
    BY <2>3 DEF GateRejected, Go, CommandReturns, EffectAmbiguous
  <2>4. ASSUME NEW r \in Relays,
               DogObserve(r) \/ DogTerminates(r) \/ DogCannotTerminate(r) \/ DogReobserve(r)
        PROVE  UNCHANGED mutex
    BY <2>4 DEF DogObserve, DogTerminates, DogCannotTerminate, DogReobserve
  <2>5. ASSUME NEW r \in Relays, NEW prio, NEW gated, TurnObserve(r, prio, gated)
        PROVE  UNCHANGED mutex
    BY <2>5 DEF TurnObserve
  <2>6. ASSUME NEW h \in Helpers, HelperEnds(h) PROVE UNCHANGED mutex
    BY <2>6 DEF HelperEnds
  <2>7. CASE DeadlinePasses \/ ClearQuarantine \/ UNCHANGED vars
    BY <2>7 DEF DeadlinePasses, ClearQuarantine, vars
  <2> QED  BY <2>1, <2>2, <2>3, <2>4, <2>5, <2>6, <2>7 DEF Next, TurnStep, DogStep
<1> QED  BY <1>1, <1>2, <1>3, <1>4, <1>5, <1>6

\* The row changes hands only over dead processes, or by its owner's release.
THEOREM HandoverIsSafe == Spec => HandoverNeedsDeadProcesses
<1>1. ASSUME IInv, [Next]_vars, mutex.owner # None, mutex'.nonce # mutex.nonce
      PROVE  ~ExtAlive(mutex) /\ (relay[mutex.owner] = "up" => mutex' = FreeRow)
  <2>1. CASE Takeable
    BY <1>1, <2>1 DEF Takeable, FreeRow, ExtAlive, Alive
  <2>2. CASE ~ExtAlive(mutex) /\ mutex' = FreeRow  BY <2>2
  <2> QED  BY <1>1, <2>1, <2>2, MutexStep
<1>2. IInv /\ [Next]_vars =>
        [mutex.owner # None /\ mutex'.nonce # mutex.nonce =>
           /\ ~ExtAlive(mutex)
           /\ relay[mutex.owner] = "up" => mutex' = FreeRow]_vars
  BY <1>1
<1> QED  BY <1>2, InvHolds, PTL DEF Spec, HandoverNeedsDeadProcesses

\* Taking a row that crossed mayExecute from a dead relay raises the hold.
THEOREM ReclaimIsHeld == Spec => ReclaimRaisesHold
<1>1. ASSUME IInv, [Next]_vars, mutex.mayExecute, relay[mutex.owner] = "dead",
             mutex'.nonce # mutex.nonce
      PROVE  quarantine'.active
  BY <1>1, MutexStep
<1>2. IInv /\ [Next]_vars =>
        [mutex.mayExecute /\ relay[mutex.owner] = "dead" /\ mutex'.nonce # mutex.nonce =>
           quarantine'.active]_vars
  BY <1>1
<1> QED  BY <1>2, InvHolds, PTL DEF Spec, ReclaimRaisesHold

-----------------------------------------------------------------------------
(* The lease implements the exclusive window *)

\* The driver is the gated helper that runs.
DriverRuns ==
    /\ \A h \in Helpers : GatedRunning(h) <=> Driver = h
    /\ (\A h \in Helpers : ~GatedRunning(h)) => Driver = None

LEMMA DriverIsRunning == IInv => DriverRuns
<1> SUFFICES ASSUME IInv PROVE DriverRuns
  OBVIOUS
<1>1. mutex.ext \in Helpers \cup {None} /\ None \notin Helpers
  BY ConstantsAssumption DEF IInv, TypeOK, Row
<1>2. mutex.ext # None => helper[mutex.ext].gated  BY DEF IInv, RowShape
<1>3. \A h \in Helpers : GatedRunning(h) => mutex.ext = h
  BY DEF IInv, GatedHelperIsRecorded, GatedRunning
<1> QED  BY <1>1, <1>2, <1>3 DEF DriverRuns, Driver, GatedRunning

LEMMA DriverIsRunningNext == IInv' => DriverRuns'
BY DriverIsRunning, PTL

\* A step in which no gated helper starts or stops running, or ends, is no
\* step of the window.
LEMMA QuietStep ==
    ASSUME IInv, IInv',
           \A h \in Helpers : /\ GatedRunning(h)' <=> GatedRunning(h)
                              /\ h \in Finished' <=> h \in Finished
    PROVE  UNCHANGED <<Driver, Finished>>
<1>0. DriverRuns /\ DriverRuns'  BY DriverIsRunning, DriverIsRunningNext
<1>1. Finished' = Finished  BY DEF Finished
<1>2. Driver' = Driver
  <2>1. CASE \E h \in Helpers : GatedRunning(h)
    <3> PICK h \in Helpers : GatedRunning(h)  BY <2>1
    <3>1. Driver = h  BY <1>0 DEF DriverRuns
    <3>2. Driver' = h  BY <1>0 DEF DriverRuns
    <3> QED  BY <3>1, <3>2
  <2>2. CASE \A h \in Helpers : ~GatedRunning(h)
    <3>1. Driver = None  BY <2>2, <1>0 DEF DriverRuns
    <3>2. Driver' = None
      <4>1. \A h \in Helpers : ~GatedRunning(h)'  BY <2>2
      <4> QED  BY <4>1, <1>0 DEF DriverRuns
    <3> QED  BY <3>1, <3>2
  <2> QED  BY <2>1, <2>2
<1> QED  BY <1>1, <1>2

\* One gated helper moves: it ends, is discarded before it ran, or begins.
LEMMA HelperMoves ==
    ASSUME IInv, IInv', NEW h \in Helpers, helper[h].gated, helper'[h].gated,
           \A k \in Helpers : k # h => helper'[k] = helper[k],
           \/ helper[h].st = "running" /\ helper'[h].st \in {"lingering", "dead"}
           \/ helper[h].st = "blocked" /\ helper'[h].st = "dead"
           \/ /\ helper[h].st = "blocked" /\ helper'[h].st = "running"
              /\ \A k \in Helpers : ~GatedRunning(k)
    PROVE  Window!Next
<1>0. DriverRuns /\ DriverRuns'  BY DriverIsRunning, DriverIsRunningNext
<1>1. h # None  BY ConstantsAssumption
<1>2. \A k \in Helpers : k # h => /\ GatedRunning(k)' <=> GatedRunning(k)
                                  /\ k \in Finished' <=> k \in Finished
  BY DEF GatedRunning, Finished
<1>3. CASE helper[h].st = "running" /\ helper'[h].st \in {"lingering", "dead"}
  <2>1. Driver = h  BY <1>3, <1>0 DEF GatedRunning, DriverRuns
  <2>2. Driver' = None
    <3>1. ASSUME NEW k \in Helpers PROVE ~GatedRunning(k)'
      <4>1. CASE k = h  BY <1>3, <4>1 DEF GatedRunning
      <4>2. CASE k # h  BY <1>2, <2>1, <4>2, <1>0 DEF DriverRuns
      <4> QED  BY <4>1, <4>2
    <3> QED  BY <3>1, <1>0 DEF DriverRuns
  <2>3. Finished' = Finished \cup {h}  BY <1>2, <1>3 DEF Finished
  <2> QED  BY <2>1, <2>2, <2>3 DEF Window!Next, Window!End
<1>4. CASE helper[h].st = "blocked" /\ helper'[h].st = "dead"
  <2>1. \A k \in Helpers : GatedRunning(k)' <=> GatedRunning(k)
    BY <1>2, <1>4 DEF GatedRunning
  <2>2. Driver # h  BY <1>4, <1>0 DEF GatedRunning, DriverRuns
  <2>3. Driver' = Driver
    <3>1. CASE \E k \in Helpers : GatedRunning(k)
      <4> PICK k \in Helpers : GatedRunning(k)  BY <3>1
      <4>1. Driver = k  BY <1>0 DEF DriverRuns
      <4>2. GatedRunning(k)'  BY <2>1
      <4>3. Driver' = k  BY <4>2, <1>0 DEF DriverRuns
      <4> QED  BY <4>1, <4>3
    <3>2. CASE \A k \in Helpers : ~GatedRunning(k)
      <4>1. \A k \in Helpers : ~GatedRunning(k)'  BY <2>1, <3>2
      <4>2. Driver' = None  BY <4>1, <1>0 DEF DriverRuns
      <4> QED  BY <3>2, <4>2, <1>0 DEF DriverRuns
    <3> QED  BY <3>1, <3>2
  <2>4. h \notin Finished /\ Finished' = Finished \cup {h}  BY <1>2, <1>4 DEF Finished
  <2> QED  BY <2>2, <2>3, <2>4 DEF Window!Next, Window!Discard
<1>5. CASE /\ helper[h].st = "blocked" /\ helper'[h].st = "running"
           /\ \A k \in Helpers : ~GatedRunning(k)
  <2>1. Driver = None  BY <1>5, <1>0 DEF DriverRuns
  <2>2. GatedRunning(h)'  BY <1>5 DEF GatedRunning
  <2>3. Driver' = h  BY <2>2, <1>0 DEF DriverRuns
  <2>4. h \notin Finished /\ Finished' = Finished  BY <1>2, <1>5 DEF Finished
  <2> QED  BY <2>1, <2>3, <2>4 DEF Window!Next, Window!Begin
<1> QED  BY <1>3, <1>4, <1>5

LEMMA StepRefines ==
    ASSUME IInv, IInv', [Next]_vars
    PROVE  [Window!Next]_<<Driver, Finished>>
<1>1. CASE UNCHANGED helper
  <2>1. \A h \in Helpers : /\ GatedRunning(h)' <=> GatedRunning(h)
                           /\ h \in Finished' <=> h \in Finished
    BY <1>1 DEF GatedRunning, Finished
  <2> QED  BY <2>1, QuietStep
<1>2. ASSUME NEW r \in Relays, NEW h \in Helpers, SpawnUngated(r, h) \/ SpawnGated(r, h)
      PROVE  UNCHANGED <<Driver, Finished>>
  <2>1. /\ helper[h].st = "unborn"
        /\ \A k \in Helpers : k # h => helper'[k] = helper[k]
        /\ helper'[h].st \in {"blocked", "running"}
        /\ helper'[h].gated => helper'[h].st = "blocked"
    BY <1>2 DEF SpawnUngated, SpawnGated, Spawn, TurnAt, IInv, TurnShape, TypeOK
  <2>2. \A k \in Helpers : /\ GatedRunning(k)' <=> GatedRunning(k)
                           /\ k \in Finished' <=> k \in Finished
    BY <2>1 DEF GatedRunning, Finished
  <2> QED  BY <2>2, QuietStep
<1>3. ASSUME NEW r \in Relays, GateRejected(r) \/ Go(r)
      PROVE  [Window!Next]_<<Driver, Finished>>
  <2> DEFINE h == turn[r].helper
  <2>0. turn[r].pc \in {"spawned", "recorded"} /\ turn[r].pc \in Holding
    BY <1>3 DEF GateRejected, Go, TurnAt, Holding, TurnPcs
  <2>1. /\ h \in Helpers /\ helper[h].gated /\ helper[h].st \in {"blocked", "dead"}
        /\ \A k \in Helpers : ~GatedRunning(k)
    <3>1. h # None /\ helper[h].gated /\ helper[h].st \in {"blocked", "dead"}
      BY <2>0 DEF IInv, TurnShape
    <3>2. h \in Helpers  BY <3>1 DEF IInv, TypeOK, TurnRecords
    <3>3. \A k \in Helpers : ~GatedRunning(k)  BY <2>0 DEF IInv, QuietHolders
    <3> QED  BY <3>1, <3>2, <3>3
  <2>2. /\ helper'[h].gated = helper[h].gated
        /\ helper'[h].st \in IF helper[h].st = "blocked" THEN {"running", "dead"} ELSE {"dead"}
        /\ \A k \in Helpers : k # h => helper'[k] = helper[k]
    <3>1. helper \in [Helpers -> [st : HelperStates, nonce : Nonces \cup {None}, gated : BOOLEAN]]
      BY DEF IInv, TypeOK
    <3>2. CASE GateRejected(r)
      <4>1. helper' = [helper EXCEPT ![h].st = "dead"]  BY <3>2 DEF GateRejected
      <4> HIDE DEF h
      <4> QED  BY <2>1, <3>1, <4>1
    <3>3. CASE Go(r)
      <4>1. helper' = [helper EXCEPT ![h].st = IF @ = "blocked" THEN "running" ELSE @]
        BY <3>3 DEF Go
      <4> HIDE DEF h
      <4> QED  BY <2>1, <3>1, <4>1
    <3> QED  BY <1>3, <3>2, <3>3
  <2> HIDE DEF h
  <2>3. CASE helper[h].st = "blocked"  BY <2>1, <2>2, <2>3, HelperMoves
  <2>4. CASE helper[h].st = "dead"
    <3>1. \A k \in Helpers : /\ GatedRunning(k)' <=> GatedRunning(k)
                             /\ k \in Finished' <=> k \in Finished
      BY <2>1, <2>2, <2>4 DEF GatedRunning, Finished
    <3> QED  BY <3>1, QuietStep
  <2> QED  BY <2>1, <2>3, <2>4
<1>4. ASSUME NEW h \in Helpers, HelperEnds(h)
      PROVE  [Window!Next]_<<Driver, Finished>>
  <2>1. /\ helper'[h].gated = helper[h].gated
        /\ \A k \in Helpers : k # h => helper'[k] = helper[k]
        /\ \/ helper[h].st = "running" /\ helper'[h].st \in {"lingering", "dead"}
           \/ helper[h].st = "blocked" /\ helper'[h].st = "dead"
           \/ helper[h].st = "lingering" /\ helper'[h].st = "dead"
    BY <1>4 DEF HelperEnds, IInv, TypeOK
  <2>2. CASE helper[h].gated /\ helper[h].st # "lingering"  BY <2>1, <2>2, HelperMoves
  <2>3. CASE ~helper[h].gated \/ helper[h].st = "lingering"
    <3>1. \A k \in Helpers : /\ GatedRunning(k)' <=> GatedRunning(k)
                             /\ k \in Finished' <=> k \in Finished
      BY <2>1, <2>3 DEF GatedRunning, Finished
    <3> QED  BY <3>1, QuietStep
  <2> QED  BY <2>2, <2>3
<1>5. ASSUME NEW r \in Relays, DogTerminates(r)
      PROVE  [Window!Next]_<<Driver, Finished>>
  <2> DEFINE h == dog[r].seen.row.ext
  <2>1. h # None /\ helper[h].gated /\ helper[h].st # "unborn"
    BY <1>5 DEF DogTerminates, DogAt, IInv, DogShape, SnapshotsSound, SoundSnapshot
  <2>2. h \in Helpers  BY <2>1 DEF IInv, TypeOK, DogRecords, Snapshots, Row
  <2>3. /\ helper[h].st # "lingering" /\ helper'[h].st = "dead" /\ helper'[h].gated = helper[h].gated
        /\ \A k \in Helpers : k # h => helper'[k] = helper[k]
    BY <1>5, <2>2 DEF DogTerminates, IInv, TypeOK
  <2>4. helper[h].st \in {"blocked", "running", "dead"}
    BY <2>1, <2>2, <2>3 DEF IInv, TypeOK, HelperStates
  <2> HIDE DEF h
  <2>5. CASE helper[h].st # "dead"  BY <2>1, <2>2, <2>3, <2>4, <2>5, HelperMoves
  <2>6. CASE helper[h].st = "dead"
    <3>1. \A k \in Helpers : /\ GatedRunning(k)' <=> GatedRunning(k)
                             /\ k \in Finished' <=> k \in Finished
      BY <2>2, <2>3, <2>6 DEF GatedRunning, Finished
    <3> QED  BY <3>1, QuietStep
  <2> QED  BY <2>5, <2>6
<1>6. ASSUME NEW r \in Relays, RecordHelper(r) PROVE UNCHANGED helper
  BY <1>6, OneHolder DEF RecordHelper, TurnAt, Holding, TurnPcs
<1>7. \/ UNCHANGED helper
      \/ \E r \in Relays : \/ \E h \in Helpers : SpawnUngated(r, h) \/ SpawnGated(r, h)
                           \/ GateRejected(r) \/ Go(r) \/ DogTerminates(r) \/ RecordHelper(r)
      \/ \E h \in Helpers : HelperEnds(h)
  <2>1. ASSUME NEW r \in Relays,
               \/ Register(r) \/ Crash(r) \/ TurnAcquire(r) \/ OpenTurn(r)
               \/ CommandReturns(r) \/ EffectAmbiguous(r) \/ ReleaseTurn(r)
        PROVE  UNCHANGED helper
    BY <2>1 DEF Register, Crash, TurnAcquire, OpenTurn, CommandReturns, EffectAmbiguous, ReleaseTurn
  <2>2. ASSUME NEW r \in Relays,
               \/ DogObserve(r) \/ DogCannotTerminate(r) \/ DogReobserve(r)
               \/ DogReclaims(r) \/ DogReleases(r)
        PROVE  UNCHANGED helper
    BY <2>2 DEF DogObserve, DogCannotTerminate, DogReobserve, DogReclaims, DogReleases
  <2>3. ASSUME NEW r \in Relays, NEW prio, NEW gated, TurnObserve(r, prio, gated)
        PROVE  UNCHANGED helper
    BY <2>3 DEF TurnObserve
  <2>4. CASE DeadlinePasses \/ ClearQuarantine \/ UNCHANGED vars
    BY <2>4 DEF DeadlinePasses, ClearQuarantine, vars
  <2>5. ASSUME NEW r \in Relays, TurnStep(r)
        PROVE  \/ UNCHANGED helper
               \/ \E h \in Helpers : SpawnUngated(r, h) \/ SpawnGated(r, h)
               \/ GateRejected(r) \/ Go(r) \/ RecordHelper(r)
    BY <2>1, <2>5 DEF TurnStep
  <2>6. ASSUME NEW r \in Relays, DogStep(r) PROVE UNCHANGED helper \/ DogTerminates(r)
    BY <2>2, <2>6 DEF DogStep
  <2> QED  BY <2>1, <2>3, <2>4, <2>5, <2>6 DEF Next
<1> QED  BY <1>1, <1>2, <1>3, <1>4, <1>5, <1>6, <1>7

\* Every behaviour of the lease, crashes, stale snapshots and recovery passes
\* included, is one of the exclusive window.
THEOREM Refinement == Spec => ImplementsWindow
<1>1. Init => Window!Init
  <2> SUFFICES ASSUME Init PROVE Window!Init
    OBVIOUS
  <2>1. Driver = None  BY DEF Init, Driver, FreeRow
  <2>2. Finished = {}  BY DEF Init, Finished
  <2> QED  BY <2>1, <2>2 DEF Window!Init
<1>2. IInv /\ IInv' /\ [Next]_vars => [Window!Next]_<<Driver, Finished>>
  BY StepRefines
<1> QED  BY <1>1, <1>2, InvHolds, PTL DEF Spec, ImplementsWindow, Window!Spec
=============================================================================
