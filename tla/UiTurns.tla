------------------------------- MODULE UiTurns -------------------------------
(***************************************************************************)
(* The in-process UI queue of one relay (writes/ui-lock.ts): who drives    *)
(* the window next inside this process, and how its turns use the          *)
(* process-shared lease of the module UiLease.                             *)
(*                                                                         *)
(* A plain call takes one turn and gives the lease back with it.  A        *)
(* durable Workflow effect takes several turns and keeps one lease from    *)
(* its first turn until its receipt is committed.  JavaScript runs each    *)
(* synchronous stretch whole: joining the queue, or settling a turn,        *)
(* starts the next turn and tries the lease in the same step.              *)
(***************************************************************************)
EXTENDS Naturals, Sequences, FiniteSets

CONSTANTS
    Plain,           \* ordinary turns, of the phone or of a background queue
    Effects,         \* durable effects
    MAX_UI_QUEUE,    \* waiting turns past this are refused
    MaxTurns,        \* bound: turns of one effect
    None,
    Other            \* the lease is refused from outside: another relay, or a hold

Calls == Plain \cup Effects

ASSUME TurnsAssumption ==
    /\ Plain \cap Effects = {}
    /\ None \notin Calls \cup {Other} /\ Other \notin Calls
    /\ MAX_UI_QUEUE \in Nat /\ MaxTurns \in Nat \ {0}

VARIABLES
    uiRunning,   \* the local lock is taken
    uiWaiting,   \* the queue
    uiSeq,       \* arrivals so far
    holder,      \* whose turn or effect holds the shared lease
    call         \* each call's progress

vars == <<uiRunning, uiWaiting, uiSeq, holder, call>>

\* "ended": the operation settled, the lock is not free yet.  "between": an
\* effect outside its turns.
Pcs == {"idle", "waiting", "started", "operating", "ended", "between", "done"}

\* Why a turn ran no operation: the queue was full, the lease was refused
\* from outside, by a running effect of this relay or by a row that effect
\* could not release; or the dispatch failed.
Reasons == {"none", "full", "foreign", "effect", "retained", "failed"}

CallRecord == [pc : Pcs, rank : {0, 1}, seq : Nat, turns : 0..MaxTurns,
               fired : {"no", "yes", "failed"}, why : Reasons]

Init ==
    /\ uiRunning = FALSE
    /\ uiWaiting = <<>>
    /\ uiSeq = 0
    /\ holder = None
    /\ call = [c \in Calls |-> [pc |-> "idle", rank |-> 0, seq |-> 0, turns |-> 0,
                                fired |-> "no", why |-> "none"]]

-----------------------------------------------------------------------------
(* The queue *)

\* Deviation: equals overtake.
InsertBeforeEquals(q, k, c) ==
    LET n == Cardinality({i \in 1..Len(q) : k[q[i]].rank < k[c].rank})
    IN  SubSeq(q, 1, n) \o <<c>> \o SubSeq(q, n + 1, Len(q))

\* Stable insert: before the first waiter of a higher rank.
Insert(q, k, c) ==
    LET ahead == {i \in 1..Len(q) : k[q[i]].rank <= k[c].rank}
        n == Cardinality(ahead)
    IN  SubSeq(q, 1, n) \o <<c>> \o SubSeq(q, n + 1, Len(q))

Refusal(held) ==
    IF held = Other THEN "foreign"
    ELSE IF call[held].pc = "done" THEN "retained" ELSE "effect"

\* pumpUi with a free lock: the next waiter takes the lock and, in the same
\* synchronous stretch, reuses its effect's lease or tries to acquire one.
PumpUi(q, k) ==
    IF q = <<>>
    THEN uiRunning' = FALSE /\ uiWaiting' = q /\ call' = k /\ UNCHANGED holder
    ELSE LET n == Head(q)
             leased == holder \in {None, n}
         IN  /\ uiRunning' = TRUE
             /\ uiWaiting' = Tail(q)
             /\ holder' = IF leased THEN n ELSE holder
             /\ call' = [k EXCEPT ![n].pc = IF leased THEN "started" ELSE "ended",
                                  ![n].why = IF leased THEN "none" ELSE Refusal(holder)]

\* uiTurn: the caller is refused, or joins the line and pumps it.
UiTurn(c, rank) ==
    LET asked == [call EXCEPT ![c].rank = rank, ![c].why = "none", ![c].turns = @ + 1]
        joined == [asked EXCEPT ![c].pc = "waiting", ![c].seq = uiSeq]
        line == Insert(uiWaiting, joined, c)
    IN  IF Len(uiWaiting) >= MAX_UI_QUEUE
        THEN /\ call' = [asked EXCEPT ![c].pc = IF c \in Effects THEN "between" ELSE "done",
                                      ![c].why = "full"]
             /\ UNCHANGED <<uiRunning, uiWaiting, uiSeq, holder>>
        ELSE /\ uiSeq' = uiSeq + 1
             /\ IF uiRunning
                THEN uiWaiting' = line /\ call' = joined /\ UNCHANGED <<uiRunning, holder>>
                ELSE PumpUi(line, joined)

-----------------------------------------------------------------------------
(* Callers *)

\* A write of the phone, or of a background queue, asks for a turn.
PlainCall(c) ==
    /\ call[c].pc = "idle"
    /\ \E rank \in {0, 1} : UiTurn(c, rank)

\* A durable effect asks for its next turn; effects run in the background.
EffectCall(e) ==
    /\ call[e].pc \in {"idle", "between"} /\ call[e].turns < MaxTurns
    /\ UiTurn(e, 1)

\* The started turn fires its effect's dispatch hook, once, marks the lease
\* and enters its operation.  Either may throw, and a hook that threw stays
\* rejected for the effect's later turns.
BeginOperation(c) ==
    /\ call[c].pc = "started"
    /\ LET hook == IF c \in Plain THEN {"no"}
                   ELSE IF call[c].fired = "no" THEN {"yes", "failed"} ELSE {call[c].fired}
       IN  \E fired \in hook, marked \in BOOLEAN :
             LET enters == marked /\ fired # "failed" IN
             call' = [call EXCEPT ![c].fired = fired,
                                  ![c].pc = IF enters THEN "operating" ELSE "ended",
                                  ![c].why = IF enters THEN "none" ELSE "failed"]
    /\ UNCHANGED <<uiRunning, uiWaiting, uiSeq, holder>>

EndOperation(c) ==
    /\ call[c].pc = "operating"
    /\ call' = [call EXCEPT ![c].pc = "ended"]
    /\ UNCHANGED <<uiRunning, uiWaiting, uiSeq, holder>>

\* Deviation: an effect's turn gives the lease back like a plain one.
ReleaseLeaseOfAny(c) ==
    /\ call[c].pc = "ended" /\ holder = c
    /\ holder' = None
    /\ UNCHANGED <<uiRunning, uiWaiting, uiSeq, call>>

\* A plain turn awaits the release of its own lease before it settles.
ReleaseLease(c) ==
    /\ c \in Plain /\ call[c].pc = "ended" /\ holder = c
    /\ holder' = None
    /\ UNCHANGED <<uiRunning, uiWaiting, uiSeq, call>>

\* Deviation: the lock is freed but the line is not pumped.
SettleWithoutPump(c) ==
    /\ call[c].pc = "ended"
    /\ c \in Plain => holder # c
    /\ uiRunning' = FALSE
    /\ call' = [call EXCEPT ![c].pc = IF c \in Effects THEN "between" ELSE "done"]
    /\ UNCHANGED <<uiWaiting, uiSeq, holder>>

\* release(), before the caller is told: the lock is free and the next
\* waiter starts.
Settle(c) ==
    /\ call[c].pc = "ended"
    /\ c \in Plain => holder # c
    /\ PumpUi(uiWaiting, [call EXCEPT ![c].pc = IF c \in Effects THEN "between" ELSE "done"])
    /\ UNCHANGED uiSeq

\* The effect commits its receipt, or fails, and then gives up its lease.
\* The row is retained when its helper still reads as alive.
EffectEnds(e) ==
    /\ call[e].pc = "between"
    /\ call' = [call EXCEPT ![e].pc = "done"]
    /\ holder' \in IF holder = e THEN {None, e} ELSE {holder}
    /\ UNCHANGED <<uiRunning, uiWaiting, uiSeq>>

\* Another relay takes and leaves the lease.
OtherHolds ==
    /\ holder \in {None, Other}
    /\ holder' = IF holder = None THEN Other ELSE None
    /\ UNCHANGED <<uiRunning, uiWaiting, uiSeq, call>>

-----------------------------------------------------------------------------
(* Specification *)

TurnProgress(c) == BeginOperation(c) \/ EndOperation(c) \/ ReleaseLease(c) \/ Settle(c)

Next ==
    \/ \E c \in Plain : PlainCall(c)
    \/ \E e \in Effects : EffectCall(e) \/ EffectEnds(e)
    \/ \E c \in Calls : TurnProgress(c)
    \/ OtherHolds

Spec == Init /\ [][Next]_vars

\* The event loop settles what was started: every command has a timeout.
FairSpec == Spec /\ WF_vars(\E c \in Calls : TurnProgress(c))

-----------------------------------------------------------------------------
(* Properties *)

InTurn == {c \in Calls : call[c].pc \in {"started", "operating", "ended"}}

\* Every variable has its type.
TypeOK ==
    /\ uiRunning \in BOOLEAN
    /\ uiWaiting \in Seq(Calls)
    /\ uiSeq \in Nat
    /\ holder \in Calls \cup {None, Other}
    /\ call \in [Calls -> CallRecord]

\* The lock is taken exactly while one turn runs, and nobody waits for a free
\* lock: no settlement forgets the line behind it.  The line is bounded, holds
\* each waiting call once, and is ordered by rank and, within a rank, by
\* arrival, although effects join it again and again: the person wins.
LineIsFair ==
    /\ Cardinality(InTurn) = IF uiRunning THEN 1 ELSE 0
    /\ ~uiRunning => uiWaiting = <<>>
    /\ Len(uiWaiting) <= MAX_UI_QUEUE
    /\ Cardinality({c \in Calls : call[c].pc = "waiting"}) = Len(uiWaiting)
    /\ \A i \in 1..Len(uiWaiting) :
         /\ call[uiWaiting[i]].pc = "waiting"
         /\ \A j \in 1..(i - 1) :
              LET a == call[uiWaiting[j]]
                  b == call[uiWaiting[i]]
              IN  a.rank < b.rank \/ (a.rank = b.rank /\ a.seq < b.seq)

\* The window is touched under the shared lease only, and by an effect only
\* after its dispatch was recorded.
OperatingIsLeased ==
    \A c \in Calls : call[c].pc = "operating" =>
        holder = c /\ (c \in Effects => call[c].fired = "yes")

\* An effect keeps the lease it has until it has settled: no other process
\* enters the window between its turns, or before its receipt is decided.
EffectKeepsLease ==
    [][\A e \in Effects : holder = e /\ holder' # e => call[e].pc = "between" /\ call'[e].pc = "done"]_vars

\* Every caller that joined the line is answered.
WaiterIsAnswered ==
    \A c \in Calls : call[c].pc = "waiting" ~> call[c].pc \in {"between", "done"}
=============================================================================
