--------------------------- MODULE AutoModelQueue ---------------------------
(* The first prompt of a chat whose model the relay chooses                *)
(* (src/src/agents/auto-model/queue.ts, and the delivery and the checks    *)
(* src/src/http/services/auto-model.ts gives it). The job is a file shared *)
(* by every relay on the Mac; a lock file beside it is to keep two of them *)
(* from routing it at once, and is taken from an owner that died in three  *)
(* file operations another relay can come between. Under the lock: probe   *)
(* the screen, look at the target, choose, then set the chat up and type   *)
(* under the UI turn. One chat, one text; a submission after a             *)
(* cancellation is a new generation of the job.                            *)
EXTENDS Integers, FiniteSets

CONSTANTS Relays,
          MaxAttempts,   \* deliveries that count, 3 in the code
          MaxEarly,      \* deliveries before the workspace is ready, 2
          MaxJobs,       \* new submissions of the prompt
          MaxFaults      \* cancellations, relays that die, locks of the screen, typed
                         \* prompts whose row shows up late, together

ASSUME AutoAssumption == Relays # {} /\ "none" \notin Relays

VARIABLES job,     \* the saved job
          lock,    \* the lock file beside it
          relay,   \* each relay: its life, what it is doing, its copy of the job
          turn,    \* who has the UI turn
          target,  \* what Conductor shows of the target
          old,     \* a quarter of an hour has passed since the job was made or last tried
          faults   \* what has been spent of MaxFaults

autoVars == <<job, lock, relay, turn, target, old, faults>>

-----------------------------------------------------------------------------
NoJob == [status |-> "none", gen |-> 0, chosen |-> FALSE, bound |-> FALSE,
          attempts |-> 0, early |-> 0]

NewJob(gen) == [NoJob EXCEPT !.status = "waiting", !.gen = gen]

Free == [owner |-> "none", life |-> 0, dispatching |-> FALSE]

Asleep(life) == [up |-> TRUE, life |-> life, pc |-> "idle", mine |-> NoJob, ready |-> FALSE]

\* The lock file may be left from an earlier submission to the chat, which was
\* cancelled after the relay that worked on it had died.
AutoInit ==
    /\ job = NoJob /\ turn = "none" /\ old = FALSE
    /\ lock \in {Free, [Free EXCEPT !.owner = CHOOSE r \in Relays : TRUE]}
    /\ relay = [r \in Relays |-> Asleep(1)]
    /\ target = [ready |-> FALSE, session |-> FALSE, seen |-> FALSE, typed |-> 0,
               other |-> FALSE, unseen |-> 0, late |-> 0, locked |-> FALSE]
    /\ faults = 0

Fault == faults < MaxFaults /\ faults' = faults + 1

Live(status) == status \in {"selecting", "waiting"}

\* The owner of a lock is alive: its process is.
Alive(l) == l.owner \in Relays /\ relay[l.owner].up /\ relay[l.owner].life = l.life

Mine(r) == relay[r].mine

\* The saved job is the one the relay works on, and still wanted.
IsCurrent(r) == job.gen = Mine(r).gen /\ Live(job.status)

At(r, pc) == relay[r].up /\ relay[r].pc = pc

Goes(r, pc) == relay' = [relay EXCEPT ![r].pc = pc]

\* The step is over: whoever's lock is there is removed.
Releases(r) ==
    /\ relay' = [relay EXCEPT ![r].pc = "idle", ![r].mine = NoJob]
    /\ lock' = Free
    /\ turn' = IF turn = r THEN "none" ELSE turn

\* The relay's copy becomes the saved job, and the step is over.
SavesAndReleases(r, j) == job' = j /\ Releases(r)

-----------------------------------------------------------------------------
(* The callers.                                                            *)

\* accept: a new submission, or a failed one tried again with what it chose.
Submits ==
    /\ \/ /\ job.status \in {"none", "cancelled"} /\ job.gen < MaxJobs
          /\ job' = NewJob(job.gen + 1)
       \/ /\ job.status = "failed"
          /\ job' = [job EXCEPT !.status = "waiting", !.attempts = 0, !.early = 0]
    /\ old' = FALSE
    /\ UNCHANGED <<lock, relay, turn, target, faults>>

\* cancel is refused while a live relay says it is dispatching.
Cancels ==
    /\ Live(job.status) \/ job.status = "failed"
    /\ ~(lock.dispatching /\ Alive(lock))
    /\ job' = [job EXCEPT !.status = "cancelled"] /\ Fault
    /\ UNCHANGED <<lock, relay, turn, target, old>>

-----------------------------------------------------------------------------
(* The lock.                                                               *)

HeldByAnybody(l) == l # Free

Held(l) == Alive(l)

\* A tick reads the lock: none, a live one, or one to take over.
ReadsLock(r) ==
    /\ At(r, "idle") /\ Live(job.status) /\ ~Held(lock)
    /\ Goes(r, IF lock = Free THEN "create" ELSE "steal")
    /\ UNCHANGED <<job, lock, turn, target, old, faults>>

\* The lock is removed, whoever has made it since it was read.
RemovesLock(r) ==
    /\ At(r, "steal")
    /\ lock' = Free /\ Goes(r, "create")
    /\ UNCHANGED <<job, turn, target, old, faults>>

\* It is created only where there is none; then the job is read again, and may
\* turn out to be done or to have its receipt. A step begins with the probe of
\* the screen.
CreatesLock(r) ==
    /\ At(r, "create")
    /\ LET found == job.bound /\ target.seen
       IN  IF lock # Free \/ ~Live(job.status) \/ found
           THEN /\ Goes(r, "idle")
                /\ job' = IF lock = Free /\ Live(job.status)
                          THEN [job EXCEPT !.status = "delivered"] ELSE job
                /\ UNCHANGED lock
           ELSE /\ lock' = [owner |-> r, life |-> relay[r].life, dispatching |-> FALSE]
                /\ relay' = [relay EXCEPT ![r].pc = "probe", ![r].mine = job]
                /\ UNCHANGED job
    /\ UNCHANGED <<turn, target, old, faults>>

-----------------------------------------------------------------------------
(* A step of the job.                                                      *)

Received(r) == Mine(r).bound /\ target.seen

\* inspect: Auto is only for a chat without a message.
Obsolete == target.session /\ (target.seen \/ target.other)

\* The probe answers: somebody else ended the job, or the screen is locked.
StopsAtProbe(r) ==
    /\ At(r, "probe") /\ (~IsCurrent(r) \/ target.locked)
    /\ IF IsCurrent(r) THEN SavesAndReleases(r, Mine(r)) /\ old' = FALSE
       ELSE Releases(r) /\ UNCHANGED <<job, old>>
    /\ UNCHANGED <<target, faults>>

Looking(r) == At(r, "probe") /\ IsCurrent(r) /\ ~target.locked

FindsChatStarted(r) ==
    /\ Looking(r) /\ Obsolete
    /\ SavesAndReleases(r, [Mine(r) EXCEPT !.status = "cancelled"])
    /\ UNCHANGED <<target, old, faults>>

\* No chat yet, or early deliveries spent: it waits, for a quarter of an hour.
Unready(r) == ~target.session \/ (~target.ready /\ Mine(r).early >= MaxEarly)

FindsItUnready(r) ==
    /\ Looking(r) /\ ~Obsolete /\ Unready(r)
    /\ IF old THEN SavesAndReleases(r, [Mine(r) EXCEPT !.status = "failed"])
       ELSE job' = job /\ Releases(r)
    /\ UNCHANGED <<target, old, faults>>

\* The target is bound, with the cursor its receipt is read by; then a model is
\* chosen unless one was.
Binds(r) ==
    /\ Looking(r) /\ ~Obsolete /\ ~Unready(r)
    /\ LET b == [Mine(r) EXCEPT !.bound = TRUE,
                                !.status = IF Mine(r).chosen THEN @ ELSE "selecting"]
       IN  /\ job' = b
           /\ relay' = [relay EXCEPT ![r].mine = b, ![r].ready = target.ready,
                                     ![r].pc = IF b.chosen THEN "turn" ELSE "choose"]
    /\ UNCHANGED <<lock, turn, target, old, faults>>

Chooses(r) ==
    /\ At(r, "choose")
    /\ IF ~IsCurrent(r) THEN job' = job /\ Releases(r)
       ELSE LET c == [Mine(r) EXCEPT !.chosen = TRUE, !.status = "waiting"]
            IN  /\ job' = c /\ relay' = [relay EXCEPT ![r].mine = c, ![r].pc = "turn"]
                /\ UNCHANGED <<lock, turn>>
    /\ UNCHANGED <<target, old, faults>>

\* The router fails, or the chat cannot take an Auto prompt any more.
StepThrows(r) ==
    /\ Looking(r) \/ (At(r, "choose") /\ IsCurrent(r))
    /\ SavesAndReleases(r, [Mine(r) EXCEPT !.status = "failed"])
    /\ UNCHANGED <<target, old, faults>>

-----------------------------------------------------------------------------
(* Delivery, under the UI turn.                                            *)

\* What the saved job becomes of a delivery's result, if it is still current.
AfterDelivery(r, result) ==
    LET counted == IF relay[r].ready THEN [Mine(r) EXCEPT !.attempts = @ + 1]
                   ELSE [Mine(r) EXCEPT !.early = @ + 1]
    IN  CASE result = "ok"        -> [Mine(r) EXCEPT !.status = "delivered"]
          [] result = "cancelled" -> [Mine(r) EXCEPT !.status = "cancelled"]
          [] result = "blocked"   -> Mine(r)
          [] result = "error"     -> [counted EXCEPT
                 !.status = IF counted.attempts >= MaxAttempts THEN "failed" ELSE @]

\* lastAttemptAt is saved with it.
Results(r, result) ==
    IF IsCurrent(r) THEN SavesAndReleases(r, AfterDelivery(r, result)) /\ old' = FALSE
    ELSE Releases(r) /\ UNCHANGED <<job, old>>

\* The relay gets the UI turn, or its settings went in: either way it looks
\* again before it acts.
Looks(r) == (At(r, "turn") /\ turn = "none") \/ (At(r, "apply") /\ ~target.locked)

NeverOvertaken(r) == "none"

\* What is already so when the relay gets to act: its prompt is there, or the
\* chat has begun.
Overtaken(r) == IF Received(r) THEN "ok" ELSE IF Obsolete THEN "cancelled" ELSE "none"

FindsItOvertaken(r) ==
    /\ Looks(r)
    /\ \/ IsCurrent(r) /\ Overtaken(r) # "none" /\ Results(r, Overtaken(r))
       \/ ~IsCurrent(r) /\ Results(r, "error")
    /\ UNCHANGED <<target, faults>>

Clear(r) == Looks(r) /\ IsCurrent(r) /\ Overtaken(r) = "none"

\* dispatch writes the lock anew, whoever's it was.
Dispatches(r) ==
    /\ At(r, "turn") /\ Clear(r)
    /\ turn' = r /\ Goes(r, "apply")
    /\ lock' = [owner |-> r, life |-> relay[r].life, dispatching |-> TRUE]
    /\ UNCHANGED <<job, target, old, faults>>

\* The settings went in.
Applies(r) ==
    /\ At(r, "apply") /\ Clear(r)
    /\ Goes(r, "type")
    /\ UNCHANGED <<job, lock, turn, target, old, faults>>

Types(r) ==
    /\ At(r, "type") /\ ~target.locked
    /\ target' = [target EXCEPT !.typed = @ + 1, !.seen = TRUE]
    /\ Goes(r, "typed")
    /\ UNCHANGED <<job, lock, turn, old, faults>>

Confirms(r) ==
    /\ At(r, "typed")
    /\ Results(r, "ok")
    /\ UNCHANGED <<target, faults>>

\* Typed, and out of sight until the delivery was given up.
TypesUnseen(r) ==
    /\ At(r, "type") /\ ~target.locked /\ Fault
    /\ target' = [target EXCEPT !.typed = @ + 1, !.unseen = @ + 1, !.late = @ + 1]
    /\ Results(r, "error")

\* The saved choice is gone, settings or prompt did not go in; under a locked
\* screen that is a block.
DeliveryFails(r) ==
    /\ (At(r, "turn") /\ turn = "none") \/ At(r, "apply") \/ At(r, "type")
    /\ Results(r, IF target.locked THEN "blocked" ELSE "error")
    /\ UNCHANGED <<target, faults>>

-----------------------------------------------------------------------------
(* Conductor, the person, the machine.                                     *)

SetsUp ==
    /\ \/ ~target.session /\ target' = [target EXCEPT !.session = TRUE]
       \/ ~target.ready /\ target' = [target EXCEPT !.ready = TRUE]
    /\ UNCHANGED <<job, lock, relay, turn, old, faults>>

PersonWrites ==
    /\ target.session /\ ~target.other
    /\ target' = [target EXCEPT !.other = TRUE]
    /\ UNCHANGED <<job, lock, relay, turn, old, faults>>

RowShowsUp ==
    /\ target.late > 0
    /\ target' = [target EXCEPT !.late = @ - 1, !.seen = TRUE]
    /\ UNCHANGED <<job, lock, relay, turn, old, faults>>

\* A quarter of an hour since the job was made or last tried.
Ages ==
    /\ Live(job.status) /\ ~old /\ old' = TRUE
    /\ UNCHANGED <<job, lock, relay, turn, target, faults>>

Locks ==
    /\ ~target.locked /\ Fault
    /\ target' = [target EXCEPT !.locked = TRUE]
    /\ UNCHANGED <<job, lock, relay, turn, old>>

Unlocks ==
    /\ target.locked
    /\ target' = [target EXCEPT !.locked = FALSE]
    /\ UNCHANGED <<job, lock, relay, turn, old, faults>>

\* The process is gone, and its UI turn with it; the lock file stays.
Dies(r) ==
    /\ relay[r].up /\ Fault
    /\ relay' = [relay EXCEPT ![r] = [Asleep(@.life) EXCEPT !.up = FALSE]]
    /\ turn' = IF turn = r THEN "none" ELSE turn
    /\ UNCHANGED <<job, lock, target, old>>

Starts(r) ==
    /\ ~relay[r].up
    /\ relay' = [relay EXCEPT ![r] = Asleep(@.life + 1)]
    /\ UNCHANGED <<job, lock, turn, target, old, faults>>

-----------------------------------------------------------------------------
Step(r) ==
    \/ ReadsLock(r) \/ RemovesLock(r) \/ CreatesLock(r)
    \/ StopsAtProbe(r) \/ FindsChatStarted(r) \/ FindsItUnready(r) \/ Binds(r)
    \/ Chooses(r) \/ StepThrows(r) \/ FindsItOvertaken(r) \/ Dispatches(r)
    \/ Applies(r) \/ Types(r) \/ Confirms(r) \/ TypesUnseen(r) \/ DeliveryFails(r)

AutoNext ==
    \/ Submits \/ Cancels
    \/ \E r \in Relays : Step(r) \/ Dies(r) \/ Starts(r)
    \/ SetsUp \/ PersonWrites \/ RowShowsUp \/ Ages \/ Locks \/ Unlocks

AutoSpec == AutoInit /\ [][AutoNext]_autoVars

\* A relay ticks every second, launchd starts a dead one again, time passes, a
\* locked screen is unlocked some day.
AutoFairness ==
    /\ \A r \in Relays : WF_autoVars(Step(r) \/ Starts(r))
    /\ WF_autoVars(Ages) /\ WF_autoVars(Unlocks)

AutoFairSpec == AutoSpec /\ AutoFairness

-----------------------------------------------------------------------------
\* Whatever becomes of the lock file, the prompt is typed once: a further copy
\* only over one that stayed out of sight. (Two relays can both believe they
\* own a dead relay's lock; what is looked at inside the UI turn decides.)
AutoPromptIsSentOnce == target.typed <= 1 + target.unseen

\* Two relays work on the job at once.
AtIt(r) == relay[r].up /\ relay[r].mine # NoJob

Overlap == \E r, s \in Relays : r # s /\ AtIt(r) /\ AtIt(s)

\* A submission is delivered, cancelled or fails in public, and a dead relay's
\* lock does not keep it for ever: but for two relays that overlap, each of
\* which may save its own count of attempts over the other's.
AutoPromptSettles == Live(job.status) ~> (~Live(job.status) \/ Overlap)
=============================================================================
