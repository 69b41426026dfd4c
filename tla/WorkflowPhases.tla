---------------------------- MODULE WorkflowPhases ----------------------------
(***************************************************************************)
(* One Workflow run, driven by several relay processes over the shared     *)
(* database: its phases, its helper jobs, the capabilities its root chat   *)
(* may delegate with, and the phone's Retry, Complete and Cancel.          *)
(*                                                                         *)
(* An action is one database transaction with the synchronous code around  *)
(* it.  A relay takes a snapshot of the run (Wake), awaits, and then acts  *)
(* on it: what it still holds of the snapshot is loc[r].  An effect on     *)
(* Conductor's window is here only begun, committed or failed; how that is *)
(* decided is the module DurableEffect.                                    *)
(***************************************************************************)
EXTENDS Integers, Sequences, FiniteSets

CONSTANTS
    Relays,        \* relay processes; a crashed one is back under a new identity
    RetryKeys,     \* clientIds of the phone's recovery requests
    Targets,       \* the kinds of target considered
    MaxJobs,       \* bound: helper jobs of the run
    MaxBlocks,     \* bound: times the run is blocked
    MaxCrashes     \* bound: relays that die

ASSUME WorkflowAssumption ==
    /\ Targets # {} /\ Targets \subseteq {"new_workspace", "existing_session"}
    /\ MaxJobs \in Nat \ {0} /\ MaxBlocks \in Nat /\ MaxCrashes \in Nat

VARIABLES
    run,        \* the workflow_runs row: phase, cycle, revision, why it is blocked
    jobs,       \* the workflow_jobs rows in order of creation
    caps,       \* the workflow_capabilities rows
    root,       \* how far the root chat is: its effects, one after the other
    auth,       \* the effect that hands the root the exploring capability of the last delegation
    accepted,   \* workflow_idempotency: barriers and root messages acted on
    retried,    \* workflow_idempotency: the block each recovery request lifted
    loc,        \* what each relay holds across an await
    crashes

vars == <<run, jobs, caps, root, auth, accepted, retried, loc, crashes>>

Roles == {"exploration", "implementation"}
Working == {"exploring", "planning", "implementing", "reviewing"}
Runnable == {"creating_workspace", "binding_root", "pending_root"} \cup Working
Terminal == {"completed", "cancelled"}

\* The stages of a job whose effect a relay performs, and the next stage.
Performed == [opening |-> "configuring", configuring |-> "sending", sending |-> "running",
              returning |-> "returning"]
JobStates == {"dormant", "queued", "owned", "running", "returned", "failed", "cancelled"}
                \cup DOMAIN Performed
JobEnds == {"returned", "failed", "cancelled"}

RootSteps == {"create", "created", "configure", "send", "sent"}

Nothing == [kind |-> "none", job |-> 0]
Free == [blocked |-> Nothing, class |-> "none", resume |-> "none"]
Idle == [at |-> "idle", phase |-> "none", cycle |-> 0, revision |-> 0, job |-> 0, attempt |-> 0,
         grant |-> -1]

Init ==
    \E target \in Targets :
        /\ run = [phase |-> IF target = "new_workspace" THEN "creating_workspace" ELSE "pending_root",
                  cycle |-> 0, revision |-> 0, blocks |-> 0, why |-> Free]
        /\ jobs = <<[role |-> "exploration", cycle |-> 0, state |-> "dormant", attempt |-> 0,
                     failed |-> 0, owner |-> "none", result |-> 0, broken |-> FALSE,
                     baton |-> "none", grant |-> -1, by |-> <<"none", 0>>]>>
        /\ caps = {}
        /\ root = [step |-> IF target = "new_workspace" THEN "create" ELSE "configure",
                   broken |-> FALSE]
        /\ auth = [state |-> "none", broken |-> FALSE]
        /\ accepted = {}
        /\ retried = [k \in RetryKeys |-> 0]
        /\ loc = [r \in Relays |-> Idle]
        /\ crashes = 0

-----------------------------------------------------------------------------
(* Pure guards of the phase machine *)

Current(role, cycle) == {j \in DOMAIN jobs : jobs[j].role = role /\ jobs[j].cycle = cycle}

Returned(j) == jobs[j].state = "returned" /\ jobs[j].baton = "message"

\* Deviation: a Baton Conductor's outbox accepted counts as delivered.
BarrierSatisfiedByOutbox(role, cycle) ==
    /\ Current(role, cycle) # {}
    /\ \A j \in Current(role, cycle) : Returned(j) \/ jobs[j].baton = "outbox"

BarrierSatisfied(role, cycle) ==
    /\ Current(role, cycle) # {}
    /\ \A j \in Current(role, cycle) : Returned(j)

Outstanding(cycle) == {j \in DOMAIN jobs : jobs[j].cycle = cycle /\ jobs[j].state \notin JobEnds}

AllowedRoles(phase) ==
    CASE phase = "exploring" -> {"exploration"}
      [] phase \in {"planning", "reviewing"} -> Roles
      [] OTHER -> {}

\* Deviation: any capability the run ever issued still authorises.
DelegationAllowedByAnyCapability(c, role) ==
    /\ run.phase \in {"exploring", "planning", "reviewing"}
    /\ role \in AllowedRoles(run.phase)
    /\ role = "implementation" => BarrierSatisfied("exploration", run.cycle)

\* assertWorkflowDelegation, and consumeWorkflowCapability's second look.
DelegationAllowed(c, role) ==
    /\ run.phase \in {"exploring", "planning", "reviewing"}
    /\ c.state = "live"
    /\ c.phase = run.phase /\ c.cycle = run.cycle /\ c.revision = run.revision
    /\ role \in AllowedRoles(run.phase)
    /\ IF run.phase = "exploring"
       THEN \A j \in Outstanding(run.cycle) : jobs[j].role # "implementation"
       ELSE Outstanding(run.cycle) = {}
    /\ role = "implementation" => BarrierSatisfied("exploration", run.cycle)

\* The coordinates a delegation moves the run to.
Transition(role) ==
    IF role = "implementation"
    THEN [run EXCEPT !.phase = "implementing", !.revision = @ + 1]
    ELSE IF run.phase = "exploring"
         THEN [run EXCEPT !.revision = @ + 1]
         ELSE [run EXCEPT !.phase = "exploring", !.cycle = @ + 1, !.revision = 0]

\* blockRun: nothing when the run is blocked already, or over.
Block(thing, class) ==
    IF run.phase \in Runnable
    THEN [run EXCEPT !.phase = "blocked", !.blocks = @ + 1,
                     !.why = [blocked |-> thing, class |-> class, resume |-> run.phase]]
    ELSE run

Unblock == [run EXCEPT !.phase = run.why.resume, !.why = Free]

Revoke(live) == {IF c \in live THEN [c EXCEPT !.state = "revoked"] ELSE c : c \in caps}

LiveCaps == {c \in caps : c.state = "live"}

\* with: the job whose Baton or message brought it to the root chat.
Issued(phase, cycle, revision, with) ==
    [phase |-> phase, cycle |-> cycle, revision |-> revision, with |-> with, state |-> "live"]

-----------------------------------------------------------------------------
(* A relay's wake: a snapshot of the run, then one step of it *)

Snapshot(of) ==
    [Idle EXCEPT !.at = "woken", !.phase = of.phase, !.cycle = of.cycle, !.revision = of.revision]

Rest(r) == loc' = [loc EXCEPT ![r] = Idle]

Woken(r, phases) == loc[r].at = "woken" /\ loc[r].phase \in phases

\* The run is read, then the relays' versions; then the step is chosen.
Wake(r) ==
    /\ loc[r] = Idle
    /\ run.phase \in Runnable
    /\ loc' = [loc EXCEPT ![r] = Snapshot(run)]
    /\ UNCHANGED <<run, jobs, caps, root, auth, accepted, retried, crashes>>

\* Another relay's version is found not to fit; blockRun expects the phase of
\* the snapshot.
Incompatible(r) ==
    /\ Woken(r, Runnable)
    /\ run.phase = loc[r].phase /\ run.blocks < MaxBlocks
    /\ run' = Block([kind |-> "compatibility", job |-> 0], "deterministic")
    /\ Rest(r)
    /\ UNCHANGED <<jobs, caps, root, auth, accepted, retried, crashes>>

\* Nothing to do, or nothing yet.
Sleep(r) ==
    /\ loc[r] # Idle
    /\ loc[r].at # "effect"
    /\ Rest(r)
    /\ UNCHANGED <<run, jobs, caps, root, auth, accepted, retried, crashes>>

-----------------------------------------------------------------------------
(* Effects, as far as the run sees them *)

InFlight(kind, j) == \E r \in Relays : loc[r].at = "effect" /\ loc[r].phase = kind /\ loc[r].job = j

\* runDurableEffect claims a prepared effect of a run that is not blocked.
Claim(r, kind, j) ==
    /\ run.phase \in Runnable
    /\ ~InFlight(kind, j)
    /\ loc' = [loc EXCEPT ![r] = [Idle EXCEPT !.at = "effect", !.phase = kind, !.job = j]]
    /\ UNCHANGED <<run, jobs, caps, root, auth, accepted, retried, crashes>>

ClaimRoot(r) ==
    /\ Woken(r, {"creating_workspace", "pending_root"})
    /\ root.step \in {"create", "configure", "send"} /\ ~root.broken
    /\ Claim(r, "root", 0)

ClaimAuthorization(r) ==
    /\ Woken(r, {"exploring"})
    /\ run.cycle = loc[r].cycle /\ run.revision = loc[r].revision
    /\ auth = [state |-> "prepared", broken |-> FALSE]
    /\ Claim(r, "auth", Len(jobs))

\* driveNextJob: nothing is driven while a job of this phase waits for a relay.
Waiting(r) ==
    {j \in Current(IF loc[r].phase = "exploring" THEN "exploration" ELSE "implementation", loc[r].cycle) :
        jobs[j].state \in {"queued", "owned"}}

Drives(r, j) ==
    /\ Woken(r, {"exploring", "implementing"})
    /\ Waiting(r) = {}
    /\ jobs[j].cycle = loc[r].cycle

ClaimJobEffect(r) == \E j \in DOMAIN jobs :
    /\ Drives(r, j)
    /\ jobs[j].state \in DOMAIN Performed /\ ~jobs[j].broken
    /\ jobs[j].state = "returning" => jobs[j].baton = "prepared"
    /\ Claim(r, "job", j)

\* A receipt.  A job's next stage is entered in the transaction that follows
\* it, whether or not the run was blocked meanwhile; a cancelled run keeps the
\* receipt as late evidence and its job stays cancelled.
RootCommits(r) ==
    /\ loc[r].at = "effect" /\ loc[r].phase = "root"
    /\ root' = [root EXCEPT !.step = CASE @ = "create" -> "created"
                                       [] @ = "configure" -> "send"
                                       [] OTHER -> "sent"]
    /\ Rest(r)
    /\ UNCHANGED <<run, jobs, caps, auth, accepted, retried, crashes>>

AuthorizationCommits(r) ==
    /\ loc[r].at = "effect" /\ loc[r].phase = "auth"
    /\ auth' = IF loc[r].job = Len(jobs) THEN [auth EXCEPT !.state = "sent"] ELSE auth
    /\ Rest(r)
    /\ UNCHANGED <<run, jobs, caps, root, accepted, retried, crashes>>

\* A prompt is accepted by the outbox before it is a message; the task's
\* stage lasts until the message, and so does the Baton's.
JobCommits(r) ==
    /\ loc[r].at = "effect" /\ loc[r].phase = "job"
    /\ LET j == loc[r].job
           s == jobs[j].state
       IN  jobs' = IF s \notin DOMAIN Performed THEN jobs
                   ELSE [jobs EXCEPT ![j].state = Performed[s],
                                     ![j].baton = IF s = "returning" THEN "outbox" ELSE @]
    /\ Rest(r)
    /\ UNCHANGED <<run, caps, root, auth, accepted, retried, crashes>>

\* failEffect: the effect failed before anything was released, or may have
\* acted; markReceiptLost: an accepted prompt never became a message.
EffectFails(r) == \E class \in {"deterministic", "ambiguous"} :
    /\ loc[r].at = "effect" /\ run.blocks < MaxBlocks
    /\ run' = Block([kind |-> loc[r].phase, job |-> loc[r].job], class)
    /\ root' = [root EXCEPT !.broken = @ \/ loc[r].phase = "root"]
    /\ auth' = [auth EXCEPT !.broken = @ \/ (loc[r].phase = "auth" /\ loc[r].job = Len(jobs))]
    /\ jobs' = IF loc[r].phase = "job" /\ jobs[loc[r].job].state \in DOMAIN Performed
               THEN [jobs EXCEPT ![loc[r].job].broken = TRUE] ELSE jobs
    /\ Rest(r)
    /\ UNCHANGED <<caps, accepted, retried, crashes>>

\* markReceiptLost: a prompt the outbox had accepted is gone from it and never
\* became a message.
ReceiptLost(r) ==
    /\ Woken(r, {"pending_root", "exploring", "implementing"})
    /\ run.phase \in Runnable /\ run.blocks < MaxBlocks
    /\ \/ /\ loc[r].phase = "pending_root" /\ root.step = "sent" /\ <<"root", 0>> \notin accepted
          /\ root' = [step |-> "send", broken |-> TRUE]
          /\ run' = Block([kind |-> "root", job |-> 0], "ambiguous")
          /\ UNCHANGED <<jobs, auth>>
       \/ /\ loc[r].phase = "exploring" /\ auth.state = "sent"
          /\ run.cycle = loc[r].cycle /\ run.revision = loc[r].revision
          /\ auth' = [state |-> "prepared", broken |-> TRUE]
          /\ run' = Block([kind |-> "auth", job |-> Len(jobs)], "ambiguous")
          /\ UNCHANGED <<jobs, root>>
       \/ \E j \in DOMAIN jobs :
             /\ Drives(r, j) /\ jobs[j].state = "returning" /\ jobs[j].baton = "outbox"
             /\ jobs' = [jobs EXCEPT ![j].baton = "prepared", ![j].broken = TRUE]
             /\ run' = Block([kind |-> "job", job |-> j], "ambiguous")
             /\ UNCHANGED <<root, auth>>
    /\ Rest(r)
    /\ UNCHANGED <<caps, accepted, retried, crashes>>

-----------------------------------------------------------------------------
(* The root chat *)

WorkspaceCreated(r) ==
    /\ Woken(r, {"creating_workspace"})
    /\ root.step = "created" /\ run.phase = "creating_workspace"
    /\ run' = [run EXCEPT !.phase = "binding_root"]
    /\ Rest(r)
    /\ UNCHANGED <<jobs, caps, root, auth, accepted, retried, crashes>>

\* The created workspace's root is bound if it is the one, and untouched.
BindRoot(r) ==
    /\ Woken(r, {"binding_root"})
    /\ run.phase = "binding_root"
    /\ \/ /\ run' = [run EXCEPT !.phase = "pending_root"]
          /\ root' = [root EXCEPT !.step = "configure"]
       \/ /\ run.blocks < MaxBlocks
          /\ run' = Block([kind |-> "bind-root", job |-> 0], "terminal")
          /\ UNCHANGED root
    /\ Rest(r)
    /\ UNCHANGED <<jobs, caps, auth, accepted, retried, crashes>>

\* activateRootFromReceipt: the accepted answer is recorded even if the run
\* is blocked by then.
ActivateRoot(r) ==
    /\ Woken(r, {"pending_root"})
    /\ root.step = "sent" /\ ~root.broken
    /\ <<"root", 0>> \notin accepted
    /\ accepted' = accepted \cup {<<"root", 0>>}
    /\ IF run.phase = "pending_root"
       THEN /\ run' = [run EXCEPT !.phase = "exploring"]
            /\ caps' = caps \cup {Issued("exploring", 0, 0, 0)}
            /\ jobs' = [jobs EXCEPT ![1].state = "queued"]
       ELSE UNCHANGED <<run, caps, jobs>>
    /\ Rest(r)
    /\ UNCHANGED <<root, auth, retried, crashes>>

\* drivePhaseAuthorization: the rotated capability counts once its message is
\* in the root chat and while the run is where it was granted.
IssueAuthorization(r) ==
    /\ Woken(r, {"exploring"})
    /\ auth = [state |-> "sent", broken |-> FALSE]
    /\ run.phase = "exploring" /\ run.cycle = loc[r].cycle /\ run.revision = loc[r].revision
    /\ auth' = [auth EXCEPT !.state = "issued"]
    /\ caps' = caps \cup {Issued("exploring", run.cycle, run.revision, Len(jobs))}
    /\ Rest(r)
    /\ UNCHANGED <<run, jobs, root, accepted, retried, crashes>>

-----------------------------------------------------------------------------
(* Jobs *)

ClaimNextJob(r) ==
    /\ Woken(r, {"exploring", "implementing"})
    /\ \E j \in Waiting(r) : jobs[j].state = "queued"
    /\ run.phase \in Runnable
    /\ \E j \in DOMAIN jobs :
        /\ jobs[j].state = "queued"
        /\ \A i \in 1..(j - 1) : jobs[i].state # "queued"
        /\ jobs' = [jobs EXCEPT ![j].state = "owned", ![j].owner = r]
    /\ Rest(r)
    /\ UNCHANGED <<run, caps, root, auth, accepted, retried, crashes>>

\* Deviations: a relay requeues only its own claims; whatever a dead relay had
\* begun is queued again.
RequeueOwnClaim(r) ==
    /\ Woken(r, {"exploring", "implementing"})
    /\ \E j \in Waiting(r) :
        /\ jobs[j].state = "owned" /\ jobs[j].owner = r
        /\ jobs' = [jobs EXCEPT ![j].state = "queued", ![j].owner = "none"]
    /\ Rest(r)
    /\ UNCHANGED <<run, caps, root, auth, accepted, retried, crashes>>

RequeueClaimOfAnyStage(r) ==
    /\ Woken(r, {"exploring", "implementing"})
    /\ \E j \in DOMAIN jobs :
        /\ \/ jobs[j].state = "owned" /\ jobs[j].owner = "dead"
           \/ jobs[j].state = "opening" /\ crashes > 0
        /\ jobs' = [jobs EXCEPT ![j].state = "queued", ![j].owner = "none"]
    /\ Rest(r)
    /\ UNCHANGED <<run, caps, root, auth, accepted, retried, crashes>>

\* reconcileAbandonedWorkflowJobClaim
RequeueClaim(r) ==
    /\ Woken(r, {"exploring", "implementing"})
    /\ \A j \in Waiting(r) : jobs[j].state # "queued"
    /\ \E j \in Waiting(r) :
        /\ jobs[j].owner = "dead"
        /\ jobs' = [jobs EXCEPT ![j].state = "queued", ![j].owner = "none"]
    /\ Rest(r)
    /\ UNCHANGED <<run, caps, root, auth, accepted, retried, crashes>>

\* The row keeps its owner, but nothing looks at it once the first effect is
\* prepared: every effect has an owner of its own.
BeginJobAttempt(r) ==
    /\ Woken(r, {"exploring", "implementing"})
    /\ \A j \in Waiting(r) : jobs[j].state # "queued"
    /\ \E j \in Waiting(r) :
        /\ jobs[j].owner = r
        /\ jobs' = [jobs EXCEPT ![j].state = "opening", ![j].attempt = @ + 1, ![j].owner = "none"]
    /\ Rest(r)
    /\ UNCHANGED <<run, caps, root, auth, accepted, retried, crashes>>

\* driveJobOutcome reads the child's chat of the attempt it saw ...
ReadOutcome(r) == \E j \in DOMAIN jobs :
    /\ Drives(r, j)
    /\ jobs[j].state = "running"
    /\ loc' = [loc EXCEPT ![r] = [Idle EXCEPT !.at = "outcome", !.job = j, !.attempt = jobs[j].attempt]]
    /\ UNCHANGED <<run, jobs, caps, root, auth, accepted, retried, crashes>>

\* Deviation: the attempt that was read is not looked at again.
StillRunningAtAnyAttempt(r) ==
    loc[r].at = "outcome" /\ run.phase \notin Terminal /\ jobs[loc[r].job].state = "running"

StillRunning(r) ==
    /\ loc[r].at = "outcome" /\ run.phase \notin Terminal
    /\ jobs[loc[r].job].state = "running" /\ jobs[loc[r].job].attempt = loc[r].attempt

\* ... and takes a success, or a failure that blocks the run.
TakeSuccess(r) ==
    /\ StillRunning(r)
    /\ jobs' = [jobs EXCEPT ![loc[r].job].state = "returning", ![loc[r].job].result = loc[r].attempt]
    /\ Rest(r)
    /\ UNCHANGED <<run, caps, root, auth, accepted, retried, crashes>>

TakeFailure(r) ==
    /\ StillRunning(r)
    /\ run.blocks < MaxBlocks
    /\ jobs' = [jobs EXCEPT ![loc[r].job].state = "failed",
                            ![loc[r].job].failed = loc[r].attempt]
    /\ run' = Block([kind |-> "failed", job |-> loc[r].job], "deterministic")
    /\ Rest(r)
    /\ UNCHANGED <<caps, root, auth, accepted, retried, crashes>>

\* A result of a cancelled run is kept beside the job: one whose reading was
\* under way, or one observeCancelledRun finds.
LateResult(r) == \E j \in DOMAIN jobs :
    /\ run.phase = "cancelled" /\ jobs[j].state = "cancelled"
    /\ \/ loc[r].at = "outcome" /\ loc[r].job = j
       \/ loc[r] = Idle /\ jobs[j].attempt > 0 /\ jobs[j].result = 0
    /\ jobs' = [jobs EXCEPT ![j].result = IF loc[r].at = "outcome" THEN loc[r].attempt
                                                   ELSE jobs[j].attempt]
    /\ Rest(r)
    /\ UNCHANGED <<run, caps, root, auth, accepted, retried, crashes>>

-----------------------------------------------------------------------------
(* Batons and barriers *)

\* potentialBatonGrant: the last job of the phase carries the next phase's
\* capability, once all the others are delivered.
Peers(j) == Current(jobs[j].role, jobs[j].cycle)

\* Deviation: the Baton that finds all the others delivered carries the grant.
DesignatedByDelivery(j) == \A i \in Peers(j) \ {j} : Returned(i)

DesignatedFinal(j) == \A i \in Peers(j) : i <= j

PeersDelivered(j) == \A i \in Peers(j) \ {j} : Returned(i)

\* driveJobBaton decides the grant, then awaits the report and the cursor ...
DecideBaton(r) == \E j \in DOMAIN jobs :
    /\ Drives(r, j)
    /\ jobs[j].state = "returning" /\ jobs[j].baton = "none"
    /\ DesignatedFinal(j) => PeersDelivered(j)
    /\ loc' = [loc EXCEPT ![r] = [Idle EXCEPT !.at = "baton", !.job = j,
                    !.grant = IF DesignatedFinal(j) THEN loc[r].revision + 1 ELSE -1]]
    /\ UNCHANGED <<run, jobs, caps, root, auth, accepted, retried, crashes>>

\* ... and freezes it with the effect.
PrepareBaton(r) ==
    /\ loc[r].at = "baton" /\ run.phase \notin Terminal
    /\ jobs[loc[r].job].baton = "none"
    /\ jobs' = [jobs EXCEPT ![loc[r].job].baton = "prepared", ![loc[r].job].grant = loc[r].grant]
    /\ Rest(r)
    /\ UNCHANGED <<run, caps, root, auth, accepted, retried, crashes>>

\* The Baton is a message of the root chat; the barrier is looked at at once.
BatonDelivered(r) == \E j \in DOMAIN jobs :
    /\ Drives(r, j)
    /\ jobs[j].state = "returning" /\ jobs[j].baton = "outbox"
    /\ run.phase \notin Terminal
    /\ jobs' = [jobs EXCEPT ![j].state = "returned", ![j].baton = "message"]
    /\ loc' = [loc EXCEPT ![r] = IF run.phase \in Working THEN Snapshot(run) ELSE Idle]
    /\ UNCHANGED <<run, caps, root, auth, accepted, retried, crashes>>

BarrierIsCurrent(r) ==
    run.phase = loc[r].phase /\ run.cycle = loc[r].cycle /\ run.revision = loc[r].revision

\* advanceDeliveredBarrier: the last delivered Baton of the phase that carries
\* a grant opens the next one.  The transaction is answered once per Baton,
\* also when it found the run elsewhere and did nothing.
AdvanceBarrier(r) ==
    LET role == IF loc[r].phase = "exploring" THEN "exploration" ELSE "implementation"
        next == IF role = "exploration" THEN "planning" ELSE "reviewing"
        granting == {j \in Current(role, loc[r].cycle) : jobs[j].state = "returned" /\ jobs[j].grant >= 0}
    IN  /\ Woken(r, {"exploring", "implementing"})
        /\ BarrierSatisfied(role, loc[r].cycle)
        /\ IF granting = {}
           THEN /\ run.blocks < MaxBlocks /\ BarrierIsCurrent(r)
                /\ run' = Block([kind |-> "barrier", job |-> 0], "terminal")
                /\ UNCHANGED <<caps, accepted>>
           ELSE \E j \in granting :
                /\ \A i \in granting : i <= j
                /\ <<role, j>> \notin accepted
                /\ accepted' = accepted \cup {<<role, j>>}
                /\ IF BarrierIsCurrent(r)
                   THEN /\ run' = [run EXCEPT !.phase = next, !.revision = jobs[j].grant]
                        /\ caps' = Revoke({c \in LiveCaps : c.phase = loc[r].phase})
                                     \cup {Issued(next, run.cycle, jobs[j].grant, j)}
                   ELSE UNCHANGED <<run, caps>>
        /\ Rest(r)
        /\ UNCHANGED <<jobs, root, auth, retried, crashes>>

-----------------------------------------------------------------------------
(* Requests *)

\* delegate_task of the root chat.
Delegate(c, role) ==
    /\ Len(jobs) < MaxJobs
    /\ DelegationAllowed(c, role)
    /\ run' = Transition(role)
    /\ jobs' = Append(jobs, [role |-> role, cycle |-> run'.cycle, state |-> "queued", attempt |-> 0,
                             failed |-> 0, owner |-> "none", result |-> 0, broken |-> FALSE,
                             baton |-> "none", grant |-> -1, by |-> <<c.phase, c.with>>])
    /\ caps' = {CASE d = c -> [c EXCEPT !.state = "consumed"]
                  [] d # c /\ d.state = "live" /\ d.phase = run.phase -> [d EXCEPT !.state = "revoked"]
                  [] OTHER -> d : d \in caps}
    /\ auth' = [state |-> IF role = "exploration" THEN "prepared" ELSE "none", broken |-> FALSE]
    /\ UNCHANGED <<root, accepted, retried, loc, crashes>>

\* Deviation: a request that is sent again is judged again.
AlwaysJudged(k) == TRUE

\* getIdempotentMutation: the first answer stands.
NotAnsweredBefore(k) == retried[k] = 0

\* Retry, Adopt or a confirmed Replay of what the run is blocked on.  A job
\* that failed is queued again, an effect that failed may be claimed again.
Recover(k) ==
    /\ NotAnsweredBefore(k)
    /\ run.phase = "blocked" /\ run.why.class # "terminal"
    /\ run' = Unblock
    /\ LET thing == run.why.blocked
       IN  /\ jobs' = CASE thing.kind = "failed" ->
                             [jobs EXCEPT ![thing.job].state = "queued"]
                        [] thing.kind = "job" -> [jobs EXCEPT ![thing.job].broken = FALSE]
                        [] OTHER -> jobs
           /\ root' = IF thing.kind = "root" THEN [root EXCEPT !.broken = FALSE] ELSE root
           /\ auth' = IF thing.kind = "auth" /\ thing.job = Len(jobs)
                      THEN [auth EXCEPT !.broken = FALSE] ELSE auth
    /\ retried' = [retried EXCEPT ![k] = run.blocks]
    /\ UNCHANGED <<caps, accepted, loc, crashes>>

Complete ==
    /\ run.phase \in {"planning", "reviewing"}
    /\ \A j \in DOMAIN jobs : Returned(j)
    /\ run' = [run EXCEPT !.phase = "completed"]
    /\ caps' = Revoke(LiveCaps)
    /\ UNCHANGED <<jobs, root, auth, accepted, retried, loc, crashes>>

Cancel ==
    /\ run.phase \notin Terminal
    /\ run' = [run EXCEPT !.phase = "cancelled", !.why = Free]
    /\ jobs' = [j \in DOMAIN jobs |->
                  IF jobs[j].state \in JobEnds THEN jobs[j] ELSE [jobs[j] EXCEPT !.state = "cancelled"]]
    /\ caps' = Revoke(LiveCaps)
    /\ UNCHANGED <<root, auth, accepted, retried, loc, crashes>>

\* A relay dies; its successor has an identity of its own.
Crash(r) ==
    /\ crashes < MaxCrashes
    /\ crashes' = crashes + 1
    /\ jobs' = [j \in DOMAIN jobs |-> IF jobs[j].owner = r THEN [jobs[j] EXCEPT !.owner = "dead"] ELSE jobs[j]]
    /\ Rest(r)
    /\ UNCHANGED <<run, caps, root, auth, accepted, retried>>

-----------------------------------------------------------------------------
\* A relay takes something up ...
TakeUp(r) ==
    ClaimRoot(r) \/ ClaimAuthorization(r) \/ ClaimJobEffect(r) \/ ReadOutcome(r) \/ DecideBaton(r)

\* ... and the run gets on.
Advance(r) ==
    \/ RootCommits(r) \/ AuthorizationCommits(r) \/ JobCommits(r)
    \/ WorkspaceCreated(r) \/ BindRoot(r) \/ ActivateRoot(r) \/ IssueAuthorization(r)
    \/ RequeueClaim(r) \/ ClaimNextJob(r) \/ BeginJobAttempt(r)
    \/ TakeSuccess(r) \/ PrepareBaton(r) \/ BatonDelivered(r) \/ AdvanceBarrier(r)

Next ==
    \/ \E r \in Relays : \/ Wake(r) \/ TakeUp(r) \/ Advance(r)
                         \/ Incompatible(r) \/ Sleep(r)
                         \/ EffectFails(r) \/ ReceiptLost(r) \/ TakeFailure(r)
                         \/ LateResult(r) \/ Crash(r)
    \/ \E c \in caps, role \in Roles : Delegate(c, role)
    \/ \E k \in RetryKeys : Recover(k)
    \/ Complete \/ Cancel

Spec == Init /\ [][Next]_vars

\* The relays' timers wake the run again and again and a wake drives every
\* job in turn; a prompt becomes a message and a child answers in the end.
\* Nothing is assumed of the phone.
Fairness == \A r \in Relays :
    /\ WF_vars(Wake(r) \/ TakeUp(r) \/ Advance(r) \/ Sleep(r))
    /\ SF_vars(TakeUp(r)) /\ SF_vars(Advance(r))

FairSpec == Spec /\ Fairness

-----------------------------------------------------------------------------
(* Properties *)

\* The phase a run is in, or is to resume.
EffectivePhase == IF run.phase = "blocked" THEN run.why.resume ELSE run.phase

JobRecord ==
    [role : Roles, cycle : 0..MaxJobs, state : JobStates, attempt : 0..MaxBlocks + 1,
     failed : 0..MaxBlocks, owner : Relays \cup {"none", "dead"}, result : 0..MaxBlocks + 1,
     broken : BOOLEAN, baton : {"none", "prepared", "outbox", "message"},
     grant : -1..2 * MaxJobs, by : (Working \cup {"none"}) \X (0..MaxJobs)]

Capability ==
    [phase : {"exploring", "planning", "reviewing"}, cycle : 0..MaxJobs,
     revision : 0..2 * MaxJobs, with : 0..MaxJobs, state : {"live", "consumed", "revoked"}]

\* The rows and the relays' notes have the shape the code gives them, and a
\* block names what it is about (persistence/schema.ts, workflow/state.ts).
TypeOK ==
    /\ run.phase \in Runnable \cup Terminal \cup {"blocked"}
    /\ run.cycle \in 0..MaxJobs /\ run.revision \in 0..2 * MaxJobs /\ run.blocks \in 0..MaxBlocks
    /\ (run.phase = "blocked") = (run.why # Free)
    /\ run.why.resume \in Runnable \cup {"none"}
    /\ Len(jobs) \in 1..MaxJobs
    /\ \A j \in DOMAIN jobs : jobs[j] \in JobRecord
    /\ caps \subseteq Capability
    /\ root \in [step : RootSteps, broken : BOOLEAN]
    /\ auth \in [state : {"none", "prepared", "sent", "issued"}, broken : BOOLEAN]
    /\ accepted \subseteq {<<"root", 0>>} \cup (Roles \X (1..MaxJobs))
    /\ retried \in [RetryKeys -> 0..MaxBlocks]
    /\ \A r \in Relays : loc[r].at \in {"idle", "woken", "effect", "outcome", "baton"}
    /\ crashes \in 0..MaxCrashes

\* Planning, implementing and reviewing rest on every explorer of the cycle:
\* each one returned and is a message of the root chat; reviewing on every
\* implementer too.  Explorers return in any order, to any relay, and more
\* may be delegated while they do (machine.ts, job-results.ts).
BarrierHolds ==
    /\ EffectivePhase \in {"planning", "implementing", "reviewing"} =>
        \A j \in DOMAIN jobs : jobs[j].cycle = run.cycle /\ jobs[j].role = "exploration" =>
            jobs[j].state = "returned" /\ jobs[j].baton = "message"
    /\ EffectivePhase = "reviewing" =>
        \A j \in DOMAIN jobs : jobs[j].cycle = run.cycle => jobs[j].state = "returned" /\ jobs[j].baton = "message"

\* At most one capability is live and it is the one of the run's coordinates,
\* also while the run is blocked; and one capability buys one job, however
\* often and concurrently the root chat asks with it: a chat that quotes an
\* old one cannot pass for a newer phase (persistence/capabilities.ts).  A
\* capability is named by what it was issued with: a relay that wakes late may
\* grant coordinates that an earlier one had.
LiveCapabilityIsCurrent ==
    /\ \A c \in LiveCaps :
        c.phase = EffectivePhase /\ c.cycle = run.cycle /\ c.revision = run.revision
    /\ Cardinality(LiveCaps) <= 1
    /\ \A i, j \in DOMAIN jobs : i # j => jobs[i].by # jobs[j].by

\* A helper is started again only after its attempt was recorded as failed:
\* neither a dead relay's claim nor a second relay starts a second child
\* (persistence/jobs.ts, reconcileAbandonedWorkflowJobClaim).
NewAttemptFollowsFailure ==
    \A j \in DOMAIN jobs : jobs[j].attempt \in {jobs[j].failed, jobs[j].failed + 1}

\* The result that returns to the root is the running attempt's, not one read
\* from a chat whose attempt failed meanwhile (job-results.ts, driveJobOutcome).
ResultIsOfItsAttempt ==
    \A j \in DOMAIN jobs :
        jobs[j].state \in {"returning", "returned"} => jobs[j].result = jobs[j].attempt

\* When a barrier is satisfied the last Baton of the phase carries the grant
\* of the next one, so that no run ends up with every result delivered and no
\* authority to go on (job-results.ts, workflow_barrier_capability_missing).
FinalBatonCarriesGrant ==
    \A role \in Roles : \A cycle \in 0..run.cycle :
        BarrierSatisfied(role, cycle) =>
            \E j \in Current(role, cycle) : jobs[j].grant >= 0

\* Each block is lifted by one request and each request lifts one block,
\* however often the phone sends it (persistence/idempotency.ts).
RequestsLiftOneBlockEach ==
    run.phase \notin Terminal =>
        run.blocks = Cardinality({k \in RetryKeys : retried[k] # 0})
                        + (IF run.phase = "blocked" THEN 1 ELSE 0)

\* Work that was handed to helpers comes back to the root, the run is blocked
\* for the phone, or it is over (wake.ts); with one relay, which may crash.
WorkComesBack ==
    run.phase \in Runnable \ {"planning", "reviewing"}
        ~> run.phase \in {"planning", "reviewing", "blocked"} \cup Terminal

\* "Delivered Batons ... open the next root phase" (machine.ts): while the run
\* is not blocked, a satisfied barrier may still be acted on.
DeliveredBatonsOpenPhase ==
    \A role \in Roles : \A j \in Current(role, run.cycle) :
        /\ run.phase = (IF role = "exploration" THEN "exploring" ELSE "implementing")
        /\ BarrierSatisfied(role, run.cycle) /\ DesignatedFinal(j)
        => <<role, j>> \notin accepted

\* A failed helper is offered to the phone: the run is blocked on it, or on
\* something else until it is (README.md: "exact sanitized failures, and
\* Retry/... actions").
FailedJobIsOffered ==
    \A j \in DOMAIN jobs :
        jobs[j].state = "failed" => run.phase \in Terminal \cup {"blocked"}
=============================================================================
