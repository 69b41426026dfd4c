---------------------------- MODULE WorkflowProofs ----------------------------
(* Theorems about WorkflowPhases, for every number of relays, helpers,      *)
(* blocks, deaths and requests.                                             *)
EXTENDS WorkflowPhases, FiniteSetTheorems, SequenceTheorems, TLAPS

-----------------------------------------------------------------------------
(* The inductive invariant, in layers: each rests on those before it. *)

RootPhases == {"creating_workspace", "binding_root", "pending_root"}

EffectKinds == {"root", "auth", "job"}
BlockKinds  == EffectKinds \cup {"none", "compatibility", "bind-root", "failed", "barrier"}
Phases      == Runnable \cup Terminal \cup {"blocked"}

Job ==
    [role : Roles, cycle : Nat, state : JobStates, attempt : Nat, failed : Nat,
     owner : Relays \cup {"none", "dead"}, result : Nat, broken : BOOLEAN,
     baton : {"none", "prepared", "outbox", "message"}, grant : Int,
     by : (Working \cup {"none"}) \X Nat]

Why ==
    [blocked : [kind : BlockKinds, job : Nat],
     class : {"none", "deterministic", "ambiguous", "terminal"}, resume : Runnable \cup {"none"}]

Note ==
    [at : {"idle", "woken", "effect", "outcome", "baton"},
     phase : Runnable \cup EffectKinds \cup {"none"}, cycle : Nat, revision : Nat,
     job : Nat, attempt : Nat, grant : Int]

Grant ==
    [phase : {"exploring", "planning", "reviewing"}, cycle : Nat, revision : Nat, with : Nat,
     state : {"live", "consumed", "revoked"}]

RunRecord == [phase : Phases, cycle : Nat, revision : Nat, blocks : Nat, why : Why]

\* The rows and notes without the bounds that TypeOK gives their numbers.
Shape ==
    /\ run \in RunRecord
    /\ jobs \in Seq(Job) /\ Len(jobs) >= 1
    /\ caps \subseteq Grant
    /\ root \in [step : RootSteps, broken : BOOLEAN]
    /\ auth \in [state : {"none", "prepared", "sent", "issued"}, broken : BOOLEAN]
    /\ accepted \subseteq {<<"root", 0>>} \cup (Roles \X (Nat \ {0}))
    /\ retried \in [RetryKeys -> Nat]
    /\ loc \in [Relays -> Note]
    /\ crashes \in Nat

\* A relay's note fits what it is about.
NotesFit == \A r \in Relays :
    /\ loc[r].at = "woken" => loc[r].phase \in Runnable
    /\ loc[r].at = "effect" => loc[r].phase \in EffectKinds
    /\ (loc[r].at = "effect" /\ loc[r].phase = "job") \/ loc[r].at \in {"outcome", "baton"}
          => loc[r].job \in DOMAIN jobs

\* A block says what it is about and what to resume.
BlockFits ==
    /\ (run.phase = "blocked") = (run.why # Free)
    /\ run.phase = "blocked" => run.why.resume \in Runnable
    /\ run.why.blocked.kind \in {"failed", "job"} => run.why.blocked.job \in DOMAIN jobs
    /\ run.why.blocked.kind = "failed" => jobs[run.why.blocked.job].state = "failed"

\* Until the root is in the run, nothing is.
RootFirst ==
    EffectivePhase \in RootPhases =>
        /\ Len(jobs) = 1 /\ jobs[1].state = "dormant"
        /\ caps = {} /\ auth.state = "none"
        /\ run.cycle = 0 /\ run.revision = 0

\* What the stage of a job says of its attempts, its result and its Baton.
JobFits(job) ==
    /\ job.state \in {"dormant", "queued", "owned", "failed"} => job.attempt = job.failed
    /\ job.state \in {"opening", "configuring", "sending", "running", "returning", "returned"} =>
          job.attempt = job.failed + 1
    /\ job.attempt \in {job.failed, job.failed + 1}
    /\ job.state \in {"returning", "returned"} => job.result = job.attempt
    /\ job.baton # "none" => job.state \in {"returning", "returned", "cancelled"}
    /\ job.baton = "message" <=> job.state = "returned"

JobsFit == \A j \in DOMAIN jobs : JobFits(jobs[j])

\* One relay at a time performs an effect, and meanwhile its stage lasts; a job
\* whose Baton is being decided has its result; jobs are cancelled with the run.
EffectsFit ==
    /\ \A r, s \in Relays :
          /\ loc[r].at = "effect" /\ loc[s].at = "effect"
          /\ loc[r].phase = loc[s].phase /\ loc[r].job = loc[s].job
          => r = s
    /\ \A r \in Relays : loc[r].at = "effect" /\ loc[r].phase = "job" =>
          LET job == jobs[loc[r].job]
          IN  \/ job.state \in {"opening", "configuring", "sending", "cancelled"}
              \/ job.state = "returning" /\ job.baton = "prepared"
    /\ \A r \in Relays : loc[r].at = "effect" /\ loc[r].phase = "auth" =>
          /\ loc[r].job <= Len(jobs)
          /\ loc[r].job = Len(jobs) => auth.state = "prepared"
    /\ \A r \in Relays : loc[r].at = "baton" =>
          jobs[loc[r].job].state \in {"returning", "returned", "cancelled"}
    /\ \A j \in DOMAIN jobs : jobs[j].state = "cancelled" => run.phase = "cancelled"

\* Every group of helpers has a last one, and the Baton of that one carries a
\* grant from the time it is decided.
LastCarriesGrant ==
    /\ \A i \in DOMAIN jobs :
          \E j \in Current(jobs[i].role, jobs[i].cycle) : DesignatedFinal(j)
    /\ \A j \in DOMAIN jobs : jobs[j].baton # "none" /\ DesignatedFinal(j) => jobs[j].grant >= 0
    /\ \A r \in Relays : loc[r].at = "baton" /\ DesignatedFinal(loc[r].job) => loc[r].grant >= 0

\* A capability is known by what it was issued with; the one a job was bought
\* with is spent; while an authorization is on its way there is no live one.
CapsCurrent == \A c \in caps : c.state = "live" =>
    c.phase = EffectivePhase /\ c.cycle = run.cycle /\ c.revision = run.revision
OneLive == \A c, d \in caps : c.state = "live" /\ d.state = "live" => c = d
Named == \A c, d \in caps : c.phase = d.phase /\ c.with = d.with => c = d
Earned == \A c \in caps :
    /\ c.phase = "planning" => <<"exploration", c.with>> \in accepted
    /\ c.phase = "reviewing" => <<"implementation", c.with>> \in accepted
    /\ c.phase = "exploring" => c.with <= Len(jobs)
    /\ c.phase = "exploring" /\ c.with = Len(jobs) => auth.state = "issued"
OnItsWay ==
    EffectivePhase = "exploring" /\ auth.state \in {"prepared", "sent"} => \A c \in caps : c.state # "live"
Bought == \A j \in DOMAIN jobs :
    \/ jobs[j].by = <<"none", 0>>
    \/ \E c \in caps : jobs[j].by = <<c.phase, c.with>> /\ c.state = "consumed"
BoughtOnce ==
    /\ \A i, j \in DOMAIN jobs : i # j => jobs[i].by # jobs[j].by
    /\ jobs[1].by = <<"none", 0>>

CapsFit == CapsCurrent /\ OneLive /\ Named /\ Earned /\ OnItsWay /\ Bought /\ BoughtOnce

\* What bounds the numbers of the rows: the blocks an attempt's failures, the
\* helpers the cycles and the revisions.
RevisionBound(phase) ==
    2 * Len(jobs) - (IF phase \in RootPhases \cup {"exploring", "implementing"} THEN 2 ELSE 1)

JobWithin(job) ==
    /\ job.cycle < Len(jobs) /\ job.grant \in -1..(2 * Len(jobs) - 1)
    /\ job.result <= MaxBlocks + 1 /\ job.failed <= MaxBlocks
    /\ job.state \notin {"failed", "cancelled"} => job.failed <= run.blocks
    /\ job.by[2] <= Len(jobs)

JobsWithin ==
    /\ \A j \in DOMAIN jobs : JobWithin(jobs[j])
    /\ \A j \in DOMAIN jobs :
          run.why.blocked.kind = "failed" /\ run.why.blocked.job = j => jobs[j].failed <= run.blocks

NotesWithin == \A r \in Relays :
    /\ loc[r].attempt <= MaxBlocks + 1 /\ loc[r].grant \in -1..(2 * Len(jobs) - 1)
    /\ loc[r].at = "woken" => loc[r].revision <= RevisionBound(loc[r].phase)

WithinBounds ==
    /\ run.blocks <= MaxBlocks /\ crashes <= MaxCrashes /\ Len(jobs) <= MaxJobs
    /\ run.cycle < Len(jobs) /\ run.revision <= RevisionBound(EffectivePhase)
    /\ JobsWithin
    /\ \A c \in caps : c.cycle < Len(jobs) /\ c.revision < 2 * Len(jobs) /\ c.with <= Len(jobs)
    /\ NotesWithin
    /\ \A x \in accepted : x[2] <= Len(jobs)
    /\ \A k \in RetryKeys : retried[k] <= MaxBlocks

-----------------------------------------------------------------------------
(* What one transaction does to the jobs, whichever it is. *)

Moved(a, b) ==
    \/ b = a
    \/ a.state = "dormant" /\ b = [a EXCEPT !.state = "queued"]
    \/ a.state = "queued" /\ \E r \in Relays : b = [a EXCEPT !.state = "owned", !.owner = r]
    \/ a.state = "owned" /\ b = [a EXCEPT !.state = "queued", !.owner = "none"]
    \/ a.state = "owned" /\ b = [a EXCEPT !.state = "opening", !.attempt = @ + 1, !.owner = "none"]
    \/ /\ a.state \in {"opening", "configuring", "sending"}
       /\ b = [a EXCEPT !.state = Performed[a.state]]
    \/ a.state = "running" /\ b = [a EXCEPT !.state = "returning", !.result = a.attempt]
    \/ a.state = "running" /\ b = [a EXCEPT !.state = "failed", !.failed = a.attempt]
    \/ a.state = "failed" /\ b = [a EXCEPT !.state = "queued"]
    \/ /\ a.state = "returning" /\ a.baton = "none"
       /\ \E r \in Relays : b = [a EXCEPT !.baton = "prepared", !.grant = loc[r].grant]
    \/ a.state = "returning" /\ a.baton = "prepared" /\ b = [a EXCEPT !.baton = "outbox"]
    \/ /\ a.state = "returning" /\ a.baton = "outbox"
       /\ \/ b = [a EXCEPT !.baton = "prepared", !.broken = TRUE]
          \/ b = [a EXCEPT !.state = "returned", !.baton = "message"]
    \/ a.state \notin JobEnds /\ b = [a EXCEPT !.state = "cancelled"]
    \/ /\ a.state = "cancelled"
       /\ \E r \in Relays : \E n \in {loc[r].attempt, a.attempt} : b = [a EXCEPT !.result = n]
    \/ \E broken \in BOOLEAN : b = [a EXCEPT !.broken = broken]
    \/ b = [a EXCEPT !.owner = "dead"]

Ordered(job) ==
    /\ job.state = "queued" /\ job.attempt = 0 /\ job.failed = 0 /\ job.result = 0
    /\ job.baton = "none" /\ job.grant = -1 /\ job.cycle = run'.cycle

JobStep ==
    /\ jobs' \in Seq(Job) /\ Len(jobs') >= Len(jobs)
    /\ \A j \in DOMAIN jobs : Moved(jobs[j], jobs'[j])
    /\ \A j \in DOMAIN jobs' \ DOMAIN jobs : Ordered(jobs'[j])

LEMMA PerformedStages ==
    /\ DOMAIN Performed = {"opening", "configuring", "sending", "returning"}
    /\ Performed["opening"] = "configuring" /\ Performed["configuring"] = "sending"
    /\ Performed["sending"] = "running" /\ Performed["returning"] = "returning"
BY DEF Performed

\* The stages by name.
LEMMA StageNames ==
    JobStates = {"dormant", "queued", "owned", "opening", "configuring", "sending", "running",
                 "returning", "returned", "failed", "cancelled"}
BY PerformedStages DEF JobStates

LEMMA MovedJob == ASSUME Shape, NEW a \in Job, NEW b, Moved(a, b) PROVE b \in Job
<1> USE StageNames DEF Job
<1>1. CASE b = a \/ b = [a EXCEPT !.state = "queued"] \/ b = [a EXCEPT !.state = "cancelled"]
  BY <1>1
<1>2. CASE \E r \in Relays : b = [a EXCEPT !.state = "owned", !.owner = r]
  BY <1>2
<1>3. CASE b = [a EXCEPT !.state = "queued", !.owner = "none"]
  BY <1>3
<1>4. CASE b = [a EXCEPT !.state = "opening", !.attempt = @ + 1, !.owner = "none"]
  <2>1. a.attempt + 1 \in Nat /\ "opening" \in JobStates  OBVIOUS
  <2>2. \A n \in Nat : [a EXCEPT !.state = "opening", !.attempt = n, !.owner = "none"] \in Job
    OBVIOUS
  <2> QED  BY <1>4, <2>1, <2>2
<1>5. CASE /\ a.state \in {"opening", "configuring", "sending"}
           /\ b = [a EXCEPT !.state = Performed[a.state]]
  <2>1. Performed[a.state] \in JobStates  BY <1>5, PerformedStages
  <2> QED  BY <1>5, <2>1
<1>6. CASE b = [a EXCEPT !.state = "returning", !.result = a.attempt]
  BY <1>6
<1>7. CASE b = [a EXCEPT !.state = "failed", !.failed = a.attempt]
  BY <1>7
<1>8. CASE \E r \in Relays : b = [a EXCEPT !.baton = "prepared", !.grant = loc[r].grant]
  <2>1. \A r \in Relays : loc[r].grant \in Int  BY DEF Shape, Note
  <2> QED  BY <1>8, <2>1
<1>9. CASE b = [a EXCEPT !.baton = "outbox"]
  BY <1>9
<1>10. CASE b = [a EXCEPT !.baton = "prepared", !.broken = TRUE]
  BY <1>10
<1>11. CASE b = [a EXCEPT !.state = "returned", !.baton = "message"]
  BY <1>11
<1>12. CASE \E r \in Relays : \E n \in {loc[r].attempt, a.attempt} : b = [a EXCEPT !.result = n]
  <2>1. \A r \in Relays : loc[r].attempt \in Nat  BY DEF Shape, Note
  <2>2. \A n \in Nat : [a EXCEPT !.result = n] \in Job  OBVIOUS
  <2> QED  BY <1>12, <2>1, <2>2
<1>13. CASE (\E broken \in BOOLEAN : b = [a EXCEPT !.broken = broken]) \/ b = [a EXCEPT !.owner = "dead"]
  BY <1>13
<1> QED
  BY <1>1, <1>2, <1>3, <1>4, <1>5, <1>6, <1>7, <1>8, <1>9, <1>10, <1>11, <1>12, <1>13 DEF Moved

LEMMA JobsAre ==
    ASSUME Shape
    PROVE  /\ Len(jobs) \in Nat \ {0} /\ DOMAIN jobs = 1..Len(jobs)
           /\ \A j \in DOMAIN jobs : jobs[j] \in Job
BY DEF Shape

LEMMA NoJobMoves == ASSUME Shape, UNCHANGED jobs PROVE JobStep
BY JobsAre DEF JobStep, Moved, Shape

LEMMA OneMoves ==
    ASSUME Shape, NEW j \in DOMAIN jobs, NEW b, Moved(jobs[j], b),
           jobs' = [jobs EXCEPT ![j] = b]
    PROVE  JobStep
<1>1. /\ jobs' \in Seq(Job) /\ Len(jobs') = Len(jobs) /\ DOMAIN jobs' = DOMAIN jobs
      /\ \A i \in DOMAIN jobs : jobs'[i] = IF i = j THEN b ELSE jobs[i]
  BY JobsAre, MovedJob, ExceptSeq DEF Shape
<1>2. \A i \in DOMAIN jobs : Moved(jobs[i], jobs[i])  BY DEF Moved
<1> QED  BY <1>1, <1>2, JobsAre DEF JobStep

LEMMA EveryoneMoves ==
    ASSUME Shape, NEW f, DOMAIN f = DOMAIN jobs, f = [j \in DOMAIN f |-> f[j]], jobs' = f,
           \A j \in DOMAIN jobs : Moved(jobs[j], f[j])
    PROVE  JobStep
<1>1. jobs' \in Seq(Job) /\ Len(jobs') = Len(jobs) /\ DOMAIN jobs' = DOMAIN jobs
  <2>1. \A j \in DOMAIN jobs : f[j] \in Job  BY JobsAre, MovedJob
  <2>2. f \in [1..Len(jobs) -> Job]  BY <2>1, JobsAre
  <2> QED  BY <2>2, JobsAre
<1> QED  BY <1>1, JobsAre DEF JobStep

Base == Shape /\ NotesFit /\ BlockFits /\ RootFirst /\ JobsFit /\ EffectsFit

\* What a relay does to the jobs.
LEMMA RelayMovesJobs ==
    ASSUME Base, NEW r \in Relays, TakeUp(r) \/ Advance(r)
    PROVE  JobStep
<1> USE JobsAre DEF Base
<1> DEFINE job == jobs[loc[r].job]
<1>1. CASE TakeUp(r)
  BY <1>1, NoJobMoves DEF TakeUp, ClaimRoot, ClaimAuthorization, ClaimJobEffect, Claim, ReadOutcome, DecideBaton
<1>2. CASE RootCommits(r) \/ AuthorizationCommits(r) \/ WorkspaceCreated(r) \/ BindRoot(r)
           \/ IssueAuthorization(r) \/ AdvanceBarrier(r)
  BY <1>2, NoJobMoves
     DEF RootCommits, AuthorizationCommits, WorkspaceCreated, BindRoot, IssueAuthorization, AdvanceBarrier
<1>3. CASE JobCommits(r)
  <2>1. loc[r].job \in DOMAIN jobs  BY <1>3 DEF JobCommits, NotesFit
  <2> DEFINE b == [job EXCEPT !.state = Performed[job.state],
                              !.baton = IF job.state = "returning" THEN "outbox" ELSE @]
  <2>2. CASE job.state \notin DOMAIN Performed  BY <1>3, <2>2, NoJobMoves DEF JobCommits
  <2>3. CASE job.state \in DOMAIN Performed
    <3>1. jobs' = [jobs EXCEPT ![loc[r].job] = b]  BY <1>3, <2>1, <2>3 DEF JobCommits, Job
    <3>2. Moved(job, b)
      <4>1. CASE job.state = "returning"
        <5>1. job.baton = "prepared"  BY <1>3, <2>1, <4>1 DEF JobCommits, EffectsFit
        <5>2. b = [job EXCEPT !.baton = "outbox"]  BY <2>1, <4>1, PerformedStages DEF Job
        <5> QED  BY <4>1, <5>1, <5>2 DEF Moved
      <4>2. CASE job.state # "returning"
        <5>1. b = [job EXCEPT !.state = Performed[job.state]]  BY <2>1, <4>2 DEF Job
        <5> QED  BY <2>3, <4>2, <5>1, PerformedStages DEF Moved
      <4> QED  BY <4>1, <4>2
    <3> QED  BY <2>1, <3>1, <3>2, OneMoves
  <2> QED  BY <2>2, <2>3
<1>4. CASE ActivateRoot(r)
  <2>1. CASE run.phase = "pending_root"
    <3> DEFINE b == [jobs[1] EXCEPT !.state = "queued"]
    <3>1. jobs[1].state = "dormant"  BY <2>1 DEF RootFirst, EffectivePhase, RootPhases
    <3>2. jobs' = [jobs EXCEPT ![1] = b] /\ 1 \in DOMAIN jobs  BY <1>4, <2>1 DEF ActivateRoot
    <3> QED  BY <3>1, <3>2, OneMoves DEF Moved
  <2> QED  BY <1>4, <2>1, NoJobMoves DEF ActivateRoot
<1>5. CASE RequeueClaim(r)
  <2>1. PICK j \in Waiting(r) :
          /\ jobs[j].owner = "dead" /\ jobs[j].state # "queued"
          /\ jobs' = [jobs EXCEPT ![j].state = "queued", ![j].owner = "none"]
    BY <1>5 DEF RequeueClaim
  <2> DEFINE b == [jobs[j] EXCEPT !.state = "queued", !.owner = "none"]
  <2>2. j \in DOMAIN jobs /\ jobs[j].state = "owned"  BY <2>1 DEF Waiting, Current
  <2>3. jobs' = [jobs EXCEPT ![j] = b]  BY <2>1, <2>2 DEF Job
  <2> QED  BY <2>2, <2>3, OneMoves DEF Moved
<1>6. CASE ClaimNextJob(r)
  <2>1. PICK j \in DOMAIN jobs :
          jobs[j].state = "queued" /\ jobs' = [jobs EXCEPT ![j].state = "owned", ![j].owner = r]
    BY <1>6 DEF ClaimNextJob
  <2> DEFINE b == [jobs[j] EXCEPT !.state = "owned", !.owner = r]
  <2>2. jobs' = [jobs EXCEPT ![j] = b]  BY <2>1 DEF Job
  <2> QED  BY <2>1, <2>2, OneMoves DEF Moved
<1>7. CASE BeginJobAttempt(r)
  <2>1. PICK j \in Waiting(r) :
          /\ jobs[j].state # "queued"
          /\ jobs' = [jobs EXCEPT ![j].state = "opening", ![j].attempt = @ + 1, ![j].owner = "none"]
    BY <1>7 DEF BeginJobAttempt
  <2> DEFINE b == [jobs[j] EXCEPT !.state = "opening", !.attempt = @ + 1, !.owner = "none"]
  <2>2. j \in DOMAIN jobs /\ jobs[j].state = "owned"  BY <2>1 DEF Waiting, Current
  <2>3. jobs' = [jobs EXCEPT ![j] = b]  BY <2>1, <2>2 DEF Job
  <2> QED  BY <2>2, <2>3, OneMoves DEF Moved
<1>8. CASE TakeSuccess(r)
  <2> DEFINE b == [job EXCEPT !.state = "returning", !.result = loc[r].attempt]
  <2>1. /\ loc[r].job \in DOMAIN jobs /\ job.state = "running" /\ loc[r].attempt = job.attempt
    BY <1>8 DEF TakeSuccess, StillRunning, NotesFit
  <2>2. jobs' = [jobs EXCEPT ![loc[r].job] = b] 
    BY <1>8, <2>1 DEF TakeSuccess, Job
  <2> QED  BY <2>1, <2>2, OneMoves DEF Moved
<1>9. CASE PrepareBaton(r)
  <2> DEFINE b == [job EXCEPT !.baton = "prepared", !.grant = loc[r].grant]
  <2>1. loc[r].job \in DOMAIN jobs /\ loc[r].grant \in Int
    BY <1>9 DEF PrepareBaton, NotesFit, Shape, Note
  <2>2. job.baton = "none" /\ job.state = "returning"
    BY <1>9, <2>1 DEF PrepareBaton, EffectsFit, JobsFit, JobFits, Terminal
  <2>3. jobs' = [jobs EXCEPT ![loc[r].job] = b]
    BY <1>9, <2>1 DEF PrepareBaton, Job
  <2> QED  BY <2>1, <2>2, <2>3, OneMoves DEF Moved
<1>10. CASE BatonDelivered(r)
  <2>1. PICK j \in DOMAIN jobs :
          /\ jobs[j].state = "returning" /\ jobs[j].baton = "outbox"
          /\ jobs' = [jobs EXCEPT ![j].state = "returned", ![j].baton = "message"]
    BY <1>10 DEF BatonDelivered
  <2> DEFINE b == [jobs[j] EXCEPT !.state = "returned", !.baton = "message"]
  <2>2. jobs' = [jobs EXCEPT ![j] = b]  BY <2>1 DEF Job
  <2> QED  BY <2>1, <2>2, OneMoves DEF Moved
<1> QED
  BY <1>1, <1>2, <1>3, <1>4, <1>5, <1>6, <1>7, <1>8, <1>9, <1>10 DEF Advance

\* What its mishaps do to them.
MishapOf(r) ==
    EffectFails(r) \/ ReceiptLost(r) \/ TakeFailure(r) \/ LateResult(r) \/ Crash(r)

LEMMA MishapMovesJobs == ASSUME Base, NEW r \in Relays, MishapOf(r) PROVE JobStep
<1> USE JobsAre DEF Base
<1> DEFINE job == jobs[loc[r].job]
<1>1. CASE EffectFails(r)
  <2>1. CASE loc[r].phase = "job" /\ jobs[loc[r].job].state \in DOMAIN Performed
    <3> DEFINE b == [job EXCEPT !.broken = TRUE]
    <3>1. loc[r].job \in DOMAIN jobs  BY <1>1, <2>1 DEF EffectFails, NotesFit
    <3>2. jobs' = [jobs EXCEPT ![loc[r].job] = b]  BY <1>1, <2>1, <3>1 DEF EffectFails, Job
    <3>3. Moved(job, b)  BY DEF Moved
    <3> QED  BY <3>1, <3>2, <3>3, OneMoves
  <2>2. CASE ~(loc[r].phase = "job" /\ jobs[loc[r].job].state \in DOMAIN Performed)
    BY <1>1, <2>2, NoJobMoves DEF EffectFails
  <2> QED  BY <2>1, <2>2
<1>2. CASE ReceiptLost(r)
  <2>1. CASE UNCHANGED jobs  BY <2>1, NoJobMoves
  <2>2. CASE ~UNCHANGED jobs
    <3>1. PICK j \in DOMAIN jobs :
            /\ jobs[j].state = "returning" /\ jobs[j].baton = "outbox"
            /\ jobs' = [jobs EXCEPT ![j].baton = "prepared", ![j].broken = TRUE]
      BY <1>2, <2>2 DEF ReceiptLost
    <3> DEFINE b == [jobs[j] EXCEPT !.baton = "prepared", !.broken = TRUE]
    <3>2. jobs' = [jobs EXCEPT ![j] = b]  BY <3>1 DEF Job
    <3>3. Moved(jobs[j], b)  BY <3>1 DEF Moved
    <3> QED  BY <3>2, <3>3, OneMoves
  <2> QED  BY <2>1, <2>2
<1>3. CASE TakeFailure(r)
  <2> DEFINE b == [job EXCEPT !.state = "failed", !.failed = job.attempt]
  <2>1. /\ loc[r].job \in DOMAIN jobs /\ job.state = "running" /\ loc[r].attempt = job.attempt
    BY <1>3 DEF TakeFailure, StillRunning, NotesFit
  <2>2. jobs' = [jobs EXCEPT ![loc[r].job] = b]  BY <1>3, <2>1 DEF TakeFailure, Job
  <2>3. Moved(job, b)  BY <2>1 DEF Moved
  <2> QED  BY <2>1, <2>2, <2>3, OneMoves
<1>4. CASE LateResult(r)
  <2>1. PICK j \in DOMAIN jobs :
          /\ jobs[j].state = "cancelled"
          /\ jobs' = [jobs EXCEPT ![j].result = IF loc[r].at = "outcome" THEN loc[r].attempt
                                                ELSE jobs[j].attempt]
    BY <1>4 DEF LateResult
  <2> DEFINE n == IF loc[r].at = "outcome" THEN loc[r].attempt ELSE jobs[j].attempt
  <2>2. n \in Nat  BY DEF Shape, Note, Job
  <2>3. Moved(jobs[j], [jobs[j] EXCEPT !.result = n])  BY <2>1, <2>2 DEF Moved
  <2>4. jobs' = [jobs EXCEPT ![j] = [jobs[j] EXCEPT !.result = n]]  BY <2>1 DEF Job
  <2> QED  BY <2>3, <2>4, OneMoves
<1>5. CASE Crash(r)
  <2> DEFINE f == [j \in DOMAIN jobs |->
                     IF jobs[j].owner = r THEN [jobs[j] EXCEPT !.owner = "dead"] ELSE jobs[j]]
  <2>1. jobs' = f  BY <1>5 DEF Crash
  <2>2. \A j \in DOMAIN jobs : Moved(jobs[j], f[j])  BY DEF Moved
  <2> HIDE DEF f
  <2>3. DOMAIN f = DOMAIN jobs /\ f = [j \in DOMAIN f |-> f[j]]  BY DEF f
  <2> QED  BY <2>1, <2>2, <2>3, EveryoneMoves
<1> QED  BY <1>1, <1>2, <1>3, <1>4, <1>5 DEF MishapOf

\* What the phone and the root chat do to them.
Request ==
    \/ \E c \in caps, role \in Roles : Delegate(c, role)
    \/ \E k \in RetryKeys : Recover(k)
    \/ Complete \/ Cancel

LEMMA RequestMovesJobs == ASSUME Base, Request PROVE JobStep
<1> USE JobsAre DEF Base
<1>1. ASSUME NEW c \in caps, NEW role \in Roles, Delegate(c, role) PROVE JobStep
  <2> DEFINE new == [role |-> role, cycle |-> run'.cycle, state |-> "queued", attempt |-> 0,
                     failed |-> 0, owner |-> "none", result |-> 0, broken |-> FALSE,
                     baton |-> "none", grant |-> -1, by |-> <<c.phase, c.with>>]
  <2>1. jobs' = Append(jobs, new)  BY <1>1 DEF Delegate
  <2>2. run'.cycle \in Nat  BY <1>1 DEF Delegate, Transition, Shape, RunRecord
  <2>3. <<c.phase, c.with>> \in (Working \cup {"none"}) \X Nat  BY DEF Shape, Grant, Working
  <2>4. new \in Job  BY <2>2, <2>3, StageNames DEF Job
  <2> HIDE DEF new
  <2>5. /\ jobs' \in Seq(Job) /\ Len(jobs') = Len(jobs) + 1
        /\ \A j \in 1..Len(jobs) : jobs'[j] = jobs[j]
        /\ jobs'[Len(jobs) + 1] = new /\ DOMAIN jobs' = 1..(Len(jobs) + 1)
    BY <2>1, <2>4 DEF Shape
  <2>6. Ordered(new)  BY DEF Ordered, new
  <2>7. \A j \in DOMAIN jobs' \ DOMAIN jobs : jobs'[j] = new  BY <2>5
  <2>8. \A j \in DOMAIN jobs : Moved(jobs[j], jobs'[j])  BY <2>5 DEF Moved
  <2> QED  BY <2>5, <2>6, <2>7, <2>8 DEF JobStep
<1>2. ASSUME NEW k \in RetryKeys, Recover(k) PROVE JobStep
  <2> DEFINE thing == run.why.blocked
  <2>1. CASE thing.kind = "failed"
    <3> DEFINE b == [jobs[thing.job] EXCEPT !.state = "queued"]
    <3>1. thing.job \in DOMAIN jobs /\ jobs[thing.job].state = "failed"  BY <2>1 DEF BlockFits
    <3>2. jobs' = [jobs EXCEPT ![thing.job] = b]  BY <1>2, <2>1 DEF Recover
    <3>3. Moved(jobs[thing.job], b)  BY <3>1 DEF Moved
    <3> QED  BY <3>1, <3>2, <3>3, OneMoves
  <2>2. CASE thing.kind = "job"
    <3> DEFINE b == [jobs[thing.job] EXCEPT !.broken = FALSE]
    <3>1. thing.job \in DOMAIN jobs  BY <2>2 DEF BlockFits
    <3>2. jobs' = [jobs EXCEPT ![thing.job] = b]  BY <1>2, <2>2 DEF Recover
    <3>3. Moved(jobs[thing.job], b)  BY DEF Moved
    <3> QED  BY <3>1, <3>2, <3>3, OneMoves
  <2>3. CASE thing.kind \notin {"failed", "job"}  BY <1>2, <2>3, NoJobMoves DEF Recover
  <2> QED  BY <2>1, <2>2, <2>3
<1>3. CASE Complete  BY <1>3, NoJobMoves DEF Complete
<1>4. CASE Cancel
  <2> DEFINE f == [j \in DOMAIN jobs |-> IF jobs[j].state \in JobEnds THEN jobs[j]
                                         ELSE [jobs[j] EXCEPT !.state = "cancelled"]]
  <2>1. jobs' = f  BY <1>4 DEF Cancel
  <2>2. \A j \in DOMAIN jobs : Moved(jobs[j], f[j])  BY DEF Moved
  <2> HIDE DEF f
  <2>3. DOMAIN f = DOMAIN jobs /\ f = [j \in DOMAIN f |-> f[j]]  BY DEF f
  <2> QED  BY <2>1, <2>2, <2>3, EveryoneMoves
<1> QED  BY <1>1, <1>2, <1>3, <1>4 DEF Request

\* Every step moves the jobs this way.
LEMMA StepMovesJobs == ASSUME Base, [Next]_vars PROVE JobStep
<1>1. CASE UNCHANGED vars  BY <1>1, NoJobMoves DEF vars, Base
<1>2. ASSUME NEW r \in Relays, Wake(r) \/ Incompatible(r) \/ Sleep(r) PROVE JobStep
  BY <1>2, NoJobMoves DEF Wake, Incompatible, Sleep, Base
<1> QED
  BY <1>1, <1>2, RelayMovesJobs, MishapMovesJobs, RequestMovesJobs DEF Next, MishapOf, Request

-----------------------------------------------------------------------------
(* The rows and the notes keep their shape. *)

Thing == [kind : BlockKinds, job : Nat]

LEMMA BlockShape ==
    ASSUME Shape
    PROVE  /\ \A thing \in Thing, class \in {"deterministic", "ambiguous", "terminal"} :
                 Block(thing, class) \in RunRecord
           /\ run.phase = "blocked" /\ BlockFits => Unblock \in RunRecord
<1> USE DEF Shape
<1>1. ASSUME NEW thing \in Thing, NEW class \in {"deterministic", "ambiguous", "terminal"}
      PROVE  Block(thing, class) \in RunRecord
  <2> DEFINE why == [blocked |-> thing, class |-> class, resume |-> run.phase]
  <2>1. CASE run.phase \in Runnable
    <3>1. why \in Why  BY <2>1 DEF Why, Thing
    <3> HIDE DEF why
    <3>2. run.blocks + 1 \in Nat /\ "blocked" \in Phases  BY DEF RunRecord, Phases
    <3>3. \A n \in Nat : [run EXCEPT !.phase = "blocked", !.blocks = n, !.why = why] \in RunRecord
      BY <3>1, <3>2 DEF RunRecord
    <3> QED  BY <2>1, <3>2, <3>3 DEF Block, why
  <2> QED  BY <2>1 DEF Block
<1>2. ASSUME run.phase = "blocked", BlockFits PROVE Unblock \in RunRecord
  <2>1. Free \in Why  BY DEF Free, Why, Nothing, BlockKinds
  <2>2. run.why.resume \in Phases  BY <1>2 DEF BlockFits, Phases
  <2> QED  BY <2>1, <2>2 DEF Unblock, RunRecord
<1> QED  BY <1>1, <1>2

LEMMA NoteShape ==
    ASSUME Shape, NEW r \in Relays
    PROVE  /\ Rest(r) => loc' \in [Relays -> Note]
           /\ \A note \in Note : loc' = [loc EXCEPT ![r] = note] => loc' \in [Relays -> Note]
           /\ run.phase \in Runnable => Snapshot(run) \in Note
           /\ \A kind \in EffectKinds, j \in Nat :
                 [Idle EXCEPT !.at = "effect", !.phase = kind, !.job = j] \in Note
           /\ \A j \in Nat, attempt \in Nat :
                 [Idle EXCEPT !.at = "outcome", !.job = j, !.attempt = attempt] \in Note
           /\ \A j \in Nat, grant \in Int :
                 [Idle EXCEPT !.at = "baton", !.job = j, !.grant = grant] \in Note
<1>1. Idle \in Note  BY DEF Idle, Note
<1>2. Rest(r) => loc' \in [Relays -> Note]  BY <1>1 DEF Rest, Shape
<1>3. \A note \in Note : loc' = [loc EXCEPT ![r] = note] => loc' \in [Relays -> Note]  BY DEF Shape
<1>4. ASSUME run.phase \in Runnable PROVE Snapshot(run) \in Note
  <2>1. run.cycle \in Nat /\ run.revision \in Nat  BY DEF Shape, RunRecord
  <2>2. ASSUME NEW note \in Note, NEW phase \in Runnable, NEW cycle \in Nat, NEW revision \in Nat
        PROVE  [note EXCEPT !.at = "woken", !.phase = phase, !.cycle = cycle,
                            !.revision = revision] \in Note
    BY DEF Note
  <2> QED  BY <1>1, <1>4, <2>1, <2>2 DEF Snapshot
<1>5. ASSUME NEW kind \in EffectKinds, NEW j \in Nat
      PROVE  [Idle EXCEPT !.at = "effect", !.phase = kind, !.job = j] \in Note
  BY <1>1 DEF Note
<1>6. ASSUME NEW j \in Nat, NEW attempt \in Nat
      PROVE  [Idle EXCEPT !.at = "outcome", !.job = j, !.attempt = attempt] \in Note
  BY <1>1 DEF Note
<1>7. ASSUME NEW j \in Nat, NEW grant \in Int
      PROVE  [Idle EXCEPT !.at = "baton", !.job = j, !.grant = grant] \in Note
  BY <1>1 DEF Note
<1> QED  BY <1>2, <1>3, <1>4, <1>5, <1>6, <1>7

LEMMA GrantShape ==
    ASSUME Shape
    PROVE  /\ \A live \in SUBSET caps : Revoke(live) \subseteq Grant
           /\ \A phase \in {"exploring", "planning", "reviewing"}, cycle, revision, with \in Nat :
                 Issued(phase, cycle, revision, with) \in Grant
<1>1. \A c \in Grant : [c EXCEPT !.state = "revoked"] \in Grant  BY DEF Grant
<1>2. \A live \in SUBSET caps : Revoke(live) \subseteq Grant  BY <1>1 DEF Revoke, Shape
<1> QED  BY <1>2 DEF Issued, Grant

LEMMA TakeUpShape ==
    ASSUME Base, JobStep, NEW r \in Relays, TakeUp(r) \/ Wake(r) \/ Sleep(r)
    PROVE  Shape'
<1> USE JobsAre DEF Base
<1>1. loc' \in [Relays -> Note]
  <2>1. CASE Wake(r)  BY <2>1, NoteShape DEF Wake
  <2>2. CASE Sleep(r)  BY <2>2, NoteShape DEF Sleep
  <2>3. ASSUME NEW kind \in EffectKinds, NEW j \in Nat, Claim(r, kind, j)
        PROVE  loc' \in [Relays -> Note]
    BY <2>3, NoteShape DEF Claim
  <2>4. CASE ClaimRoot(r)  BY <2>3, <2>4 DEF ClaimRoot, EffectKinds
  <2>5. CASE ClaimAuthorization(r)  BY <2>3, <2>5 DEF ClaimAuthorization, EffectKinds
  <2>6. CASE ClaimJobEffect(r)  BY <2>3, <2>6 DEF ClaimJobEffect, EffectKinds
  <2>7. CASE ReadOutcome(r)
    <3>1. PICK j \in DOMAIN jobs :
            loc' = [loc EXCEPT ![r] = [Idle EXCEPT !.at = "outcome", !.job = j,
                                                   !.attempt = jobs[j].attempt]]
      BY <2>7 DEF ReadOutcome
    <3>2. jobs[j].attempt \in Nat /\ j \in Nat  BY DEF Job
    <3> QED  BY <3>1, <3>2, NoteShape
  <2>8. CASE DecideBaton(r)
    <3>1. PICK j \in DOMAIN jobs :
            loc' = [loc EXCEPT ![r] = [Idle EXCEPT !.at = "baton", !.job = j,
                      !.grant = IF DesignatedFinal(j) THEN loc[r].revision + 1 ELSE -1]]
      BY <2>8 DEF DecideBaton
    <3> DEFINE grant == IF DesignatedFinal(j) THEN loc[r].revision + 1 ELSE -1
    <3>2. grant \in Int /\ j \in Nat  BY DEF Shape, Note
    <3> HIDE DEF grant
    <3> QED  BY <3>1, <3>2, NoteShape DEF grant
  <2> QED  BY <2>1, <2>2, <2>4, <2>5, <2>6, <2>7, <2>8 DEF TakeUp
<1>2. UNCHANGED <<run, jobs, caps, root, auth, accepted, retried, crashes>>
  BY DEF TakeUp, Wake, Sleep, ClaimRoot, ClaimAuthorization, ClaimJobEffect, Claim, ReadOutcome,
         DecideBaton
<1> QED  BY <1>1, <1>2 DEF Shape

LEMMA RunShape == ASSUME Base, [Next]_vars PROVE run' \in RunRecord
<1> USE BlockShape DEF Base
<1>1. run \in RunRecord  BY DEF Shape
<1>2. \A phase \in Phases : [run EXCEPT !.phase = phase] \in RunRecord  BY <1>1 DEF RunRecord
<1>3. ASSUME NEW r \in Relays, TakeUp(r) \/ Wake(r) \/ Sleep(r) \/ LateResult(r) \/ Crash(r)
      PROVE  run' = run
  BY <1>3 DEF TakeUp, Wake, Sleep, LateResult, Crash, ClaimRoot, ClaimAuthorization, ClaimJobEffect,
              Claim, ReadOutcome, DecideBaton
<1>4. ASSUME NEW r \in Relays,
             \/ RootCommits(r) \/ AuthorizationCommits(r) \/ JobCommits(r) \/ IssueAuthorization(r)
             \/ RequeueClaim(r) \/ ClaimNextJob(r) \/ BeginJobAttempt(r) \/ TakeSuccess(r)
             \/ PrepareBaton(r) \/ BatonDelivered(r)
      PROVE  run' = run
  BY <1>4 DEF RootCommits, AuthorizationCommits, JobCommits, IssueAuthorization, RequeueClaim,
              ClaimNextJob, BeginJobAttempt, TakeSuccess, PrepareBaton, BatonDelivered
<1>5. ASSUME NEW r \in Relays, Incompatible(r) PROVE run' \in RunRecord
  <2>1. [kind |-> "compatibility", job |-> 0] \in Thing  BY DEF Thing, BlockKinds
  <2> QED  BY <1>5, <2>1 DEF Incompatible
<1>6. ASSUME NEW r \in Relays, WorkspaceCreated(r) PROVE run' \in RunRecord
  BY <1>2, <1>6 DEF WorkspaceCreated, Phases, Runnable
<1>7. ASSUME NEW r \in Relays, BindRoot(r) PROVE run' \in RunRecord
  <2>1. [kind |-> "bind-root", job |-> 0] \in Thing  BY DEF Thing, BlockKinds
  <2> QED  BY <1>2, <1>7, <2>1 DEF BindRoot, Phases, Runnable
<1>8. ASSUME NEW r \in Relays, ActivateRoot(r) PROVE run' \in RunRecord
  BY <1>1, <1>2, <1>8 DEF ActivateRoot, Phases, Runnable, Working
<1>9. ASSUME NEW r \in Relays, AdvanceBarrier(r) PROVE run' \in RunRecord
  <2> DEFINE role == IF loc[r].phase = "exploring" THEN "exploration" ELSE "implementation"
             next == IF role = "exploration" THEN "planning" ELSE "reviewing"
  <2>1. CASE run' = run  BY <1>1, <2>1
  <2>2. CASE run' = Block([kind |-> "barrier", job |-> 0], "terminal")
    <3>1. [kind |-> "barrier", job |-> 0] \in Thing  BY DEF Thing, BlockKinds
    <3> QED  BY <2>2, <3>1
  <2>3. ASSUME NEW j \in DOMAIN jobs, jobs[j].grant >= 0,
               run' = [run EXCEPT !.phase = next, !.revision = jobs[j].grant]
        PROVE  run' \in RunRecord
    <3>1. jobs[j].grant \in Nat  BY <2>3, JobsAre DEF Job
    <3>2. \A phase \in Phases, n \in Nat : [run EXCEPT !.phase = phase, !.revision = n] \in RunRecord
      BY <1>1 DEF RunRecord
    <3> QED  BY <2>3, <3>1, <3>2 DEF Phases, Runnable, Working
  <2> QED  BY <1>9, <2>1, <2>2, <2>3 DEF AdvanceBarrier, Current
<1>10. ASSUME NEW r \in Relays, EffectFails(r) PROVE run' \in RunRecord
  <2>1. [kind |-> loc[r].phase, job |-> loc[r].job] \in Thing
    BY <1>10 DEF EffectFails, NotesFit, Thing, BlockKinds, Shape, Note
  <2> QED  BY <1>10, <2>1 DEF EffectFails
<1>11. ASSUME NEW r \in Relays, ReceiptLost(r) PROVE run' \in RunRecord
  <2>1. \A kind \in EffectKinds, j \in Nat : [kind |-> kind, job |-> j] \in Thing
    BY DEF Thing, BlockKinds
  <2>2. 0 \in Nat /\ Len(jobs) \in Nat /\ DOMAIN jobs \subseteq Nat  BY JobsAre
  <2> QED  BY <1>11, <2>1, <2>2 DEF ReceiptLost, EffectKinds
<1>12. ASSUME NEW r \in Relays, TakeFailure(r) PROVE run' \in RunRecord
  <2>1. [kind |-> "failed", job |-> loc[r].job] \in Thing  BY DEF Thing, BlockKinds, Shape, Note
  <2> QED  BY <1>12, <2>1 DEF TakeFailure
<1>13. ASSUME NEW c \in caps, NEW role \in Roles, Delegate(c, role) PROVE run' \in RunRecord
  <2>1. run.revision + 1 \in Nat /\ run.cycle + 1 \in Nat  BY <1>1 DEF RunRecord
  <2>2. \A n \in Nat : [run EXCEPT !.revision = n] \in RunRecord  BY <1>1 DEF RunRecord
  <2>3. \A n \in Nat : [run EXCEPT !.phase = "implementing", !.revision = n] \in RunRecord
    BY <1>1 DEF RunRecord, Phases, Runnable, Working
  <2>4. \A n \in Nat : [run EXCEPT !.phase = "exploring", !.cycle = n, !.revision = 0] \in RunRecord
    BY <1>1 DEF RunRecord, Phases, Runnable, Working
  <2> QED  BY <1>13, <2>1, <2>2, <2>3, <2>4 DEF Delegate, Transition
<1>14. ASSUME NEW k \in RetryKeys, Recover(k) PROVE run' \in RunRecord
  BY <1>14 DEF Recover
<1>15. CASE Complete \/ Cancel
  <2>1. Free \in Why  BY DEF Free, Why, Nothing, BlockKinds
  <2>2. [run EXCEPT !.phase = "cancelled", !.why = Free] \in RunRecord
    BY <1>1, <2>1 DEF RunRecord, Phases, Terminal
  <2> QED  BY <1>2, <1>15, <2>2 DEF Complete, Cancel, Phases, Terminal
<1>16. CASE UNCHANGED vars  BY <1>1, <1>16 DEF vars
<1> QED
  BY <1>1, <1>3, <1>4, <1>5, <1>6, <1>7, <1>8, <1>9, <1>10, <1>11, <1>12, <1>13, <1>14, <1>15, <1>16
     DEF Next, Advance

LEMMA NotesShape == ASSUME Base, [Next]_vars PROVE loc' \in [Relays -> Note]
<1> USE NoteShape DEF Base
<1>1. loc \in [Relays -> Note]  BY DEF Shape
<1>2. ASSUME NEW r \in Relays, TakeUp(r) \/ Wake(r) \/ Sleep(r) PROVE loc' \in [Relays -> Note]
  BY <1>2, TakeUpShape, StepMovesJobs DEF Next, Shape
<1>3. ASSUME NEW r \in Relays, BatonDelivered(r) PROVE loc' \in [Relays -> Note]
  <2>1. Idle \in Note  BY DEF Idle, Note
  <2>2. loc' = [loc EXCEPT ![r] = IF run.phase \in Working THEN Snapshot(run) ELSE Idle]
    BY <1>3 DEF BatonDelivered
  <2> QED  BY <2>1, <2>2 DEF Runnable
<1>4. ASSUME NEW r \in Relays, Advance(r) \/ MishapOf(r) \/ Incompatible(r), ~BatonDelivered(r)
      PROVE  Rest(r)
  <2>1. CASE Advance(r)
    BY <1>4, <2>1
       DEF Advance, RootCommits, AuthorizationCommits, JobCommits, IssueAuthorization, RequeueClaim,
           ClaimNextJob, BeginJobAttempt, TakeSuccess, PrepareBaton, WorkspaceCreated, BindRoot,
           ActivateRoot, AdvanceBarrier
  <2>2. CASE MishapOf(r)
    BY <2>2 DEF MishapOf, EffectFails, ReceiptLost, TakeFailure, LateResult, Crash
  <2>3. CASE Incompatible(r)  BY <2>3 DEF Incompatible
  <2> QED  BY <1>4, <2>1, <2>2, <2>3
<1>5. CASE Request  BY <1>1, <1>5 DEF Request, Delegate, Recover, Complete, Cancel
<1>6. CASE UNCHANGED vars  BY <1>1, <1>6 DEF vars
<1> QED  BY <1>2, <1>3, <1>4, <1>5, <1>6 DEF Next, Request, MishapOf

LEMMA CapsShape == ASSUME Base, [Next]_vars PROVE caps' \subseteq Grant
<1> USE GrantShape DEF Base
<1>1. caps \subseteq Grant /\ run \in RunRecord  BY DEF Shape
<1>2. run.cycle \in Nat /\ run.revision \in Nat /\ Len(jobs) \in Nat  BY <1>1, JobsAre DEF RunRecord
<1>3. LiveCaps \subseteq caps /\ \A phase : {c \in LiveCaps : c.phase = phase} \subseteq caps
  BY DEF LiveCaps
<1>4. ASSUME NEW r \in Relays, ActivateRoot(r) \/ IssueAuthorization(r) PROVE caps' \subseteq Grant
  <2>1. \A cycle, revision, with \in Nat : Issued("exploring", cycle, revision, with) \in Grant
    OBVIOUS
  <2>2. Issued("exploring", 0, 0, 0) \in Grant  BY <2>1
  <2>3. Issued("exploring", run.cycle, run.revision, Len(jobs)) \in Grant  BY <1>2, <2>1
  <2> HIDE DEF Issued
  <2> QED  BY <1>1, <1>4, <2>2, <2>3 DEF ActivateRoot, IssueAuthorization
<1>5. ASSUME NEW r \in Relays, AdvanceBarrier(r) PROVE caps' \subseteq Grant
  <2> DEFINE role == IF loc[r].phase = "exploring" THEN "exploration" ELSE "implementation"
             next == IF role = "exploration" THEN "planning" ELSE "reviewing"
  <2>1. CASE caps' = caps  BY <1>1, <2>1
  <2>2. ASSUME NEW j \in DOMAIN jobs, jobs[j].grant >= 0,
               caps' = Revoke({c \in LiveCaps : c.phase = loc[r].phase})
                         \cup {Issued(next, run.cycle, jobs[j].grant, j)}
        PROVE  caps' \subseteq Grant
    <3>1. jobs[j].grant \in Nat /\ j \in Nat  BY <2>2, JobsAre DEF Job
    <3> QED  BY <1>2, <1>3, <2>2, <3>1
  <2> QED  BY <1>5, <2>1, <2>2 DEF AdvanceBarrier, Current
<1>6. ASSUME NEW c \in caps, NEW role \in Roles, Delegate(c, role) PROVE caps' \subseteq Grant
  <2>1. \A d \in Grant, state \in {"consumed", "revoked"} : [d EXCEPT !.state = state] \in Grant
    BY DEF Grant
  <2> QED  BY <1>1, <1>6, <2>1 DEF Delegate
<1>7. CASE Complete \/ Cancel  BY <1>3, <1>7 DEF Complete, Cancel
<1>8. ASSUME NEW r \in Relays, TakeUp(r) \/ Wake(r) \/ Sleep(r) \/ Incompatible(r) \/ MishapOf(r)
      PROVE  caps' = caps
  BY <1>8 DEF TakeUp, Wake, Sleep, ClaimRoot, ClaimAuthorization, ClaimJobEffect, Claim, ReadOutcome,
              DecideBaton, Incompatible, MishapOf, EffectFails, ReceiptLost, TakeFailure, LateResult,
              Crash
<1>9. ASSUME NEW r \in Relays, Advance(r) PROVE caps' \subseteq Grant
  BY <1>1, <1>4, <1>5, <1>9
     DEF Advance, RootCommits, AuthorizationCommits, JobCommits, RequeueClaim, ClaimNextJob,
         BeginJobAttempt, TakeSuccess, PrepareBaton, BatonDelivered, WorkspaceCreated, BindRoot
<1>10. ASSUME NEW k \in RetryKeys, Recover(k) PROVE caps' = caps  BY <1>10 DEF Recover
<1>11. CASE UNCHANGED vars  BY <1>1, <1>11 DEF vars
<1> QED
  BY <1>1, <1>6, <1>7, <1>8, <1>9, <1>10, <1>11 DEF Next, MishapOf

LEMMA RestShape ==
    ASSUME Base, [Next]_vars
    PROVE  /\ root' \in [step : RootSteps, broken : BOOLEAN]
           /\ auth' \in [state : {"none", "prepared", "sent", "issued"}, broken : BOOLEAN]
           /\ accepted' \subseteq {<<"root", 0>>} \cup (Roles \X (Nat \ {0}))
           /\ retried' \in [RetryKeys -> Nat]
           /\ crashes' \in Nat
<1> USE DEF Base
<1>1. /\ root \in [step : RootSteps, broken : BOOLEAN]
      /\ auth \in [state : {"none", "prepared", "sent", "issued"}, broken : BOOLEAN]
      /\ accepted \subseteq {<<"root", 0>>} \cup (Roles \X (Nat \ {0}))
      /\ retried \in [RetryKeys -> Nat] /\ crashes \in Nat
  BY DEF Shape
<1>2. \A step \in RootSteps : [root EXCEPT !.step = step] \in [step : RootSteps, broken : BOOLEAN]
  BY <1>1
<1>3. \A broken \in BOOLEAN : [root EXCEPT !.broken = broken] \in [step : RootSteps, broken : BOOLEAN]
  BY <1>1
<1>4. \A broken \in BOOLEAN :
        [auth EXCEPT !.broken = broken]
          \in [state : {"none", "prepared", "sent", "issued"}, broken : BOOLEAN]
  BY <1>1
<1>5. \A state \in {"none", "prepared", "sent", "issued"} :
        [auth EXCEPT !.state = state]
          \in [state : {"none", "prepared", "sent", "issued"}, broken : BOOLEAN]
  BY <1>1
<1>6. UNCHANGED vars \/ Next  OBVIOUS
<1> DEFINE Kept == UNCHANGED <<root, auth, accepted, retried, crashes>>
<1>7. ASSUME NEW r \in Relays, TakeUp(r) \/ Wake(r) \/ Sleep(r) \/ Incompatible(r) PROVE Kept
  BY <1>7 DEF TakeUp, Wake, Sleep, ClaimRoot, ClaimAuthorization, ClaimJobEffect, Claim, ReadOutcome,
              DecideBaton, Incompatible
<1>8. ASSUME NEW r \in Relays,
             \/ JobCommits(r) \/ WorkspaceCreated(r) \/ RequeueClaim(r) \/ ClaimNextJob(r)
             \/ BeginJobAttempt(r) \/ TakeSuccess(r) \/ PrepareBaton(r) \/ BatonDelivered(r)
             \/ TakeFailure(r) \/ LateResult(r)
      PROVE  Kept
  BY <1>8 DEF JobCommits, WorkspaceCreated, RequeueClaim, ClaimNextJob, BeginJobAttempt, TakeSuccess,
              PrepareBaton, BatonDelivered, TakeFailure, LateResult
<1>9. CASE Complete \/ Cancel \/ UNCHANGED vars
  BY <1>1, <1>9 DEF Complete, Cancel, vars
<1>10. ASSUME NEW r \in Relays, Crash(r) PROVE crashes' \in Nat /\ UNCHANGED <<root, auth, accepted, retried>>
  BY <1>1, <1>10 DEF Crash
<1>11. ASSUME NEW r \in Relays, RootCommits(r)
       PROVE  /\ root' \in [step : RootSteps, broken : BOOLEAN]
              /\ UNCHANGED <<auth, accepted, retried, crashes>>
  BY <1>2, <1>11 DEF RootCommits, RootSteps
<1>12. ASSUME NEW r \in Relays, BindRoot(r)
       PROVE  /\ root' \in [step : RootSteps, broken : BOOLEAN]
              /\ UNCHANGED <<auth, accepted, retried, crashes>>
  BY <1>1, <1>2, <1>12 DEF BindRoot, RootSteps
<1>13. ASSUME NEW r \in Relays, AuthorizationCommits(r) \/ IssueAuthorization(r)
       PROVE  /\ auth' \in [state : {"none", "prepared", "sent", "issued"}, broken : BOOLEAN]
              /\ UNCHANGED <<root, accepted, retried, crashes>>
  BY <1>1, <1>5, <1>13 DEF AuthorizationCommits, IssueAuthorization
<1>14. ASSUME NEW r \in Relays, ActivateRoot(r)
       PROVE  /\ accepted' \subseteq {<<"root", 0>>} \cup (Roles \X (Nat \ {0}))
              /\ UNCHANGED <<root, auth, retried, crashes>>
  BY <1>1, <1>14 DEF ActivateRoot
<1>15. ASSUME NEW r \in Relays, AdvanceBarrier(r)
       PROVE  /\ accepted' \subseteq {<<"root", 0>>} \cup (Roles \X (Nat \ {0}))
              /\ UNCHANGED <<root, auth, retried, crashes>>
  <2>1. UNCHANGED <<root, auth, retried, crashes>>  BY <1>15 DEF AdvanceBarrier
  <2>2. accepted' = accepted \/ \E role \in Roles, j \in DOMAIN jobs :
                                   accepted' = accepted \cup {<<role, j>>}
    BY <1>15 DEF AdvanceBarrier, Current, Roles
  <2> QED  BY <1>1, <2>1, <2>2, JobsAre
<1>16. ASSUME NEW r \in Relays, EffectFails(r) \/ ReceiptLost(r)
       PROVE  /\ root' \in [step : RootSteps, broken : BOOLEAN]
              /\ auth' \in [state : {"none", "prepared", "sent", "issued"}, broken : BOOLEAN]
              /\ UNCHANGED <<accepted, retried, crashes>>
  <2>1. CASE EffectFails(r)
    <3>1. root.broken \in BOOLEAN /\ auth.broken \in BOOLEAN  BY <1>1
    <3> QED  BY <1>3, <1>4, <2>1, <3>1 DEF EffectFails
  <2>2. CASE ReceiptLost(r)
    <3>1. [step |-> "send", broken |-> TRUE] \in [step : RootSteps, broken : BOOLEAN]
      BY DEF RootSteps
    <3>2. [state |-> "prepared", broken |-> TRUE]
            \in [state : {"none", "prepared", "sent", "issued"}, broken : BOOLEAN]
      OBVIOUS
    <3> QED  BY <1>1, <2>2, <3>1, <3>2 DEF ReceiptLost
  <2> QED  BY <1>16, <2>1, <2>2
<1>17. ASSUME NEW c \in caps, NEW role \in Roles, Delegate(c, role)
       PROVE  /\ auth' \in [state : {"none", "prepared", "sent", "issued"}, broken : BOOLEAN]
              /\ UNCHANGED <<root, accepted, retried, crashes>>
  BY <1>17 DEF Delegate
<1>18. ASSUME NEW k \in RetryKeys, Recover(k)
       PROVE  /\ root' \in [step : RootSteps, broken : BOOLEAN]
              /\ auth' \in [state : {"none", "prepared", "sent", "issued"}, broken : BOOLEAN]
              /\ retried' \in [RetryKeys -> Nat]
              /\ UNCHANGED <<accepted, crashes>>
  <2>1. run.blocks \in Nat  BY DEF Shape, RunRecord
  <2> QED  BY <1>1, <1>3, <1>4, <1>18, <2>1 DEF Recover
<1> QED
  BY <1>1, <1>6, <1>7, <1>8, <1>9, <1>10, <1>11, <1>12, <1>13, <1>14, <1>15, <1>16, <1>17, <1>18
     DEF Next, Advance

LEMMA ShapeStep == ASSUME Base, [Next]_vars PROVE Shape'
<1>1. Len(jobs') >= 1 /\ jobs' \in Seq(Job)
  BY StepMovesJobs, JobsAre DEF JobStep, Base
<1> QED  BY <1>1, RunShape, NotesShape, CapsShape, RestShape DEF Shape

-----------------------------------------------------------------------------
(* Which step makes the moves that matter to others. *)

\* A stage that a relay performs ends, a Baton is decided, a failed job is
\* queued again, a job is cancelled.
Performs(a, b) ==
    \/ a.state \in {"opening", "configuring", "sending"} /\ b.state \notin {a.state, "cancelled"}
    \/ a.state = "returning" /\ a.baton = "prepared" /\ b.baton # "prepared"
Decides(a, b) == a.baton = "none" /\ b.baton # "none"
Reopens(a, b) == a.state = "failed" /\ b.state # "failed"
Cancels(a, b) == a.state # "cancelled" /\ b.state = "cancelled"

Calm(a, b) == ~Performs(a, b) /\ ~Decides(a, b) /\ ~Reopens(a, b) /\ ~Cancels(a, b)

AllCalm == \A j \in DOMAIN jobs : Calm(jobs[j], jobs'[j])

LEMMA SameIsCalm == \A a : Calm(a, a)
BY DEF Calm, Performs, Decides, Reopens, Cancels

LEMMA OneCalm ==
    ASSUME Shape, NEW j \in DOMAIN jobs, NEW b, Calm(jobs[j], b), jobs' = [jobs EXCEPT ![j] = b]
    PROVE  AllCalm
<1>1. \A i \in DOMAIN jobs : jobs'[i] = IF i = j THEN b ELSE jobs[i]  BY JobsAre DEF Shape
<1> QED  BY <1>1, SameIsCalm DEF AllCalm

LEMMA CalmSteps ==
    ASSUME Base, NEW r \in Relays,
           \/ ActivateRoot(r) \/ RequeueClaim(r) \/ ClaimNextJob(r) \/ BeginJobAttempt(r)
           \/ TakeSuccess(r) \/ BatonDelivered(r) \/ EffectFails(r) \/ ReceiptLost(r)
           \/ TakeFailure(r) \/ LateResult(r) \/ Crash(r)
    PROVE  AllCalm
<1> USE JobsAre DEF Base, Calm, Performs, Decides, Reopens, Cancels
<1> DEFINE job == jobs[loc[r].job]
<1>1. CASE UNCHANGED jobs  BY <1>1, SameIsCalm DEF AllCalm
<1>2. CASE ActivateRoot(r)
  <2>1. CASE run.phase = "pending_root"
    <3>1. jobs[1].state = "dormant"  BY <2>1 DEF RootFirst, EffectivePhase, RootPhases
    <3>2. jobs' = [jobs EXCEPT ![1] = [jobs[1] EXCEPT !.state = "queued"]] /\ 1 \in DOMAIN jobs
      BY <1>2, <2>1 DEF ActivateRoot
    <3>3. Calm(jobs[1], [jobs[1] EXCEPT !.state = "queued"])  BY <3>1, <3>2 DEF Job
    <3> QED  BY <3>2, <3>3, OneCalm
  <2> QED  BY <1>1, <1>2, <2>1 DEF ActivateRoot
<1>3. CASE RequeueClaim(r) \/ ClaimNextJob(r) \/ BeginJobAttempt(r)
  <2>1. PICK j \in DOMAIN jobs :
          /\ jobs[j].state \in {"queued", "owned"}
          /\ \/ jobs' = [jobs EXCEPT ![j].state = "queued", ![j].owner = "none"]
             \/ jobs' = [jobs EXCEPT ![j].state = "owned", ![j].owner = r]
             \/ jobs' = [jobs EXCEPT ![j].state = "opening", ![j].attempt = @ + 1, ![j].owner = "none"]
    BY <1>3 DEF RequeueClaim, ClaimNextJob, BeginJobAttempt, Waiting, Current
  <2>2. \A i \in DOMAIN jobs : i # j => jobs'[i] = jobs[i]  BY <2>1 DEF Shape
  <2>3. jobs'[j].state \in {"queued", "owned", "opening"} /\ jobs'[j].baton = jobs[j].baton
    BY <2>1 DEF Job
  <2> QED  BY <2>1, <2>2, <2>3, SameIsCalm DEF AllCalm
<1>4. CASE TakeSuccess(r) \/ TakeFailure(r)
  <2>1. loc[r].job \in DOMAIN jobs /\ job.state = "running"
    BY <1>4 DEF TakeSuccess, TakeFailure, StillRunning, NotesFit
  <2>3. CASE TakeSuccess(r)
    <3>1. jobs' = [jobs EXCEPT ![loc[r].job] = [job EXCEPT !.state = "returning", !.result = loc[r].attempt]]
      BY <2>1, <2>3 DEF TakeSuccess, Job
    <3>2. Calm(job, [job EXCEPT !.state = "returning", !.result = loc[r].attempt])
      BY <2>1 DEF Job
    <3> QED  BY <2>1, <3>1, <3>2, OneCalm
  <2>4. CASE TakeFailure(r)
    <3>1. jobs' = [jobs EXCEPT ![loc[r].job] = [job EXCEPT !.state = "failed", !.failed = loc[r].attempt]]
      BY <2>1, <2>4 DEF TakeFailure, Job
    <3>2. Calm(job, [job EXCEPT !.state = "failed", !.failed = loc[r].attempt])
      BY <2>1 DEF Job
    <3> QED  BY <2>1, <3>1, <3>2, OneCalm
  <2> QED  BY <1>4, <2>3, <2>4
<1>5. CASE BatonDelivered(r) \/ ReceiptLost(r)
  <2>1. CASE ~UNCHANGED jobs
    <3>1. PICK j \in DOMAIN jobs :
            /\ jobs[j].state = "returning" /\ jobs[j].baton = "outbox"
            /\ \/ jobs' = [jobs EXCEPT ![j].state = "returned", ![j].baton = "message"]
               \/ jobs' = [jobs EXCEPT ![j].baton = "prepared", ![j].broken = TRUE]
      BY <1>5, <2>1 DEF BatonDelivered, ReceiptLost
    <3>2. \A i \in DOMAIN jobs : i # j => jobs'[i] = jobs[i]  BY <3>1 DEF Shape
    <3>3. jobs'[j].state \in {"returning", "returned"}  BY <3>1 DEF Job
    <3> QED  BY <3>1, <3>2, <3>3, SameIsCalm DEF AllCalm
  <2> QED  BY <1>1, <2>1
<1>6. CASE EffectFails(r)
  <2>1. CASE loc[r].phase = "job" /\ jobs[loc[r].job].state \in DOMAIN Performed
    <3>1. loc[r].job \in DOMAIN jobs  BY <1>6, <2>1 DEF EffectFails, NotesFit
    <3>2. jobs' = [jobs EXCEPT ![loc[r].job] = [job EXCEPT !.broken = TRUE]]
      BY <1>6, <2>1, <3>1 DEF EffectFails, Job
    <3>3. Calm(job, [job EXCEPT !.broken = TRUE])  BY <3>1 DEF Job
    <3> QED  BY <3>1, <3>2, <3>3, OneCalm
  <2> QED  BY <1>1, <1>6, <2>1 DEF EffectFails
<1>7. CASE LateResult(r)
  <2>1. PICK j \in DOMAIN jobs :
          /\ jobs[j].state = "cancelled"
          /\ jobs' = [jobs EXCEPT ![j].result = IF loc[r].at = "outcome" THEN loc[r].attempt
                                                ELSE jobs[j].attempt]
    BY <1>7 DEF LateResult
  <2>2. \A i \in DOMAIN jobs : i # j => jobs'[i] = jobs[i]  BY <2>1 DEF Shape
  <2>3. jobs'[j].state = "cancelled" /\ jobs'[j].baton = jobs[j].baton  BY <2>1 DEF Job
  <2> QED  BY <2>1, <2>2, <2>3, SameIsCalm DEF AllCalm
<1>8. CASE Crash(r)
  <2>1. \A j \in DOMAIN jobs :
          jobs'[j] = IF jobs[j].owner = r THEN [jobs[j] EXCEPT !.owner = "dead"] ELSE jobs[j]
    BY <1>8 DEF Crash
  <2>2. \A j \in DOMAIN jobs : jobs'[j].state = jobs[j].state /\ jobs'[j].baton = jobs[j].baton
    BY <2>1 DEF Job
  <2> QED  BY <2>2 DEF AllCalm
<1> QED  BY <1>2, <1>3, <1>4, <1>5, <1>6, <1>7, <1>8

\* Every other step leaves the jobs alone, or is one of these.
LEMMA WhoMoves ==
    ASSUME Base, [Next]_vars, ~AllCalm
    PROVE  \/ \E r \in Relays : JobCommits(r) \/ PrepareBaton(r)
           \/ \E c \in caps, role \in Roles : Delegate(c, role)
           \/ \E k \in RetryKeys : Recover(k)
           \/ Cancel
<1>1. UNCHANGED jobs => AllCalm  BY SameIsCalm DEF AllCalm
<1>2. ASSUME NEW r \in Relays,
             \/ TakeUp(r) \/ Wake(r) \/ Sleep(r) \/ Incompatible(r)
             \/ RootCommits(r) \/ AuthorizationCommits(r) \/ WorkspaceCreated(r) \/ BindRoot(r)
             \/ IssueAuthorization(r) \/ AdvanceBarrier(r)
      PROVE  UNCHANGED jobs
  BY <1>2 DEF TakeUp, Wake, Sleep, ClaimRoot, ClaimAuthorization, ClaimJobEffect, Claim, ReadOutcome,
              DecideBaton, Incompatible, RootCommits, AuthorizationCommits, WorkspaceCreated,
              BindRoot, IssueAuthorization, AdvanceBarrier
<1>3. Complete \/ UNCHANGED vars => UNCHANGED jobs  BY DEF Complete, vars
<1> QED  BY <1>1, <1>2, <1>3, CalmSteps DEF Next, Advance
\* And these do no more than that.
LEMMA Movers ==
    ASSUME Base, [Next]_vars, NEW j \in DOMAIN jobs
    PROVE  /\ Performs(jobs[j], jobs'[j]) => \E r \in Relays : JobCommits(r) /\ loc[r].job = j
           /\ Decides(jobs[j], jobs'[j]) => \E r \in Relays : PrepareBaton(r) /\ loc[r].job = j
           /\ Reopens(jobs[j], jobs'[j]) => \E k \in RetryKeys : Recover(k)
           /\ Cancels(jobs[j], jobs'[j]) => Cancel
<1> DEFINE Mover ==
             /\ Performs(jobs[j], jobs'[j]) => \E r \in Relays : JobCommits(r) /\ loc[r].job = j
             /\ Decides(jobs[j], jobs'[j]) => \E r \in Relays : PrepareBaton(r) /\ loc[r].job = j
             /\ Reopens(jobs[j], jobs'[j]) => \E k \in RetryKeys : Recover(k)
             /\ Cancels(jobs[j], jobs'[j]) => Cancel
<1> USE JobsAre DEF Base
<1>1. jobs'[j] = jobs[j] => Mover  BY SameIsCalm DEF Calm
<1>2. CASE AllCalm  BY <1>2 DEF AllCalm, Calm
<1>3. ASSUME NEW r \in Relays, JobCommits(r) PROVE Mover
  <2> DEFINE job == jobs[loc[r].job]
  <2>1. loc[r].job \in DOMAIN jobs  BY <1>3 DEF JobCommits, NotesFit
  <2>2. CASE loc[r].job = j /\ job.state \in DOMAIN Performed
    <3>1. jobs'[j] = [job EXCEPT !.state = Performed[job.state],
                                 !.baton = IF job.state = "returning" THEN "outbox" ELSE @]
      BY <1>3, <2>1, <2>2 DEF JobCommits, Job
    <3>2. job \in Job  BY <2>1
    <3>3. /\ jobs'[j].state = Performed[job.state]
          /\ job.state # "returning" => jobs'[j].baton = job.baton
      BY <3>1, <3>2 DEF Job
    <3>4. job.state = "returning" => job.baton = "prepared"
      BY <1>3, <2>1 DEF JobCommits, EffectsFit
    <3> QED
      BY <1>3, <2>2, <3>3, <3>4, PerformedStages DEF Performs, Decides, Reopens, Cancels
  <2>3. CASE ~(loc[r].job = j /\ job.state \in DOMAIN Performed)
    <3>1. jobs'[j] = jobs[j]  BY <1>3, <2>1, <2>3 DEF JobCommits, Shape
    <3> QED  BY <1>1, <3>1
  <2> QED  BY <2>2, <2>3
<1>4. ASSUME NEW r \in Relays, PrepareBaton(r) PROVE Mover
  <2>1. loc[r].job \in DOMAIN jobs /\ jobs[loc[r].job].baton = "none"
    BY <1>4 DEF PrepareBaton, NotesFit
  <2>2. CASE loc[r].job = j
    <3>1. jobs'[j] = [jobs[j] EXCEPT !.baton = "prepared", !.grant = loc[r].grant]
      BY <1>4, <2>1, <2>2 DEF PrepareBaton, Job
    <3>2. jobs'[j].state = jobs[j].state  BY <3>1 DEF Job
    <3> QED  BY <1>4, <2>1, <2>2, <3>2 DEF Performs, Decides, Reopens, Cancels
  <2>3. CASE loc[r].job # j
    <3>1. jobs'[j] = jobs[j]  BY <1>4, <2>1, <2>3 DEF PrepareBaton, Shape
    <3> QED  BY <1>1, <3>1
  <2> QED  BY <2>2, <2>3
<1>5. ASSUME NEW c \in caps, NEW role \in Roles, Delegate(c, role) PROVE Mover
  <2>1. jobs'[j] = jobs[j]  BY <1>5 DEF Delegate, Shape
  <2> QED  BY <1>1, <2>1
<1>6. ASSUME NEW k \in RetryKeys, Recover(k) PROVE Mover
  <2> DEFINE thing == run.why.blocked
  <2>1. CASE thing.kind = "failed" /\ thing.job = j
    <3>1. jobs'[j] = [jobs[j] EXCEPT !.state = "queued"] /\ jobs[j].state = "failed"
      BY <1>6, <2>1 DEF Recover, BlockFits
    <3>2. jobs'[j].state = "queued" /\ jobs'[j].baton = jobs[j].baton  BY <3>1 DEF Job
    <3> QED  BY <1>6, <3>1, <3>2 DEF Performs, Decides, Reopens, Cancels
  <2>2. CASE thing.kind = "job" /\ thing.job = j
    <3>1. jobs'[j] = [jobs[j] EXCEPT !.broken = FALSE]  BY <1>6, <2>2 DEF Recover
    <3>2. jobs'[j].state = jobs[j].state /\ jobs'[j].baton = jobs[j].baton  BY <3>1 DEF Job
    <3> QED  BY <3>2 DEF Performs, Decides, Reopens, Cancels
  <2>3. CASE ~(thing.kind \in {"failed", "job"} /\ thing.job = j)
    <3>1. jobs'[j] = jobs[j]  BY <1>6, <2>3 DEF Recover, BlockFits
    <3> QED  BY <1>1, <3>1
  <2> QED  BY <2>1, <2>2, <2>3
<1>7. CASE Cancel
  <2>1. jobs'[j] = IF jobs[j].state \in JobEnds THEN jobs[j]
                   ELSE [jobs[j] EXCEPT !.state = "cancelled"]
    BY <1>7 DEF Cancel
  <2>2. CASE jobs[j].state \in JobEnds  BY <1>1, <2>1, <2>2
  <2>3. CASE jobs[j].state \notin JobEnds
    <3>1. jobs'[j].state = "cancelled" /\ jobs'[j].baton = jobs[j].baton  BY <2>1, <2>3 DEF Job
    <3> QED  BY <1>7, <2>3, <3>1 DEF Performs, Decides, Reopens, Cancels, JobEnds
  <2> QED  BY <2>2, <2>3
<1> QED  BY <1>2, <1>3, <1>4, <1>5, <1>6, <1>7, WhoMoves

-----------------------------------------------------------------------------
(* What one transaction does to the run, and to what a relay holds. *)

Fails(j) ==
    /\ jobs[j].state = "running" /\ jobs'[j].state = "failed"
    /\ jobs'[j].failed = jobs[j].attempt

Blocks ==
    /\ run.phase \in Runnable /\ run.blocks < MaxBlocks
    /\ \E thing \in Thing, class \in {"deterministic", "ambiguous", "terminal"} :
          /\ run' = [run EXCEPT !.phase = "blocked", !.blocks = @ + 1,
                           !.why = [blocked |-> thing, class |-> class, resume |-> run.phase]]
          /\ thing.kind \in {"failed", "job"} => thing.job \in DOMAIN jobs'
          /\ thing.kind = "failed" => Fails(thing.job)

\* The steps that move the run or its capabilities on.
Moves ==
    \/ \E r \in Relays : \/ WorkspaceCreated(r) \/ BindRoot(r) \/ ActivateRoot(r)
                         \/ IssueAuthorization(r) \/ AdvanceBarrier(r)
    \/ \E c \in caps, role \in Roles : Delegate(c, role)
    \/ \E k \in RetryKeys : Recover(k)
    \/ Complete \/ Cancel

LEMMA BlockBlocks ==
    ASSUME Shape, NEW thing \in Thing, run.blocks < MaxBlocks,
           NEW class \in {"deterministic", "ambiguous", "terminal"},
           run' = Block(thing, class),
           thing.kind \in {"failed", "job"} => thing.job \in DOMAIN jobs',
           thing.kind = "failed" => Fails(thing.job)
    PROVE  Blocks \/ UNCHANGED run
BY DEF Blocks, Block

LEMMA RunMoves ==
    ASSUME Base, [Next]_vars
    PROVE  \/ UNCHANGED <<run, caps>>
           \/ Blocks /\ UNCHANGED caps
           \/ Moves
<1> USE JobsAre DEF Base
<1>1. Shape' /\ DOMAIN jobs \subseteq DOMAIN jobs'
  <2>1. jobs' \in Seq(Job) /\ Len(jobs') >= Len(jobs)  BY StepMovesJobs DEF JobStep
  <2> QED  BY <2>1, ShapeStep
<1>2. ASSUME NEW r \in Relays,
             \/ TakeUp(r) \/ Wake(r) \/ Sleep(r) \/ LateResult(r) \/ Crash(r)
             \/ RootCommits(r) \/ AuthorizationCommits(r) \/ JobCommits(r) \/ RequeueClaim(r)
             \/ ClaimNextJob(r) \/ BeginJobAttempt(r) \/ TakeSuccess(r) \/ PrepareBaton(r)
             \/ BatonDelivered(r)
      PROVE  UNCHANGED <<run, caps>>
  BY <1>2 DEF TakeUp, Wake, Sleep, LateResult, Crash, ClaimRoot, ClaimAuthorization, ClaimJobEffect,
              Claim, ReadOutcome, DecideBaton, RootCommits, AuthorizationCommits, JobCommits,
              RequeueClaim, ClaimNextJob, BeginJobAttempt, TakeSuccess, PrepareBaton, BatonDelivered
<1>3. ASSUME NEW r \in Relays, Incompatible(r) PROVE (Blocks \/ UNCHANGED run) /\ UNCHANGED caps
  <2> DEFINE thing == [kind |-> "compatibility", job |-> 0]
  <2>1. thing \in Thing /\ thing.kind \notin {"failed", "job"}  BY DEF Thing, BlockKinds
  <2>2. run.blocks < MaxBlocks /\ run' = Block(thing, "deterministic") /\ UNCHANGED caps
    BY <1>3 DEF Incompatible
  <2> HIDE DEF thing
  <2> QED  BY <2>1, <2>2, BlockBlocks
<1>4. ASSUME NEW r \in Relays, EffectFails(r) PROVE (Blocks \/ UNCHANGED run) /\ UNCHANGED caps
  <2> DEFINE thing == [kind |-> loc[r].phase, job |-> loc[r].job]
  <2>1. /\ thing \in Thing /\ thing.kind # "failed"
        /\ thing.kind = "job" => thing.job \in DOMAIN jobs
    BY <1>4 DEF EffectFails, NotesFit, Thing, BlockKinds, Shape, Note, EffectKinds
  <2>2. PICK class \in {"deterministic", "ambiguous"} :
          run.blocks < MaxBlocks /\ run' = Block(thing, class) /\ UNCHANGED caps
    BY <1>4 DEF EffectFails
  <2> HIDE DEF thing
  <2> QED  BY <1>1, <2>1, <2>2, BlockBlocks
<1>5. ASSUME NEW r \in Relays, ReceiptLost(r) PROVE (Blocks \/ UNCHANGED run) /\ UNCHANGED caps
  <2>1. PICK thing \in Thing :
          /\ run' = Block(thing, "ambiguous")
          /\ thing.kind # "failed" /\ (thing.kind = "job" => thing.job \in DOMAIN jobs)
    <3>1. \A kind \in EffectKinds, j \in Nat : [kind |-> kind, job |-> j] \in Thing
      BY DEF Thing, BlockKinds
    <3>2. CASE run' = Block([kind |-> "root", job |-> 0], "ambiguous")
      <4>1. [kind |-> "root", job |-> 0] \in Thing  BY <3>1 DEF EffectKinds
      <4> QED  BY <3>2, <4>1
    <3>3. CASE run' = Block([kind |-> "auth", job |-> Len(jobs)], "ambiguous")
      <4>1. [kind |-> "auth", job |-> Len(jobs)] \in Thing  BY <3>1 DEF EffectKinds
      <4> QED  BY <3>3, <4>1
    <3>4. ASSUME NEW j \in DOMAIN jobs, run' = Block([kind |-> "job", job |-> j], "ambiguous")
          PROVE  \E thing \in Thing :
                    /\ run' = Block(thing, "ambiguous")
                    /\ thing.kind # "failed" /\ (thing.kind = "job" => thing.job \in DOMAIN jobs)
      <4>1. [kind |-> "job", job |-> j] \in Thing  BY <3>1 DEF EffectKinds
      <4> QED  BY <3>4, <4>1
    <3> QED  BY <1>5, <3>2, <3>3, <3>4 DEF ReceiptLost
  <2>2. run.blocks < MaxBlocks /\ UNCHANGED caps  BY <1>5 DEF ReceiptLost
  <2> QED  BY <1>1, <2>1, <2>2, BlockBlocks
<1>6. ASSUME NEW r \in Relays, TakeFailure(r) PROVE (Blocks \/ UNCHANGED run) /\ UNCHANGED caps
  <2> DEFINE thing == [kind |-> "failed", job |-> loc[r].job]
  <2>1. thing \in Thing  BY DEF Thing, BlockKinds, Shape, Note
  <2>2. loc[r].job \in DOMAIN jobs /\ loc[r].attempt = jobs[loc[r].job].attempt
    BY <1>6 DEF TakeFailure, StillRunning, NotesFit
  <2>3. jobs'[loc[r].job] = [jobs[loc[r].job] EXCEPT !.state = "failed", !.failed = loc[r].attempt]
    BY <1>6, <2>2 DEF TakeFailure, Job
  <2>4. Fails(loc[r].job)
    <3>1. jobs[loc[r].job].state = "running"  BY <1>6 DEF TakeFailure, StillRunning
    <3> QED  BY <2>2, <2>3, <3>1 DEF Job, Fails
  <2>5. run.blocks < MaxBlocks /\ run' = Block(thing, "deterministic") /\ UNCHANGED caps
    BY <1>6 DEF TakeFailure
  <2>6. thing.job \in DOMAIN jobs' /\ thing.job = loc[r].job  BY <1>1, <2>2
  <2> HIDE DEF thing
  <2> QED  BY <2>1, <2>4, <2>5, <2>6, BlockBlocks
<1>7. UNCHANGED vars => UNCHANGED <<run, caps>>  BY DEF vars
<1> QED
  BY <1>2, <1>3, <1>4, <1>5, <1>6, <1>7 DEF Next, Advance, Moves

\* The phase a run is in or is to resume, and its coordinates, change with
\* these steps only.
LEMMA CourseKept ==
    ASSUME Base, [Next]_vars
    PROVE  \/ /\ EffectivePhase' = EffectivePhase
              /\ run'.cycle = run.cycle /\ run'.revision = run.revision /\ caps' = caps
              /\ (run.phase \in Terminal) = (run'.phase \in Terminal)
              /\ run.phase = "cancelled" => run'.phase = "cancelled"
           \/ /\ Moves /\ ~\E k \in RetryKeys : Recover(k)
<1> USE DEF Base
<1>1. CASE UNCHANGED <<run, caps>>  BY <1>1 DEF EffectivePhase
<1>2. CASE Blocks /\ UNCHANGED caps
  <2>1. /\ run.phase \in Runnable /\ run'.phase = "blocked" /\ run'.why.resume = run.phase
        /\ run'.cycle = run.cycle /\ run'.revision = run.revision
    BY <1>2 DEF Blocks, Shape, RunRecord
  <2> QED  BY <1>2, <2>1 DEF EffectivePhase, Runnable, Terminal, Working
<1>3. ASSUME NEW k \in RetryKeys, Recover(k)
      PROVE  /\ EffectivePhase' = EffectivePhase
             /\ run'.cycle = run.cycle /\ run'.revision = run.revision /\ caps' = caps
             /\ run.phase \notin Terminal /\ run'.phase \notin Terminal
  <2>1. run.phase = "blocked" /\ run' = [run EXCEPT !.phase = run.why.resume, !.why = Free] /\ caps' = caps
    BY <1>3 DEF Recover, Unblock
  <2>2. run'.phase = run.why.resume /\ run'.cycle = run.cycle /\ run'.revision = run.revision
    BY <2>1 DEF Shape, RunRecord
  <2>3. run.why.resume \in Runnable  BY <2>1 DEF BlockFits
  <2> QED  BY <2>1, <2>2, <2>3 DEF EffectivePhase, Runnable, Terminal, Working
<1> QED  BY <1>1, <1>2, <1>3, RunMoves DEF Terminal

\* What a relay holds when it has taken something up, and what it relies on.
TakesUp(r, note) ==
    \/ /\ note.at = "effect" /\ note.phase = "root" /\ note.job = 0
       /\ ~InFlight("root", 0)
    \/ /\ note.at = "effect" /\ note.phase = "auth" /\ note.job = Len(jobs)
       /\ ~InFlight("auth", Len(jobs)) /\ auth.state = "prepared"
    \/ \E j \in DOMAIN jobs :
       /\ note.at = "effect" /\ note.phase = "job" /\ note.job = j
       /\ ~InFlight("job", j) /\ jobs[j].state \in DOMAIN Performed
       /\ jobs[j].state = "returning" => jobs[j].baton = "prepared"
    \/ \E j \in DOMAIN jobs :
       note.at = "outcome" /\ note.job = j /\ note.attempt = jobs[j].attempt
    \/ \E j \in DOMAIN jobs :
       /\ note.at = "baton" /\ note.job = j /\ jobs[j].state = "returning"
       /\ Woken(r, {"exploring", "implementing"})
       /\ note.grant = IF DesignatedFinal(j) THEN loc[r].revision + 1 ELSE -1

LEMMA NoteTaken ==
    ASSUME Base, NEW r \in Relays, TakeUp(r)
    PROVE  /\ TakesUp(r, loc'[r]) /\ \A s \in Relays \ {r} : loc'[s] = loc[s]
           /\ loc'[r].grant # -1 => loc'[r].at = "baton"
           /\ loc'[r].attempt # 0 => loc'[r].at = "outcome"
           /\ UNCHANGED <<run, jobs, caps, root, auth, accepted, retried, crashes>>
<1> USE JobsAre DEF Base
<1>1. UNCHANGED <<run, jobs, caps, root, auth, accepted, retried, crashes>>
  BY DEF TakeUp, ClaimRoot, ClaimAuthorization, ClaimJobEffect, Claim, ReadOutcome, DecideBaton
<1>2. ASSUME NEW kind, NEW j, Claim(r, kind, j)
      PROVE  /\ loc'[r].at = "effect" /\ loc'[r].phase = kind /\ loc'[r].job = j
             /\ loc'[r].grant = -1 /\ loc'[r].attempt = 0
             /\ ~InFlight(kind, j) /\ \A s \in Relays \ {r} : loc'[s] = loc[s]
  BY <1>2 DEF Claim, Idle, Shape
<1>3. CASE ClaimRoot(r)  BY <1>1, <1>2, <1>3 DEF ClaimRoot, TakesUp
<1>4. CASE ClaimAuthorization(r)  BY <1>1, <1>2, <1>4 DEF ClaimAuthorization, TakesUp
<1>5. CASE ClaimJobEffect(r)  BY <1>1, <1>2, <1>5 DEF ClaimJobEffect, TakesUp
<1>6. CASE ReadOutcome(r)
  <2>1. PICK j \in DOMAIN jobs :
          loc' = [loc EXCEPT ![r] = [Idle EXCEPT !.at = "outcome", !.job = j,
                                                 !.attempt = jobs[j].attempt]]
    BY <1>6 DEF ReadOutcome
  <2>2. /\ loc'[r].at = "outcome" /\ loc'[r].job = j /\ loc'[r].attempt = jobs[j].attempt
        /\ loc'[r].grant = -1
    BY <2>1 DEF Shape, Idle
  <2>3. \A s \in Relays \ {r} : loc'[s] = loc[s]  BY <2>1 DEF Shape
  <2> QED  BY <1>1, <2>2, <2>3 DEF TakesUp
<1>7. CASE DecideBaton(r)
  <2>1. PICK j \in DOMAIN jobs :
          /\ Drives(r, j) /\ jobs[j].state = "returning"
          /\ loc' = [loc EXCEPT ![r] = [Idle EXCEPT !.at = "baton", !.job = j,
                       !.grant = IF DesignatedFinal(j) THEN loc[r].revision + 1 ELSE -1]]
    BY <1>7 DEF DecideBaton
  <2>2. /\ loc'[r].at = "baton" /\ loc'[r].job = j /\ loc'[r].attempt = 0
        /\ loc'[r].grant = IF DesignatedFinal(j) THEN loc[r].revision + 1 ELSE -1
    BY <2>1 DEF Shape, Idle
  <2>3. \A s \in Relays \ {r} : loc'[s] = loc[s]  BY <2>1 DEF Shape
  <2> QED  BY <1>1, <2>1, <2>2, <2>3 DEF TakesUp, Drives
<1> QED  BY <1>3, <1>4, <1>5, <1>6, <1>7 DEF TakeUp

LEMMA NotesMove ==
    ASSUME Base, [Next]_vars, NEW s \in Relays
    PROVE  \/ loc'[s] = loc[s] \/ loc'[s] = Idle
           \/ loc'[s] = Snapshot(run) /\ run.phase \in Runnable /\ UNCHANGED run
           \/ TakeUp(s)
<1> USE JobsAre DEF Base
<1> DEFINE Goal == \/ loc'[s] = loc[s] \/ loc'[s] = Idle
                   \/ loc'[s] = Snapshot(run) /\ run.phase \in Runnable /\ UNCHANGED run
<1>1. ASSUME NEW r \in Relays, Rest(r) PROVE Goal
  BY <1>1 DEF Rest, Shape
<1>2. ASSUME NEW r \in Relays, Wake(r) PROVE Goal
  BY <1>2 DEF Wake, Shape
<1>3. ASSUME NEW r \in Relays, BatonDelivered(r) PROVE Goal
  <2>1. loc' = [loc EXCEPT ![r] = IF run.phase \in Working THEN Snapshot(run) ELSE Idle] /\ UNCHANGED run
    BY <1>3 DEF BatonDelivered
  <2> QED  BY <2>1 DEF Shape, Runnable
<1>4. ASSUME NEW r \in Relays, Advance(r) \/ MishapOf(r) \/ Incompatible(r) \/ Sleep(r),
             ~BatonDelivered(r)
      PROVE  Rest(r)
  <2>1. CASE Advance(r)
    BY <1>4, <2>1
       DEF Advance, RootCommits, AuthorizationCommits, JobCommits, IssueAuthorization, RequeueClaim,
           ClaimNextJob, BeginJobAttempt, TakeSuccess, PrepareBaton, WorkspaceCreated, BindRoot,
           ActivateRoot, AdvanceBarrier
  <2>2. CASE MishapOf(r)
    BY <2>2 DEF MishapOf, EffectFails, ReceiptLost, TakeFailure, LateResult, Crash
  <2>3. CASE Incompatible(r) \/ Sleep(r)  BY <2>3 DEF Incompatible, Sleep
  <2> QED  BY <1>4, <2>1, <2>2, <2>3
<1>5. ASSUME NEW r \in Relays, TakeUp(r) PROVE loc'[s] = loc[s] \/ TakeUp(s)
  BY <1>5, NoteTaken
<1>6. Request \/ UNCHANGED vars => UNCHANGED loc
  BY DEF Request, Delegate, Recover, Complete, Cancel, vars
<1> QED  BY <1>1, <1>2, <1>3, <1>4, <1>5, <1>6 DEF Next, MishapOf, Request

LEMMA SnapshotIs ==
    ASSUME Shape
    PROVE  /\ Snapshot(run).at = "woken" /\ Snapshot(run).phase = run.phase
           /\ Snapshot(run).cycle = run.cycle /\ Snapshot(run).revision = run.revision
           /\ Snapshot(run).attempt = 0 /\ Snapshot(run).grant = -1
BY DEF Snapshot, Idle

LEMMA MoreJobs ==
    ASSUME Base, [Next]_vars
    PROVE  /\ DOMAIN jobs \subseteq DOMAIN jobs' /\ Len(jobs') \in Nat /\ Len(jobs) <= Len(jobs')
           /\ Len(jobs) \in Nat /\ DOMAIN jobs = 1..Len(jobs) /\ DOMAIN jobs' = 1..Len(jobs')
           /\ \A j \in DOMAIN jobs' : jobs'[j] \in Job
           /\ \A j \in DOMAIN jobs : jobs[j] \in Job /\ Moved(jobs[j], jobs'[j])
           /\ \A j \in DOMAIN jobs' \ DOMAIN jobs : Ordered(jobs'[j])
<1>1. JobStep /\ jobs' \in Seq(Job)  BY StepMovesJobs DEF JobStep
<1> QED  BY <1>1, JobsAre DEF JobStep, Base

-----------------------------------------------------------------------------
(* The parts of Base are kept. *)

LEMMA KeepsNotesFit == ASSUME Base, [Next]_vars PROVE NotesFit'
<1> SUFFICES ASSUME NEW r \in Relays
             PROVE  /\ loc'[r].at = "woken" => loc'[r].phase \in Runnable
                    /\ loc'[r].at = "effect" => loc'[r].phase \in EffectKinds
                    /\ (loc'[r].at = "effect" /\ loc'[r].phase = "job") \/ loc'[r].at \in {"outcome", "baton"}
                          => loc'[r].job \in DOMAIN jobs'
  BY DEF NotesFit
<1> USE MoreJobs DEF Base
<1>1. CASE loc'[r] = loc[r]  BY <1>1 DEF NotesFit
<1>2. CASE loc'[r] = Idle  BY <1>2 DEF Idle
<1>3. CASE loc'[r] = Snapshot(run) /\ run.phase \in Runnable
  BY <1>3, SnapshotIs
<1>4. CASE TakeUp(r)
  <2>1. TakesUp(r, loc'[r])  BY <1>4, NoteTaken
  <2> QED  BY <2>1 DEF TakesUp, EffectKinds
<1> QED  BY <1>1, <1>2, <1>3, <1>4, NotesMove

LEMMA MovedFits == ASSUME NEW a \in Job, NEW b, Moved(a, b), JobFits(a) PROVE JobFits(b)
<1> USE StageNames DEF Job, JobFits
<1>1. CASE b = a  BY <1>1
<1>2. CASE a.state \in {"dormant", "failed"} /\ b = [a EXCEPT !.state = "queued"]  BY <1>2
<1>3. CASE a.state = "queued" /\ \E r \in Relays : b = [a EXCEPT !.state = "owned", !.owner = r]
  BY <1>3
<1>4. CASE a.state = "owned" /\ b = [a EXCEPT !.state = "queued", !.owner = "none"]
  BY <1>4
<1>5. CASE a.state = "owned" /\ b = [a EXCEPT !.state = "opening", !.attempt = @ + 1, !.owner = "none"]
  <2>1. b.state = "opening" /\ b.attempt = a.attempt + 1 /\ b.failed = a.failed /\ b.baton = a.baton
    BY <1>5
  <2> QED  BY <1>5, <2>1
<1>6. CASE /\ a.state \in {"opening", "configuring", "sending"}
           /\ b = [a EXCEPT !.state = Performed[a.state]]
  <2>1. /\ b.state \in {"configuring", "sending", "running"} /\ b.attempt = a.attempt
        /\ b.failed = a.failed /\ b.baton = a.baton
    BY <1>6, PerformedStages
  <2> QED  BY <1>6, <2>1
<1>7. CASE a.state = "running" /\ b = [a EXCEPT !.state = "returning", !.result = a.attempt]
  BY <1>7
<1>8. CASE a.state = "running" /\ b = [a EXCEPT !.state = "failed", !.failed = a.attempt]
  BY <1>8
<1>9. CASE /\ a.state = "returning" /\ a.baton = "none"
           /\ \E r \in Relays : b = [a EXCEPT !.baton = "prepared", !.grant = loc[r].grant]
  BY <1>9
<1>10. CASE a.state = "returning" /\ a.baton = "prepared" /\ b = [a EXCEPT !.baton = "outbox"]
  BY <1>10
<1>11. CASE /\ a.state = "returning" /\ a.baton = "outbox"
            /\ \/ b = [a EXCEPT !.baton = "prepared", !.broken = TRUE]
               \/ b = [a EXCEPT !.state = "returned", !.baton = "message"]
  BY <1>11
<1>12. CASE a.state \notin JobEnds /\ b = [a EXCEPT !.state = "cancelled"]
  BY <1>12 DEF JobEnds
<1>13. CASE /\ a.state = "cancelled"
            /\ \E r \in Relays : \E n \in {loc[r].attempt, a.attempt} : b = [a EXCEPT !.result = n]
  BY <1>13
<1>14. CASE (\E broken \in BOOLEAN : b = [a EXCEPT !.broken = broken]) \/ b = [a EXCEPT !.owner = "dead"]
  BY <1>14
<1> QED
  BY <1>1, <1>2, <1>3, <1>4, <1>5, <1>6, <1>7, <1>8, <1>9, <1>10, <1>11, <1>12, <1>13, <1>14 DEF Moved

LEMMA KeepsJobsFit == ASSUME Base, [Next]_vars PROVE JobsFit'
<1>1. ASSUME NEW j \in DOMAIN jobs PROVE JobFits(jobs'[j])
  BY MoreJobs, MovedFits DEF JobsFit, Base
<1>2. ASSUME NEW j \in DOMAIN jobs' \ DOMAIN jobs PROVE JobFits(jobs'[j])
  BY MoreJobs DEF Ordered, JobFits
<1> QED  BY <1>1, <1>2 DEF JobsFit

\* The message of the authorization: made with a delegation, it is sent, lost
\* and prepared anew, or in the chat and acted on.
LEMMA AuthMoves ==
    ASSUME Base, [Next]_vars
    PROVE  \/ auth'.state = auth.state
           \/ \E r \in Relays : /\ AuthorizationCommits(r) /\ loc[r].job = Len(jobs)
                                /\ auth'.state = "sent"
           \/ \E r \in Relays : IssueAuthorization(r)
           \/ \E r \in Relays : /\ ReceiptLost(r) /\ Woken(r, {"exploring"})
                                /\ auth.state = "sent" /\ auth'.state = "prepared"
           \/ \E c \in caps, role \in Roles : Delegate(c, role)
<1> USE DEF Base
<1>1. auth \in [state : {"none", "prepared", "sent", "issued"}, broken : BOOLEAN]  BY DEF Shape
<1>2. ASSUME NEW r \in Relays,
             \/ TakeUp(r) \/ Wake(r) \/ Sleep(r) \/ Incompatible(r) \/ RootCommits(r) \/ JobCommits(r)
             \/ WorkspaceCreated(r) \/ BindRoot(r) \/ ActivateRoot(r) \/ RequeueClaim(r)
             \/ ClaimNextJob(r) \/ BeginJobAttempt(r) \/ TakeSuccess(r) \/ PrepareBaton(r)
             \/ BatonDelivered(r) \/ AdvanceBarrier(r) \/ TakeFailure(r) \/ LateResult(r) \/ Crash(r)
      PROVE  UNCHANGED auth
  BY <1>2 DEF TakeUp, Wake, Sleep, Incompatible, ClaimRoot, ClaimAuthorization, ClaimJobEffect, Claim,
              ReadOutcome, DecideBaton, RootCommits, JobCommits, WorkspaceCreated, BindRoot,
              ActivateRoot, RequeueClaim, ClaimNextJob, BeginJobAttempt, TakeSuccess, PrepareBaton,
              BatonDelivered, AdvanceBarrier, TakeFailure, LateResult, Crash
<1>3. ASSUME NEW r \in Relays, AuthorizationCommits(r)
      PROVE  auth'.state = auth.state \/ (loc[r].job = Len(jobs) /\ auth'.state = "sent")
  BY <1>1, <1>3 DEF AuthorizationCommits
<1>4. ASSUME NEW r \in Relays, EffectFails(r) PROVE auth'.state = auth.state
  BY <1>1, <1>4 DEF EffectFails
<1>5. ASSUME NEW r \in Relays, ReceiptLost(r)
      PROVE  auth'.state = auth.state \/
             (Woken(r, {"exploring"}) /\ auth.state = "sent" /\ auth'.state = "prepared")
  <2>1. \/ auth' = auth
        \/ /\ auth' = [state |-> "prepared", broken |-> TRUE] /\ auth.state = "sent"
           /\ loc[r].at = "woken" /\ loc[r].phase = "exploring"
    BY <1>5 DEF ReceiptLost, Woken
  <2> QED  BY <2>1 DEF Woken
<1>6. ASSUME NEW k \in RetryKeys, Recover(k) PROVE auth'.state = auth.state
  BY <1>1, <1>6 DEF Recover
<1>7. Complete \/ Cancel \/ UNCHANGED vars => UNCHANGED auth  BY DEF Complete, Cancel, vars
<1> QED  BY <1>2, <1>3, <1>4, <1>5, <1>6, <1>7 DEF Next, Advance

\* What opening the next phase does.
Opens(r, j) ==
    LET role == IF loc[r].phase = "exploring" THEN "exploration" ELSE "implementation"
        next == IF role = "exploration" THEN "planning" ELSE "reviewing"
    IN  /\ loc[r].phase \in {"exploring", "implementing"}
        /\ run.phase = loc[r].phase /\ BarrierSatisfied(role, run.cycle)
        /\ j \in DOMAIN jobs /\ jobs[j].role = role /\ jobs[j].cycle = run.cycle /\ jobs[j].grant >= 0
        /\ <<role, j>> \notin accepted /\ accepted' = accepted \cup {<<role, j>>}
        /\ EffectivePhase = run.phase /\ EffectivePhase' = next /\ run'.phase = next
        /\ run'.cycle = run.cycle /\ run'.revision = jobs[j].grant
        /\ run'.why = run.why /\ run'.blocks = run.blocks
        /\ caps' = Revoke({c \in LiveCaps : c.phase = run.phase})
                     \cup {Issued(next, run.cycle, jobs[j].grant, j)}
        /\ UNCHANGED <<jobs, auth, retried, crashes>>

LEMMA Opened ==
    ASSUME Base, NEW r \in Relays, AdvanceBarrier(r)
    PROVE  UNCHANGED <<run, caps>> \/ (Blocks /\ UNCHANGED caps) \/ \E j \in DOMAIN jobs : Opens(r, j)
<1> USE JobsAre DEF Base
<1> DEFINE role == IF loc[r].phase = "exploring" THEN "exploration" ELSE "implementation"
           next == IF role = "exploration" THEN "planning" ELSE "reviewing"
           thing == [kind |-> "barrier", job |-> 0]
           granting == {j \in Current(role, loc[r].cycle) : jobs[j].state = "returned" /\ jobs[j].grant >= 0}
<1>1. CASE run.blocks < MaxBlocks /\ run' = Block(thing, "terminal") /\ UNCHANGED caps
  <2>1. thing \in Thing /\ thing.kind \notin {"failed", "job"}  BY DEF Thing, BlockKinds
  <2> HIDE DEF thing
  <2> QED  BY <1>1, <2>1, BlockBlocks
<1>2. CASE UNCHANGED <<run, caps>>  BY <1>2
<1>3. ASSUME NEW j \in granting, <<role, j>> \notin accepted, accepted' = accepted \cup {<<role, j>>},
             BarrierIsCurrent(r), run' = [run EXCEPT !.phase = next, !.revision = jobs[j].grant],
             caps' = Revoke({c \in LiveCaps : c.phase = loc[r].phase})
                       \cup {Issued(next, run.cycle, jobs[j].grant, j)}
      PROVE  Opens(r, j) /\ j \in DOMAIN jobs
  <2>1. /\ loc[r].phase \in {"exploring", "implementing"} /\ BarrierSatisfied(role, loc[r].cycle)
        /\ UNCHANGED <<jobs, auth, retried, crashes>>
    BY DEF AdvanceBarrier, Woken
  <2>2. run.phase = loc[r].phase /\ run.cycle = loc[r].cycle  BY <1>3 DEF BarrierIsCurrent
  <2>3. /\ run'.phase = next /\ run'.cycle = run.cycle /\ run'.revision = jobs[j].grant
        /\ run'.why = run.why /\ run'.blocks = run.blocks
    BY <1>3 DEF Shape, RunRecord
  <2>4. EffectivePhase = run.phase /\ EffectivePhase' = next
    BY <2>1, <2>2, <2>3 DEF EffectivePhase
  <2>5. j \in DOMAIN jobs /\ jobs[j].role = role /\ jobs[j].cycle = run.cycle /\ jobs[j].grant >= 0
    BY <2>2 DEF Current
  <2> QED  BY <1>3, <2>1, <2>2, <2>3, <2>4, <2>5 DEF Opens
<1> QED  BY <1>1, <1>2, <1>3 DEF AdvanceBarrier

\* Only a block, a request that lifts it and a cancellation change what the
\* run is blocked on and how often it was.
Steady ==
    /\ run'.why = run.why /\ run'.blocks = run.blocks
    /\ run.phase # "blocked" /\ run'.phase # "blocked"

LEMMA BlockMoves ==
    ASSUME Base, [Next]_vars
    PROVE  UNCHANGED run \/ Blocks \/ Steady \/ Cancel \/ \E k \in RetryKeys : Recover(k)
<1> USE MoreJobs DEF Base, Steady
<1>1. run \in RunRecord /\ run' \in RunRecord  BY RunShape DEF Shape
<1>2. ASSUME NEW r \in Relays,
             \/ WorkspaceCreated(r) \/ BindRoot(r) \/ ActivateRoot(r) \/ IssueAuthorization(r)
             \/ AdvanceBarrier(r)
      PROVE  UNCHANGED run \/ Blocks \/ Steady
  <2>1. CASE WorkspaceCreated(r)  BY <1>1, <2>1 DEF WorkspaceCreated, RunRecord
  <2>2. CASE BindRoot(r)
    <3> DEFINE thing == [kind |-> "bind-root", job |-> 0]
    <3>1. thing \in Thing /\ thing.kind \notin {"failed", "job"}  BY DEF Thing, BlockKinds
    <3>2. CASE run.blocks < MaxBlocks /\ run' = Block(thing, "terminal")
      <4> HIDE DEF thing
      <4> QED  BY <3>1, <3>2, BlockBlocks
    <3>3. CASE run' = [run EXCEPT !.phase = "pending_root"] /\ run.phase = "binding_root"
      BY <1>1, <3>3 DEF RunRecord
    <3> QED  BY <2>2, <3>2, <3>3 DEF BindRoot
  <2>3. CASE ActivateRoot(r)  BY <1>1, <2>3 DEF ActivateRoot, RunRecord
  <2>4. CASE IssueAuthorization(r)  BY <2>4 DEF IssueAuthorization
  <2>5. CASE AdvanceBarrier(r)  BY <2>5, Opened DEF Opens
  <2> QED  BY <1>2, <2>1, <2>2, <2>3, <2>4, <2>5
<1>3. ASSUME NEW c \in caps, NEW role \in Roles, Delegate(c, role)
      PROVE  Steady
  <2>1. run.phase \in {"exploring", "planning", "reviewing"}
    BY <1>3 DEF Delegate, DelegationAllowed
  <2> QED  BY <1>1, <1>3, <2>1 DEF Delegate, Transition, RunRecord
<1>4. ASSUME Complete PROVE Steady
  BY <1>1, <1>4 DEF Complete, RunRecord
<1> QED  BY <1>2, <1>3, <1>4, RunMoves DEF Moves

LEMMA KeepsBlockFits == ASSUME Base, [Next]_vars PROVE BlockFits'
<1> USE MoreJobs DEF Base
<1>1. run \in RunRecord /\ run' \in RunRecord  BY RunShape DEF Shape
<1>2. ASSUME run'.why = run.why, (run'.phase = "blocked") = (run.phase = "blocked"),
             ~\E k \in RetryKeys : Recover(k)
      PROVE  BlockFits'
  <2>1. ASSUME run.why.blocked.kind = "failed" PROVE jobs'[run.why.blocked.job].state = "failed"
    <3> DEFINE j == run.why.blocked.job
    <3>1. j \in DOMAIN jobs /\ jobs[j].state = "failed"  BY <2>1 DEF BlockFits
    <3> QED  BY <1>2, <3>1, Movers DEF Reopens
  <2> QED  BY <1>2, <2>1 DEF BlockFits
<1>3. CASE Blocks
  <2>1. PICK thing \in Thing, class \in {"deterministic", "ambiguous", "terminal"} :
          /\ run' = [run EXCEPT !.phase = "blocked", !.blocks = @ + 1,
                           !.why = [blocked |-> thing, class |-> class, resume |-> run.phase]]
          /\ thing.kind \in {"failed", "job"} => thing.job \in DOMAIN jobs'
          /\ thing.kind = "failed" => jobs'[thing.job].state = "failed"
    BY <1>3 DEF Blocks, Fails
  <2>2. /\ run'.phase = "blocked"
        /\ run'.why = [blocked |-> thing, class |-> class, resume |-> run.phase]
    BY <1>1, <2>1 DEF RunRecord
  <2>3. run.phase \in Runnable  BY <1>3 DEF Blocks
  <2>4. run'.why # Free  BY <2>2 DEF Free
  <2> QED  BY <2>1, <2>2, <2>3, <2>4 DEF BlockFits
<1>4. ASSUME run'.why = Free, run'.phase # "blocked" PROVE BlockFits'
  BY <1>4 DEF BlockFits, Free, Nothing
<1>5. ASSUME NEW k \in RetryKeys, Recover(k) PROVE BlockFits'
  <2>1. run' = [run EXCEPT !.phase = run.why.resume, !.why = Free] /\ run.phase = "blocked"
    BY <1>5 DEF Recover, Unblock
  <2>2. run'.why = Free /\ run'.phase = run.why.resume  BY <1>1, <2>1 DEF RunRecord
  <2>3. run.why.resume \in Runnable  BY <2>1 DEF BlockFits
  <2> QED  BY <1>4, <2>2, <2>3 DEF Runnable, Working
<1>6. CASE Cancel
  <2>1. run'.why = Free /\ run'.phase = "cancelled"  BY <1>1, <1>6 DEF Cancel, RunRecord
  <2> QED  BY <1>4, <2>1
<1>7. ASSUME Steady, ~\E k \in RetryKeys : Recover(k) PROVE BlockFits'
  BY <1>2, <1>7 DEF Steady
<1>8. ASSUME UNCHANGED run, ~\E k \in RetryKeys : Recover(k) PROVE BlockFits'
  BY <1>2, <1>8
<1> QED  BY <1>3, <1>5, <1>6, <1>7, <1>8, BlockMoves

\* Jobs are only added by a delegation.
LEMMA WhoDelegates ==
    ASSUME Base, [Next]_vars, Len(jobs') # Len(jobs)
    PROVE  \E c \in caps, role \in Roles : Delegate(c, role)
<1> USE JobsAre, MoreJobs DEF Base
<1>1. ASSUME DOMAIN jobs' = DOMAIN jobs PROVE FALSE
  BY <1>1
<1>2. ASSUME NEW j, NEW b, jobs' = [jobs EXCEPT ![j] = b] PROVE FALSE
  BY <1>1, <1>2
<1>3. ASSUME NEW r \in Relays,
             \/ TakeUp(r) \/ Wake(r) \/ Sleep(r) \/ Incompatible(r)
             \/ RootCommits(r) \/ AuthorizationCommits(r) \/ WorkspaceCreated(r) \/ BindRoot(r)
             \/ IssueAuthorization(r) \/ AdvanceBarrier(r)
      PROVE  FALSE
  BY <1>1, <1>3 DEF TakeUp, Wake, Sleep, ClaimRoot, ClaimAuthorization, ClaimJobEffect, Claim, ReadOutcome,
              DecideBaton, Incompatible, RootCommits, AuthorizationCommits, WorkspaceCreated,
              BindRoot, IssueAuthorization, AdvanceBarrier
<1>4. ASSUME NEW r \in Relays,
             \/ JobCommits(r) \/ ActivateRoot(r) \/ RequeueClaim(r) \/ ClaimNextJob(r)
             \/ BeginJobAttempt(r) \/ TakeSuccess(r)
      PROVE  FALSE
  BY <1>1, <1>4 DEF JobCommits, ActivateRoot, RequeueClaim, ClaimNextJob, BeginJobAttempt, TakeSuccess
<1>5. ASSUME NEW r \in Relays, PrepareBaton(r) \/ BatonDelivered(r) PROVE FALSE
  BY <1>1, <1>5 DEF PrepareBaton, BatonDelivered
<1>6. ASSUME NEW r \in Relays, MishapOf(r) PROVE FALSE
  BY <1>1, <1>6 DEF MishapOf, EffectFails, ReceiptLost, TakeFailure, LateResult, Crash
<1>7. ASSUME NEW k \in RetryKeys, Recover(k) PROVE FALSE
  BY <1>1, <1>7 DEF Recover
<1>8. ASSUME Complete \/ Cancel \/ UNCHANGED vars PROVE FALSE
  BY <1>1, <1>8 DEF Complete, Cancel, vars
<1> QED  BY <1>3, <1>4, <1>5, <1>6, <1>7, <1>8 DEF Next, Advance, MishapOf

\* The first job wakes up with its root; a running one ends with its outcome.
LEMMA WhoMovesOn ==
    ASSUME Base, [Next]_vars, NEW j \in DOMAIN jobs, jobs[j].state \in {"dormant", "running"},
           jobs'[j].state # jobs[j].state
    PROVE  \/ \E r \in Relays : ActivateRoot(r) /\ run.phase = "pending_root"
           \/ \E r \in Relays : (TakeSuccess(r) \/ TakeFailure(r)) /\ loc[r].job = j
           \/ Cancel
<1> USE JobsAre, MoreJobs DEF Base
<1>1. ASSUME UNCHANGED jobs PROVE FALSE  BY <1>1
<1>2. ASSUME NEW r \in Relays,
             \/ TakeUp(r) \/ Wake(r) \/ Sleep(r) \/ Incompatible(r)
             \/ RootCommits(r) \/ AuthorizationCommits(r) \/ WorkspaceCreated(r) \/ BindRoot(r)
             \/ IssueAuthorization(r) \/ AdvanceBarrier(r)
      PROVE  FALSE
  BY <1>1, <1>2 DEF TakeUp, Wake, Sleep, ClaimRoot, ClaimAuthorization, ClaimJobEffect, Claim, ReadOutcome,
              DecideBaton, Incompatible, RootCommits, AuthorizationCommits, WorkspaceCreated,
              BindRoot, IssueAuthorization, AdvanceBarrier
<1>3. ASSUME NEW r \in Relays, JobCommits(r) PROVE FALSE
  <2>1. jobs'[j] = jobs[j] \/ (loc[r].job = j /\ jobs[j].state \in DOMAIN Performed)
    BY <1>3 DEF JobCommits, NotesFit
  <2> QED  BY <2>1, PerformedStages
<1>4. ASSUME NEW r \in Relays, PrepareBaton(r) PROVE FALSE
  <2>1. jobs'[j].state = jobs[j].state  BY <1>4 DEF PrepareBaton, Job
  <2> QED  BY <2>1
<1>5. ASSUME NEW r \in Relays, RequeueClaim(r) \/ ClaimNextJob(r) \/ BeginJobAttempt(r) PROVE FALSE
  <2>1. PICK i \in DOMAIN jobs :
          /\ jobs[i].state \in {"queued", "owned"}
          /\ \/ jobs' = [jobs EXCEPT ![i].state = "queued", ![i].owner = "none"]
             \/ jobs' = [jobs EXCEPT ![i].state = "owned", ![i].owner = r]
             \/ jobs' = [jobs EXCEPT ![i].state = "opening", ![i].attempt = @ + 1, ![i].owner = "none"]
    BY <1>5 DEF RequeueClaim, ClaimNextJob, BeginJobAttempt, Waiting, Current
  <2>2. i # j  BY <2>1
  <2>3. jobs'[j] = jobs[j]  BY <2>1, <2>2
  <2> QED  BY <2>3
<1>6. ASSUME NEW r \in Relays, TakeSuccess(r) \/ TakeFailure(r), loc[r].job # j PROVE FALSE
  <2>1. jobs'[j] = jobs[j]  BY <1>6 DEF TakeSuccess, TakeFailure
  <2> QED  BY <2>1
<1>7. ASSUME NEW r \in Relays, BatonDelivered(r) PROVE FALSE
  <2>1. jobs'[j] = jobs[j]  BY <1>7 DEF BatonDelivered
  <2> QED  BY <2>1
<1>8. ASSUME NEW r \in Relays, EffectFails(r) PROVE FALSE
  <2>1. CASE loc[r].phase = "job" /\ jobs[loc[r].job].state \in DOMAIN Performed
    <3>1. jobs' = [jobs EXCEPT ![loc[r].job].broken = TRUE]  BY <1>8, <2>1 DEF EffectFails
    <3>2. jobs'[j].state = jobs[j].state  BY <3>1 DEF Job
    <3> QED  BY <3>2
  <2> QED  BY <1>1, <1>8, <2>1 DEF EffectFails
<1>9. ASSUME NEW r \in Relays, ReceiptLost(r) PROVE FALSE
  <2>1. CASE ~UNCHANGED jobs
    <3>1. PICK i \in DOMAIN jobs : jobs' = [jobs EXCEPT ![i].baton = "prepared", ![i].broken = TRUE]
      BY <1>9, <2>1 DEF ReceiptLost
    <3>2. jobs'[j] = IF i = j THEN [jobs[j] EXCEPT !.baton = "prepared", !.broken = TRUE] ELSE jobs[j]
      BY <3>1
    <3>3. jobs'[j].state = jobs[j].state  BY <3>2 DEF Job
    <3> QED  BY <3>3
  <2> QED  BY <1>1, <2>1
<1>10. ASSUME NEW r \in Relays, LateResult(r) PROVE FALSE
  <2>1. PICK i \in DOMAIN jobs : \E n : jobs' = [jobs EXCEPT ![i].result = n]
    BY <1>10 DEF LateResult
  <2>2. jobs'[j].state = jobs[j].state  BY <2>1 DEF Job
  <2> QED  BY <2>2
<1>11. ASSUME NEW r \in Relays, Crash(r) PROVE FALSE
  <2>1. jobs'[j] = IF jobs[j].owner = r THEN [jobs[j] EXCEPT !.owner = "dead"] ELSE jobs[j]
    BY <1>11 DEF Crash
  <2>2. jobs'[j].state = jobs[j].state  BY <2>1 DEF Job
  <2> QED  BY <2>2
<1>12. ASSUME NEW r \in Relays, ActivateRoot(r), run.phase # "pending_root" PROVE FALSE
  BY <1>1, <1>12 DEF ActivateRoot
<1>13. ASSUME NEW c \in caps, NEW role \in Roles, Delegate(c, role) PROVE FALSE
  <2>1. jobs'[j] = jobs[j]  BY <1>13 DEF Delegate, Shape
  <2> QED  BY <2>1
<1>14. ASSUME NEW k \in RetryKeys, Recover(k) PROVE FALSE
  <2> DEFINE thing == run.why.blocked
  <2>1. CASE thing.kind = "failed"
    <3>1. thing.job # j /\ jobs' = [jobs EXCEPT ![thing.job].state = "queued"]
      BY <1>14, <2>1 DEF Recover, BlockFits
    <3> QED  BY <3>1
  <2>2. CASE thing.kind = "job"
    <3>1. jobs' = [jobs EXCEPT ![thing.job].broken = FALSE]  BY <1>14, <2>2 DEF Recover
    <3>2. jobs'[j].state = jobs[j].state  BY <3>1 DEF Job
    <3> QED  BY <3>2
  <2>3. CASE thing.kind \notin {"failed", "job"}  BY <1>1, <1>14, <2>3 DEF Recover
  <2> QED  BY <2>1, <2>2, <2>3
<1>15. ASSUME Complete \/ UNCHANGED vars PROVE FALSE  BY <1>1, <1>15 DEF Complete, vars
<1> QED
  BY <1>2, <1>3, <1>4, <1>5, <1>6, <1>7, <1>8, <1>9, <1>10, <1>11, <1>12, <1>13, <1>14, <1>15
     DEF Next, Advance

LEMMA KeepsRootFirst == ASSUME Base, [Next]_vars PROVE RootFirst'
<1> SUFFICES ASSUME EffectivePhase' \in RootPhases
             PROVE  /\ Len(jobs') = 1 /\ jobs'[1].state = "dormant"
                    /\ caps' = {} /\ auth'.state = "none"
                    /\ run'.cycle = 0 /\ run'.revision = 0
  BY DEF RootFirst
<1> USE MoreJobs DEF Base
<1>1. run \in RunRecord /\ run' \in RunRecord  BY RunShape DEF Shape
<1>2. /\ EffectivePhase \in RootPhases /\ caps' = caps
      /\ run'.cycle = run.cycle /\ run'.revision = run.revision
  <2>1. ASSUME NEW r \in Relays, WorkspaceCreated(r)
        PROVE  run' = [run EXCEPT !.phase = "binding_root"] /\ run.phase \in RootPhases /\ caps' = caps
    BY <2>1 DEF WorkspaceCreated, RootPhases
  <2>2. ASSUME NEW r \in Relays, BindRoot(r)
        PROVE  /\ run.phase = "binding_root" /\ caps' = caps
               /\ run'.cycle = run.cycle /\ run'.revision = run.revision
    BY <1>1, <2>2 DEF BindRoot, Block, RunRecord
  <2>3. ASSUME NEW r \in Relays, ActivateRoot(r) PROVE UNCHANGED <<run, caps>>
    <3>1. CASE run.phase = "pending_root"
      <4>1. run'.phase = "exploring"  BY <1>1, <2>3, <3>1 DEF ActivateRoot, RunRecord
      <4> QED  BY <4>1 DEF EffectivePhase, RootPhases
    <3> QED  BY <2>3, <3>1 DEF ActivateRoot
  <2>4. ASSUME NEW r \in Relays, IssueAuthorization(r) PROVE FALSE
    BY <2>4 DEF IssueAuthorization, EffectivePhase, RootPhases
  <2>5. ASSUME NEW r \in Relays, AdvanceBarrier(r)
        PROVE  /\ EffectivePhase \in RootPhases /\ caps' = caps
               /\ run'.cycle = run.cycle /\ run'.revision = run.revision
    <3>1. loc[r].phase \in {"exploring", "implementing"}  BY <2>5 DEF AdvanceBarrier, Woken
    <3>2. CASE run' = Block([kind |-> "barrier", job |-> 0], "terminal") /\ BarrierIsCurrent(r)
      <4>1. run.phase \in Runnable /\ run.phase \notin RootPhases
        BY <3>1, <3>2 DEF BarrierIsCurrent, RootPhases, Runnable, Working
      <4>2. EffectivePhase' = run.phase
        BY <1>1, <3>2, <4>1 DEF Block, EffectivePhase, RunRecord
      <4> QED  BY <4>1, <4>2
    <3>3. CASE \E next \in {"planning", "reviewing"} : \E revision :
                 run' = [run EXCEPT !.phase = next, !.revision = revision]
      <4>1. run'.phase \in {"planning", "reviewing"}  BY <1>1, <3>3 DEF RunRecord
      <4> QED  BY <4>1 DEF EffectivePhase, RootPhases
    <3>4. CASE UNCHANGED <<run, caps>>  BY <3>4 DEF EffectivePhase
    <3> QED  BY <2>5, <3>2, <3>3, <3>4 DEF AdvanceBarrier
  <2>6. ASSUME NEW c \in caps, NEW role \in Roles, Delegate(c, role) PROVE FALSE
    <3>1. run'.phase \in {"exploring", "implementing"}
      BY <1>1, <2>6 DEF Delegate, Transition, RunRecord
    <3> QED  BY <3>1 DEF EffectivePhase, RootPhases
  <2>7. ~Complete /\ ~Cancel
    <3>1. Complete \/ Cancel => run'.phase \in Terminal
      BY <1>1 DEF Complete, Cancel, RunRecord, Terminal
    <3> QED  BY <3>1 DEF EffectivePhase, RootPhases, Terminal
  <2>8. CASE \E r \in Relays : WorkspaceCreated(r) \/ BindRoot(r)
    <3>1. EffectivePhase \in RootPhases /\ caps' = caps
      BY <2>1, <2>2, <2>8 DEF EffectivePhase, RootPhases
    <3>2. run'.cycle = run.cycle /\ run'.revision = run.revision
      BY <1>1, <2>1, <2>2, <2>8 DEF RunRecord
    <3> QED  BY <3>1, <3>2
  <2>9. UNCHANGED <<run, caps>> => EffectivePhase' = EffectivePhase  BY DEF EffectivePhase
  <2> QED  BY <2>3, <2>4, <2>5, <2>6, <2>7, <2>8, <2>9, CourseKept DEF Moves
<1>3. /\ Len(jobs) = 1 /\ jobs[1].state = "dormant" /\ caps = {} /\ auth.state = "none"
      /\ run.cycle = 0 /\ run.revision = 0
  BY <1>2 DEF RootFirst
<1>4. Len(jobs') = 1  BY <1>3, WhoDelegates
<1>5. jobs'[1].state = "dormant"
  <2>1. ASSUME NEW r \in Relays, ActivateRoot(r), run.phase = "pending_root" PROVE FALSE
    <3>1. run'.phase = "exploring"  BY <1>1, <2>1 DEF ActivateRoot, RunRecord
    <3> QED  BY <3>1 DEF EffectivePhase, RootPhases
  <2>2. ~Cancel
    <3>1. Cancel => run'.phase = "cancelled"  BY <1>1 DEF Cancel, RunRecord
    <3> QED  BY <3>1 DEF EffectivePhase, RootPhases
  <2>3. 1 \in DOMAIN jobs  BY <1>3
  <2>4. ASSUME NEW r \in Relays, TakeSuccess(r) \/ TakeFailure(r), loc[r].job = 1 PROVE FALSE
    BY <1>3, <2>4 DEF TakeSuccess, TakeFailure, StillRunning
  <2> QED  BY <1>3, <2>1, <2>2, <2>3, <2>4, WhoMovesOn
<1>6. auth'.state = "none"
  <2>1. ASSUME NEW r \in Relays, AuthorizationCommits(r), loc[r].job = Len(jobs) PROVE FALSE
    BY <1>3, <2>1 DEF AuthorizationCommits, EffectsFit
  <2>2. ASSUME NEW r \in Relays, IssueAuthorization(r) PROVE FALSE
    BY <1>3, <2>2 DEF IssueAuthorization
  <2> QED  BY <1>3, <2>1, <2>2, AuthMoves
<1> QED  BY <1>2, <1>3, <1>4, <1>5, <1>6

\* A run that is over stays so.
LEMMA CancelledStays ==
    ASSUME Base, [Next]_vars, run.phase = "cancelled"
    PROVE  run'.phase = "cancelled"
<1> USE DEF Base
<1>1. ASSUME NEW r \in Relays, ActivateRoot(r) \/ IssueAuthorization(r) \/ AdvanceBarrier(r)
      PROVE  UNCHANGED run
  BY <1>1 DEF ActivateRoot, IssueAuthorization, AdvanceBarrier, BarrierIsCurrent, Woken
<1>2. ASSUME NEW r \in Relays, WorkspaceCreated(r) \/ BindRoot(r) PROVE FALSE
  BY <1>2 DEF WorkspaceCreated, BindRoot
<1>3. ASSUME NEW c \in caps, NEW role \in Roles, Delegate(c, role) PROVE FALSE
  BY <1>3 DEF Delegate, DelegationAllowed
<1>4. ~Complete /\ ~Cancel  BY DEF Complete, Cancel, Terminal
<1> QED  BY <1>1, <1>2, <1>3, <1>4, CourseKept DEF Moves

LEMMA KeepsEffectsFit == ASSUME Base, [Next]_vars PROVE EffectsFit'
<1> USE MoreJobs DEF Base
<1>1. ASSUME NEW r \in Relays, NEW s \in Relays,
             loc'[r].at = "effect", loc'[s].at = "effect",
             loc'[r].phase = loc'[s].phase, loc'[r].job = loc'[s].job
      PROVE  r = s
  <2>1. ASSUME NEW a \in Relays, loc'[a].at = "effect" PROVE loc'[a] = loc[a] \/ TakeUp(a)
    BY <2>1, NotesMove, SnapshotIs DEF Idle
  <2>2. ASSUME NEW a \in Relays, NEW b \in Relays, a # b, TakeUp(a), loc'[a].at = "effect",
               loc'[b].at = "effect", loc'[a].phase = loc'[b].phase, loc'[a].job = loc'[b].job
        PROVE  FALSE
    <3>1. loc'[b] = loc[b] /\ TakesUp(a, loc'[a])  BY <2>2, NoteTaken
    <3>2. ~InFlight(loc'[a].phase, loc'[a].job)  BY <2>2, <3>1 DEF TakesUp
    <3> QED  BY <2>2, <3>1, <3>2 DEF InFlight
  <2>3. CASE loc'[r] = loc[r] /\ loc'[s] = loc[s]  BY <1>1, <2>3 DEF EffectsFit
  <2> QED  BY <1>1, <2>1, <2>2, <2>3
<1>2. ASSUME NEW r \in Relays, loc'[r].at = "effect", loc'[r].phase = "job"
      PROVE  LET job == jobs'[loc'[r].job]
             IN  \/ job.state \in {"opening", "configuring", "sending", "cancelled"}
                 \/ job.state = "returning" /\ job.baton = "prepared"
  <2>1. CASE TakeUp(r)
    <3>1. TakesUp(r, loc'[r]) /\ UNCHANGED jobs  BY <2>1, NoteTaken
    <3> QED  BY <1>2, <3>1, PerformedStages DEF TakesUp
  <2>2. CASE loc'[r] = loc[r]
    <3> DEFINE j == loc[r].job
    <3>1. /\ j \in DOMAIN jobs /\ loc[r].at = "effect" /\ loc[r].phase = "job"
          /\ \/ jobs[j].state \in {"opening", "configuring", "sending", "cancelled"}
             \/ jobs[j].state = "returning" /\ jobs[j].baton = "prepared"
      BY <1>2, <2>2 DEF NotesFit, EffectsFit
    <3>2. ~Performs(jobs[j], jobs'[j])
      <4>1. ASSUME NEW s \in Relays, JobCommits(s), loc[s].job = j PROVE FALSE
        <5>1. s = r  BY <3>1, <4>1 DEF JobCommits, EffectsFit
        <5>2. loc'[r] = Idle  BY <4>1, <5>1 DEF JobCommits, Rest, Shape
        <5> QED  BY <1>2, <5>2 DEF Idle
      <4> QED  BY <3>1, <4>1, Movers
    <3>3. Moved(jobs[j], jobs'[j]) /\ jobs[j] \in Job  BY <3>1
    <3>4. CASE jobs[j].state = "cancelled"
      <4>1. jobs'[j].state = "cancelled"  BY <3>3, <3>4, PerformedStages DEF Moved, Job, JobEnds
      <4> QED  BY <2>2, <4>1
    <3>5. CASE jobs[j].state \in {"opening", "configuring", "sending"}
      BY <2>2, <3>2, <3>5 DEF Performs
    <3>6. CASE jobs[j].state = "returning" /\ jobs[j].baton = "prepared"
      <4>1. jobs'[j].baton = "prepared"  BY <3>2, <3>6 DEF Performs
      <4>2. jobs'[j].state \in {"returning", "cancelled"}
        BY <3>3, <3>6, PerformedStages DEF Moved, Job, JobEnds
      <4> QED  BY <2>2, <4>1, <4>2
    <3> QED  BY <3>1, <3>4, <3>5, <3>6
  <2> QED  BY <1>2, <2>1, <2>2, NotesMove, SnapshotIs DEF Idle
<1>3. ASSUME NEW r \in Relays, loc'[r].at = "effect", loc'[r].phase = "auth"
      PROVE  loc'[r].job <= Len(jobs') /\ (loc'[r].job = Len(jobs') => auth'.state = "prepared")
  <2>1. CASE TakeUp(r)
    <3>1. TakesUp(r, loc'[r]) /\ UNCHANGED <<jobs, auth>>  BY <2>1, NoteTaken
    <3> QED  BY <1>3, <3>1 DEF TakesUp
  <2>2. CASE loc'[r] = loc[r]
    <3>1. /\ loc[r].at = "effect" /\ loc[r].phase = "auth" /\ loc[r].job <= Len(jobs)
          /\ loc[r].job = Len(jobs) => auth.state = "prepared"
      BY <1>3, <2>2 DEF EffectsFit
    <3>2. loc[r].job \in Nat  BY DEF Shape, Note
    <3>3. ASSUME loc[r].job = Len(jobs') PROVE auth'.state = "prepared"
      <4>1. Len(jobs) = Len(jobs') /\ auth.state = "prepared"  BY <3>1, <3>2, <3>3
      <4>2. ASSUME NEW s \in Relays, AuthorizationCommits(s), loc[s].job = Len(jobs) PROVE FALSE
        <5>1. s = r  BY <3>1, <3>3, <4>1, <4>2 DEF AuthorizationCommits, EffectsFit
        <5>2. loc'[r] = Idle  BY <4>2, <5>1 DEF AuthorizationCommits, Rest, Shape
        <5> QED  BY <1>3, <5>2 DEF Idle
      <4>3. ASSUME NEW s \in Relays, IssueAuthorization(s) PROVE FALSE
        BY <4>1, <4>3 DEF IssueAuthorization
      <4>4. ASSUME NEW c \in caps, NEW role \in Roles, Delegate(c, role) PROVE FALSE
        BY <4>1, <4>4 DEF Delegate, Shape
      <4> QED  BY <4>1, <4>2, <4>3, <4>4, AuthMoves
    <3> QED  BY <2>2, <3>1, <3>2, <3>3
  <2> QED  BY <1>3, <2>1, <2>2, NotesMove, SnapshotIs DEF Idle
<1>4. ASSUME NEW r \in Relays, loc'[r].at = "baton"
      PROVE  jobs'[loc'[r].job].state \in {"returning", "returned", "cancelled"}
  <2>1. CASE TakeUp(r)
    <3>1. TakesUp(r, loc'[r]) /\ UNCHANGED jobs  BY <2>1, NoteTaken
    <3> QED  BY <1>4, <3>1 DEF TakesUp
  <2>2. CASE loc'[r] = loc[r]
    <3> DEFINE j == loc[r].job
    <3>1. j \in DOMAIN jobs /\ jobs[j].state \in {"returning", "returned", "cancelled"}
      BY <1>4, <2>2 DEF NotesFit, EffectsFit
    <3>2. Moved(jobs[j], jobs'[j]) /\ jobs[j] \in Job  BY <3>1
    <3>3. jobs'[j].state \in {"returning", "returned", "cancelled"}
      BY <3>1, <3>2, PerformedStages DEF Moved, Job, JobEnds
    <3> QED  BY <2>2, <3>3
  <2> QED  BY <1>4, <2>1, <2>2, NotesMove, SnapshotIs DEF Idle
<1>5. ASSUME NEW j \in DOMAIN jobs', jobs'[j].state = "cancelled" PROVE run'.phase = "cancelled"
  <2>1. j \in DOMAIN jobs  BY <1>5 DEF Ordered
  <2>2. CASE jobs[j].state = "cancelled"  BY <2>1, <2>2, CancelledStays DEF EffectsFit
  <2>3. CASE jobs[j].state # "cancelled"
    <3>1. Cancel  BY <1>5, <2>1, <2>3, Movers DEF Cancels
    <3> QED  BY <3>1 DEF Cancel, Shape, RunRecord
  <2> QED  BY <2>2, <2>3
<1> QED  BY <1>1, <1>2, <1>3, <1>4, <1>5 DEF EffectsFit

LEMMA KeepsBase == ASSUME Base, [Next]_vars PROVE Base'
BY ShapeStep, KeepsNotesFit, KeepsBlockFits, KeepsRootFirst, KeepsJobsFit, KeepsEffectsFit DEF Base

\* A new run: the first job, and what is in its row.
LEMMA NewRun ==
    ASSUME Init
    PROVE  /\ run \in RunRecord /\ run.phase \in {"creating_workspace", "pending_root"}
           /\ run.cycle = 0 /\ run.revision = 0 /\ run.blocks = 0 /\ run.why = Free
           /\ jobs \in Seq(Job) /\ Len(jobs) = 1 /\ DOMAIN jobs = {1}
           /\ jobs[1].state = "dormant" /\ jobs[1].attempt = 0 /\ jobs[1].failed = 0
           /\ jobs[1].result = 0 /\ jobs[1].baton = "none" /\ jobs[1].grant = -1
           /\ jobs[1].by = <<"none", 0>> /\ jobs[1].cycle = 0
<1>1. PICK target \in Targets :
        run = [phase |-> IF target = "new_workspace" THEN "creating_workspace" ELSE "pending_root",
               cycle |-> 0, revision |-> 0, blocks |-> 0, why |-> Free]
  BY DEF Init
<1>2. Free \in Why  BY DEF Free, Why, Nothing, BlockKinds
<1>3. run \in RunRecord
  <2>1. run.phase \in Phases  BY <1>1 DEF Phases, Runnable
  <2> QED  BY <1>1, <1>2, <2>1 DEF RunRecord
<1>4. /\ run.phase \in {"creating_workspace", "pending_root"} /\ run.cycle = 0 /\ run.revision = 0
      /\ run.blocks = 0 /\ run.why = Free
  BY <1>1
<1> DEFINE first == [role |-> "exploration", cycle |-> 0, state |-> "dormant", attempt |-> 0,
                     failed |-> 0, owner |-> "none", result |-> 0, broken |-> FALSE,
                     baton |-> "none", grant |-> -1, by |-> <<"none", 0>>]
<1>5. first \in Job  BY StageNames DEF Job, Roles
<1>6. /\ first.state = "dormant" /\ first.attempt = 0 /\ first.failed = 0 /\ first.result = 0
      /\ first.baton = "none" /\ first.grant = -1 /\ first.by = <<"none", 0>> /\ first.cycle = 0
  OBVIOUS
<1>7. jobs = <<first>>  BY DEF Init
<1> HIDE DEF first
<1> QED  BY <1>3, <1>4, <1>5, <1>6, <1>7

LEMMA InitBase == Init => Base
<1> SUFFICES ASSUME Init PROVE Base  OBVIOUS
<1> USE NewRun
<1>1. /\ caps = {} /\ auth = [state |-> "none", broken |-> FALSE] /\ accepted = {}
      /\ retried = [k \in RetryKeys |-> 0] /\ loc = [r \in Relays |-> Idle] /\ crashes = 0
  BY DEF Init
<1>2. Idle \in Note /\ Idle.at = "idle"  BY DEF Idle, Note
<1>3. Shape
  <2>1. root \in [step : RootSteps, broken : BOOLEAN]  BY DEF Init, RootSteps
  <2>2. auth \in [state : {"none", "prepared", "sent", "issued"}, broken : BOOLEAN]  BY <1>1
  <2>3. retried \in [RetryKeys -> Nat] /\ loc \in [Relays -> Note] /\ crashes \in Nat
    BY <1>1, <1>2
  <2>4. caps \subseteq Grant /\ accepted \subseteq {<<"root", 0>>} \cup (Roles \X (Nat \ {0}))  BY <1>1
  <2>5. run \in RunRecord /\ jobs \in Seq(Job) /\ Len(jobs) = 1  BY Zenon
  <2>6. Len(jobs) >= 1  BY <2>5
  <2> HIDE NewRun
  <2> QED  BY <2>1, <2>2, <2>3, <2>4, <2>5, <2>6 DEF Shape
<1>4. NotesFit /\ EffectsFit  BY <1>1, <1>2 DEF NotesFit, EffectsFit
<1>5. BlockFits  BY DEF BlockFits, Free, Nothing
<1>6. RootFirst  BY <1>1 DEF RootFirst
<1>7. JobsFit  BY DEF JobsFit, JobFits
<1> QED  BY <1>3, <1>4, <1>5, <1>6, <1>7 DEF Base

\* In every reachable state the rows and notes have their shape, a note fits
\* what it is about, a block names a thing that is there, nothing precedes the
\* root chat, a job's stage agrees with its attempts, result and Baton, and one
\* relay at a time performs an effect (workflow/engine.ts, persistence/*.ts).
THEOREM BaseHolds == Spec => []Base
BY InitBase, KeepsBase, PTL DEF Spec

\* Whatever the relays, deaths, blocks and retries, the result that returns is
\* the running attempt's (job-results.ts).
THEOREM ResultsAreOfTheirAttempts == Spec => []ResultIsOfItsAttempt
<1>1. Base => ResultIsOfItsAttempt  BY DEF Base, JobsFit, JobFits, ResultIsOfItsAttempt
<1> QED  BY <1>1, BaseHolds, PTL

\* A helper's next attempt follows the recorded failure of the one before it
\* (persistence/jobs.ts).
THEOREM AttemptsFollowFailures == Spec => []NewAttemptFollowsFailure
<1>1. Base => NewAttemptFollowsFailure  BY DEF Base, JobsFit, JobFits, NewAttemptFollowsFailure
<1> QED  BY <1>1, BaseHolds, PTL

-----------------------------------------------------------------------------
(* Barriers *)

\* A delivered Baton stays delivered.
LEMMA DeliveredStays ==
    ASSUME Base, [Next]_vars, NEW j \in DOMAIN jobs, Returned(j)
    PROVE  Returned(j)' /\ jobs'[j].grant = jobs[j].grant
<1>1. jobs[j] \in Job /\ Moved(jobs[j], jobs'[j])  BY MoreJobs
<1> QED  BY <1>1 DEF Moved, Job, JobEnds, Returned

\* A job stays what it was asked for.
LEMMA JobStaysItself ==
    ASSUME Base, [Next]_vars, NEW j \in DOMAIN jobs
    PROVE  jobs'[j].role = jobs[j].role /\ jobs'[j].cycle = jobs[j].cycle /\ jobs'[j].by = jobs[j].by
<1>1. jobs[j] \in Job /\ Moved(jobs[j], jobs'[j])  BY MoreJobs
<1> QED  BY <1>1 DEF Moved, Job

\* What a delegation does.
LEMMA Delegated ==
    ASSUME Base, [Next]_vars, NEW c \in caps, NEW role \in Roles, Delegate(c, role)
    PROVE  LET n == Len(jobs) + 1 IN
           /\ DOMAIN jobs' = 1..n /\ Len(jobs') = n /\ \A j \in DOMAIN jobs : jobs'[j] = jobs[j]
           /\ jobs'[n].role = role /\ jobs'[n].cycle = run'.cycle /\ jobs'[n].by = <<c.phase, c.with>>
           /\ jobs'[n].baton = "none" /\ jobs'[n].state = "queued" /\ jobs'[n].grant = -1
           /\ jobs'[n].failed = 0 /\ jobs'[n].attempt = 0 /\ jobs'[n].result = 0
           /\ run'.why = run.why /\ run'.blocks = run.blocks
           /\ EffectivePhase = run.phase /\ EffectivePhase' = run'.phase
           /\ role = "implementation" =>
                 /\ run'.phase = "implementing" /\ run'.cycle = run.cycle
                 /\ run'.revision = run.revision + 1
           /\ role = "exploration" =>
                 /\ run'.phase = "exploring"
                 /\ \/ run.phase = "exploring" /\ run'.cycle = run.cycle /\ run'.revision = run.revision + 1
                    \/ run.phase # "exploring" /\ run'.cycle = run.cycle + 1 /\ run'.revision = 0
<1> DEFINE new == [role |-> role, cycle |-> run'.cycle, state |-> "queued", attempt |-> 0,
                   failed |-> 0, owner |-> "none", result |-> 0, broken |-> FALSE,
                   baton |-> "none", grant |-> -1, by |-> <<c.phase, c.with>>]
<1>1. jobs' = Append(jobs, new)  BY DEF Delegate
<1>2. /\ new.role = role /\ new.cycle = run'.cycle /\ new.by = <<c.phase, c.with>>
      /\ new.baton = "none" /\ new.state = "queued" /\ new.grant = -1
      /\ new.failed = 0 /\ new.attempt = 0 /\ new.result = 0
  OBVIOUS
<1> HIDE DEF new
<1>3. /\ DOMAIN jobs' = 1..(Len(jobs) + 1) /\ Len(jobs') = Len(jobs) + 1
      /\ \A j \in DOMAIN jobs : jobs'[j] = jobs[j]
      /\ jobs'[Len(jobs) + 1] = new
  BY <1>1 DEF Base, Shape
<1>4. run \in RunRecord /\ run' = Transition(role) /\ run.phase \in {"exploring", "planning", "reviewing"}
  BY DEF Base, Shape, Delegate, DelegationAllowed
<1>5. /\ run'.why = run.why /\ run'.blocks = run.blocks
      /\ role = "implementation" =>
            /\ run'.phase = "implementing" /\ run'.cycle = run.cycle
            /\ run'.revision = run.revision + 1
      /\ role = "exploration" =>
            /\ run'.phase = "exploring"
            /\ \/ run.phase = "exploring" /\ run'.cycle = run.cycle /\ run'.revision = run.revision + 1
               \/ run.phase # "exploring" /\ run'.cycle = run.cycle + 1 /\ run'.revision = 0
  BY <1>4 DEF Transition, RunRecord
<1>6. EffectivePhase = run.phase /\ EffectivePhase' = run'.phase
  BY <1>4, <1>5 DEF EffectivePhase, Roles
<1> QED  BY <1>2, <1>3, <1>5, <1>6

LEMMA KeepsBarrier == ASSUME Base, BarrierHolds, [Next]_vars PROVE BarrierHolds'
<1> USE MoreJobs, JobStaysItself DEF Base
<1>1. ASSUME EffectivePhase' = EffectivePhase, run'.cycle = run.cycle,
             ~\E c \in caps, role \in Roles : Delegate(c, role)
      PROVE  BarrierHolds'
  <2>1. DOMAIN jobs' = DOMAIN jobs  BY <1>1, WhoDelegates
  <2> QED  BY <1>1, <2>1, DeliveredStays DEF BarrierHolds, Returned
<1>2. ASSUME NEW c \in caps, NEW role \in Roles, Delegate(c, role) PROVE BarrierHolds'
  <2>1. CASE role = "exploration"  BY <1>2, <2>1, Delegated DEF BarrierHolds
  <2>2. CASE role = "implementation"
    <3>1. \A j \in DOMAIN jobs : jobs[j].cycle = run.cycle /\ jobs[j].role = "exploration" => Returned(j)
      BY <1>2, <2>2 DEF Delegate, DelegationAllowed, BarrierSatisfied, Current
    <3>2. ASSUME NEW j \in DOMAIN jobs', jobs'[j].role = "exploration" PROVE j \in DOMAIN jobs
      BY <1>2, <2>2, <3>2, Delegated
    <3>3. EffectivePhase' = "implementing" /\ run'.cycle = run.cycle  BY <1>2, <2>2, Delegated
    <3> QED  BY <3>1, <3>2, <3>3, DeliveredStays DEF BarrierHolds, Returned
  <2> QED  BY <2>1, <2>2 DEF Roles
<1>3. ASSUME NEW r \in Relays, NEW j \in DOMAIN jobs, Opens(r, j) PROVE BarrierHolds'
  <2>1. \A i \in DOMAIN jobs : jobs[i].role \in Roles  BY DEF Job
  <2>2. CASE loc[r].phase = "exploring"
    <3>1. EffectivePhase' = "planning" /\ run'.cycle = run.cycle /\ UNCHANGED jobs
          /\ BarrierSatisfied("exploration", run.cycle)
      BY <1>3, <2>2 DEF Opens
    <3> QED  BY <3>1 DEF BarrierHolds, BarrierSatisfied, Current, Returned
  <2>3. CASE loc[r].phase = "implementing"
    <3>1. EffectivePhase' = "reviewing" /\ run'.cycle = run.cycle /\ UNCHANGED jobs
          /\ BarrierSatisfied("implementation", run.cycle) /\ EffectivePhase = "implementing"
      BY <1>3, <2>3 DEF Opens
    <3> QED  BY <2>1, <3>1 DEF BarrierHolds, BarrierSatisfied, Current, Returned, Roles
  <2> QED  BY <1>3, <2>2, <2>3 DEF Opens
<1>4. ASSUME EffectivePhase' \notin {"planning", "implementing", "reviewing"} PROVE BarrierHolds'
  BY <1>4 DEF BarrierHolds
<1>5. ASSUME Complete \/ Cancel PROVE EffectivePhase' \notin {"planning", "implementing", "reviewing"}
  <2>1. run'.phase \in Terminal  BY <1>5 DEF Complete, Cancel, Shape, RunRecord, Terminal
  <2> QED  BY <2>1 DEF EffectivePhase, Terminal
<1>6. CASE ~\E c \in caps, role \in Roles : Delegate(c, role)
  <2>1. ASSUME NEW r \in Relays, WorkspaceCreated(r) PROVE BarrierHolds'
    <3>1. run'.phase = "binding_root"  BY <2>1 DEF WorkspaceCreated, Shape, RunRecord
    <3> QED  BY <1>4, <3>1 DEF EffectivePhase
  <2>2. CASE Blocks
    <3>1. EffectivePhase' = EffectivePhase /\ run'.cycle = run.cycle
      BY <2>2 DEF Blocks, EffectivePhase, Shape, RunRecord, Runnable, Working
    <3> QED  BY <1>1, <1>6, <3>1
  <2>3. CASE UNCHANGED run  BY <1>1, <1>6, <2>3 DEF EffectivePhase
  <2>4. ASSUME NEW r \in Relays, BindRoot(r), ~Blocks PROVE BarrierHolds'
    <3> DEFINE thing == [kind |-> "bind-root", job |-> 0]
    <3>1. thing \in Thing /\ thing.kind \notin {"failed", "job"}  BY DEF Thing, BlockKinds
    <3>2. CASE run.blocks < MaxBlocks /\ run' = Block(thing, "terminal")
      <4> HIDE DEF thing
      <4> QED  BY <2>3, <2>4, <3>1, <3>2, BlockBlocks
    <3>3. CASE run' = [run EXCEPT !.phase = "pending_root"]
      <4>1. run'.phase = "pending_root"  BY <3>3 DEF Shape, RunRecord
      <4> QED  BY <1>4, <4>1 DEF EffectivePhase
    <3> QED  BY <2>4, <3>2, <3>3 DEF BindRoot
  <2>5. ASSUME NEW r \in Relays, ActivateRoot(r) PROVE BarrierHolds'
    <3>1. CASE run.phase = "pending_root"
      <4>1. run'.phase = "exploring"  BY <2>5, <3>1 DEF ActivateRoot, Shape, RunRecord
      <4> QED  BY <1>4, <4>1 DEF EffectivePhase
    <3> QED  BY <2>3, <2>5, <3>1 DEF ActivateRoot
  <2>6. ASSUME NEW r \in Relays, IssueAuthorization(r) PROVE BarrierHolds'
    BY <2>3, <2>6 DEF IssueAuthorization
  <2>7. ASSUME NEW r \in Relays, AdvanceBarrier(r) PROVE BarrierHolds'
    BY <1>3, <2>2, <2>3, <2>7, Opened
  <2> QED  BY <1>1, <1>4, <1>5, <1>6, <2>1, <2>2, <2>4, <2>5, <2>6, <2>7, CourseKept DEF Moves
<1> QED  BY <1>2, <1>6

\* The barriers hold for every number of helpers, relays and deaths: a phase
\* opens when the helpers it rests on are delivered, and no later step, retry
\* or late result takes that away (machine.ts, job-results.ts).
THEOREM BarriersHold == Spec => []BarrierHolds
<1>1. Init => BarrierHolds
  <2>1. Init => EffectivePhase \in RootPhases  BY NewRun DEF EffectivePhase, RootPhases
  <2> QED  BY <2>1 DEF BarrierHolds, RootPhases
<1>2. Base /\ BarrierHolds /\ [Next]_vars => BarrierHolds'  BY KeepsBarrier
<1> QED  BY <1>1, <1>2, BaseHolds, PTL DEF Spec

-----------------------------------------------------------------------------
(* The last Baton of a phase carries the grant of the next. *)

LEMMA KeepsLastCarriesGrant == ASSUME Base, LastCarriesGrant, [Next]_vars PROVE LastCarriesGrant'
<1> USE MoreJobs, JobStaysItself DEF Base
<1>1. \A j \in DOMAIN jobs : DesignatedFinal(j)' => DesignatedFinal(j)
  BY DEF DesignatedFinal, Peers, Current
<1>2. ASSUME NEW i \in DOMAIN jobs'
      PROVE  \E j \in DOMAIN jobs' :
                /\ jobs'[j].role = jobs'[i].role /\ jobs'[j].cycle = jobs'[i].cycle
                /\ DesignatedFinal(j)'
  <2>1. CASE Len(jobs') = Len(jobs)
    <3>1. i \in DOMAIN jobs  BY <2>1
    <3>2. PICK j \in Current(jobs[i].role, jobs[i].cycle) : DesignatedFinal(j)
      BY <3>1 DEF LastCarriesGrant
    <3>3. j \in DOMAIN jobs' /\ jobs'[j].role = jobs'[i].role /\ jobs'[j].cycle = jobs'[i].cycle
      BY <3>1, <3>2 DEF Current
    <3>4. DesignatedFinal(j)'  BY <2>1, <3>2 DEF DesignatedFinal, Peers, Current
    <3> QED  BY <3>3, <3>4
  <2>2. CASE Len(jobs') # Len(jobs)
    <3>0. PICK n \in Nat : n = Len(jobs')  OBVIOUS
    <3>1. n = Len(jobs) + 1 /\ n \in DOMAIN jobs'  BY <2>2, <3>0, WhoDelegates, Delegated
    <3>2. CASE jobs'[i].role = jobs'[n].role /\ jobs'[i].cycle = jobs'[n].cycle
      <4>1. \A h \in DOMAIN jobs' : h <= n  BY <3>0
      <4>2. DesignatedFinal(n)'  BY <4>1 DEF DesignatedFinal, Peers, Current
      <4> QED  BY <3>1, <3>2, <4>2
    <3>3. CASE ~(jobs'[i].role = jobs'[n].role /\ jobs'[i].cycle = jobs'[n].cycle)
      <4>1. i \in DOMAIN jobs  BY <3>0, <3>1, <3>3
      <4>2. PICK j \in Current(jobs[i].role, jobs[i].cycle) : DesignatedFinal(j)
        BY <4>1 DEF LastCarriesGrant
      <4>3. j \in DOMAIN jobs /\ jobs'[j].role = jobs'[i].role /\ jobs'[j].cycle = jobs'[i].cycle
        BY <4>1, <4>2 DEF Current
      <4>4. ASSUME NEW h \in DOMAIN jobs', jobs'[h].role = jobs'[j].role, jobs'[h].cycle = jobs'[j].cycle
            PROVE  h <= j
        <5>1. h # n /\ h \in DOMAIN jobs  BY <3>0, <3>1, <3>3, <4>3, <4>4
        <5> QED  BY <4>2, <4>3, <4>4, <5>1 DEF DesignatedFinal, Peers, Current
      <4>5. DesignatedFinal(j)'  BY <4>4 DEF DesignatedFinal, Peers, Current
      <4> QED  BY <4>3, <4>5
    <3> QED  BY <3>2, <3>3
  <2> QED  BY <2>1, <2>2
<1>3. ASSUME NEW j \in DOMAIN jobs', jobs'[j].baton # "none", DesignatedFinal(j)'
      PROVE  jobs'[j].grant >= 0
  <2>1. j \in DOMAIN jobs  BY <1>3 DEF Ordered
  <2>2. DesignatedFinal(j)  BY <1>1, <1>3, <2>1
  <2>3. jobs[j] \in Job /\ Moved(jobs[j], jobs'[j])  BY <2>1
  <2>4. CASE jobs[j].baton # "none"
    <3>1. jobs[j].grant >= 0  BY <2>1, <2>2, <2>4 DEF LastCarriesGrant
    <3>2. jobs'[j].grant = jobs[j].grant  BY <2>3, <2>4 DEF Moved, Job
    <3> QED  BY <3>1, <3>2
  <2>5. CASE jobs[j].baton = "none"
    <3>1. PICK r \in Relays : PrepareBaton(r) /\ loc[r].job = j
      BY <1>3, <2>1, <2>5, Movers DEF Decides
    <3>2. loc[r].grant >= 0  BY <2>2, <3>1 DEF PrepareBaton, LastCarriesGrant
    <3>3. jobs'[j] = [jobs[j] EXCEPT !.baton = "prepared", !.grant = loc[r].grant]
      BY <2>1, <3>1 DEF PrepareBaton, Job, Shape
    <3>4. jobs'[j].grant = loc[r].grant  BY <2>3, <3>3 DEF Job
    <3> QED  BY <3>2, <3>4
  <2> QED  BY <2>4, <2>5
<1>4. ASSUME NEW r \in Relays, loc'[r].at = "baton", DesignatedFinal(loc[r].job)'
      PROVE  loc'[r].grant >= 0
  <2>1. CASE loc'[r] = loc[r]
    <3>1. loc[r].job \in DOMAIN jobs  BY <1>4, <2>1 DEF NotesFit
    <3>2. DesignatedFinal(loc[r].job)
      <4> DEFINE j == loc[r].job
      <4>1. ASSUME NEW h \in DOMAIN jobs, jobs[h].role = jobs[j].role, jobs[h].cycle = jobs[j].cycle
            PROVE  h <= j
        BY <1>4, <2>1, <3>1, <4>1 DEF DesignatedFinal, Peers, Current
      <4> QED  BY <4>1 DEF DesignatedFinal, Peers, Current
    <3> QED  BY <1>4, <2>1, <3>2 DEF LastCarriesGrant
  <2>2. CASE TakeUp(r)
    <3>1. TakesUp(r, loc'[r])  BY <2>2, NoteTaken
    <3>2. loc'[r].job \in DOMAIN jobs
          /\ loc'[r].grant = IF DesignatedFinal(loc'[r].job) THEN loc[r].revision + 1 ELSE -1
      BY <1>4, <3>1 DEF TakesUp
    <3>3. loc[r].revision \in Nat  BY DEF Shape, Note
    <3>4. DesignatedFinal(loc'[r].job)
      <4> DEFINE j == loc'[r].job
      <4>1. ASSUME NEW h \in DOMAIN jobs, jobs[h].role = jobs[j].role, jobs[h].cycle = jobs[j].cycle
            PROVE  h <= j
        BY <1>4, <3>2, <4>1 DEF DesignatedFinal, Peers, Current
      <4> QED  BY <4>1 DEF DesignatedFinal, Peers, Current
    <3> QED  BY <3>2, <3>3, <3>4
  <2> QED  BY <1>4, <2>1, <2>2, NotesMove, SnapshotIs DEF Idle
<1>5. \A i \in DOMAIN jobs' : \E j \in Current(jobs[i].role, jobs[i].cycle)' : DesignatedFinal(j)'
  BY <1>2 DEF Current
<1> QED  BY <1>3, <1>4, <1>5 DEF LastCarriesGrant

\* A satisfied barrier has a Baton that grants the next phase, whichever relay
\* decided it and however long it held the decision (job-results.ts).
THEOREM FinalBatonsCarryGrants == Spec => []FinalBatonCarriesGrant
<1>1. Init => LastCarriesGrant
  <2> SUFFICES ASSUME Init PROVE LastCarriesGrant  OBVIOUS
  <2>1. loc = [r \in Relays |-> Idle]  BY DEF Init
  <2> QED
    BY <2>1, NewRun DEF LastCarriesGrant, Current, DesignatedFinal, Peers, Idle
<1>2. Base /\ LastCarriesGrant /\ [Next]_vars => LastCarriesGrant'  BY KeepsLastCarriesGrant
<1>3. Base /\ LastCarriesGrant => FinalBatonCarriesGrant
  <2> SUFFICES ASSUME LastCarriesGrant, NEW role \in Roles, NEW cycle, BarrierSatisfied(role, cycle)
               PROVE  \E j \in Current(role, cycle) : jobs[j].grant >= 0
    BY DEF FinalBatonCarriesGrant
  <2>1. PICK i \in Current(role, cycle) : TRUE  BY DEF BarrierSatisfied
  <2>2. i \in DOMAIN jobs /\ jobs[i].role = role /\ jobs[i].cycle = cycle  BY <2>1 DEF Current
  <2>3. PICK j \in Current(role, cycle) : DesignatedFinal(j)  BY <2>2 DEF LastCarriesGrant
  <2>4. j \in DOMAIN jobs /\ jobs[j].baton # "none"
    BY <2>3 DEF BarrierSatisfied, Returned, Current
  <2> QED  BY <2>3, <2>4 DEF LastCarriesGrant
<1> QED  BY <1>1, <1>2, <1>3, BaseHolds, PTL DEF Spec

-----------------------------------------------------------------------------
(* Capabilities *)

\* What is acted on stays acted on.
LEMMA AcceptedStays == ASSUME [Next]_vars PROVE accepted \subseteq accepted'
<1>1. ASSUME NEW r \in Relays, Advance(r) PROVE accepted \subseteq accepted'
  BY <1>1 DEF Advance, RootCommits, AuthorizationCommits, JobCommits, WorkspaceCreated, BindRoot,
              ActivateRoot, IssueAuthorization, RequeueClaim, ClaimNextJob, BeginJobAttempt,
              TakeSuccess, PrepareBaton, BatonDelivered, AdvanceBarrier
<1>2. ASSUME NEW r \in Relays, TakeUp(r) \/ Wake(r) \/ Sleep(r) \/ Incompatible(r) \/ MishapOf(r)
      PROVE  accepted \subseteq accepted'
  BY <1>2 DEF TakeUp, Wake, Sleep, ClaimRoot, ClaimAuthorization, ClaimJobEffect, Claim, ReadOutcome,
              DecideBaton, Incompatible, MishapOf, EffectFails, ReceiptLost, TakeFailure, LateResult,
              Crash
<1>3. Request \/ UNCHANGED vars => accepted' = accepted
  BY DEF Request, Delegate, Recover, Complete, Cancel, vars
<1> QED  BY <1>1, <1>2, <1>3 DEF Next, MishapOf, Request

\* The row of the capability d once those in live are revoked.
Revoked(d, live) == IF d \in live THEN [d EXCEPT !.state = "revoked"] ELSE d

LEMMA RevokedIs ==
    ASSUME Shape, NEW live \in SUBSET LiveCaps
    PROVE  /\ Revoke(live) = {Revoked(d, live) : d \in caps}
           /\ \A d \in caps :
                 /\ Revoked(d, live).phase = d.phase /\ Revoked(d, live).with = d.with
                 /\ Revoked(d, live).state = "live" => d.state = "live" /\ d \notin live /\ Revoked(d, live) = d
                 /\ d.state = "consumed" => Revoked(d, live) = d
BY DEF Revoke, Revoked, LiveCaps, Shape, Grant

\* What the jobs were bought with stays theirs.
LEMMA BoughtOnceStays ==
    ASSUME Base, BoughtOnce, [Next]_vars, Len(jobs') = Len(jobs)
    PROVE  BoughtOnce'
<1>1. /\ DOMAIN jobs' = DOMAIN jobs /\ 1 \in DOMAIN jobs
      /\ \A j \in DOMAIN jobs : jobs'[j].by = jobs[j].by
  BY MoreJobs, JobStaysItself, JobsAre DEF Base
<1> QED  BY <1>1 DEF BoughtOnce

\* A step that leaves the capabilities and the run's course alone.
LEMMA SameCaps ==
    ASSUME Base, CapsFit, [Next]_vars, caps' = caps, EffectivePhase' = EffectivePhase,
           run'.cycle = run.cycle, run'.revision = run.revision,
           ~\E c \in caps, role \in Roles : Delegate(c, role),
           ~\E r \in Relays : IssueAuthorization(r)
    PROVE  CapsFit'
<1> USE MoreJobs, JobStaysItself DEF Base, CapsFit
<1>1. Len(jobs') = Len(jobs) /\ DOMAIN jobs' = DOMAIN jobs  BY WhoDelegates
<1>2. /\ auth'.state \in {"prepared", "sent"} => auth.state \in {"prepared", "sent"}
      /\ auth.state = "issued" => auth'.state = "issued"
  <2>1. ASSUME NEW r \in Relays, AuthorizationCommits(r), loc[r].job = Len(jobs)
        PROVE  auth.state = "prepared"
    BY <2>1 DEF AuthorizationCommits, EffectsFit
  <2> QED  BY <2>1, AuthMoves
<1>3. CapsCurrent'  BY DEF CapsCurrent
<1>4. OneLive' /\ Named'  BY DEF OneLive, Named
<1>5. Earned'  BY <1>1, <1>2, AcceptedStays DEF Earned
<1>6. OnItsWay'  BY <1>2 DEF OnItsWay
<1>7. Bought'  BY <1>1 DEF Bought
<1>8. BoughtOnce'  BY <1>1, BoughtOnceStays
<1> QED  BY <1>3, <1>4, <1>5, <1>6, <1>7, <1>8

\* The root's first capability, and the one of a rotation.
LEMMA IssuedCaps ==
    ASSUME Base, CapsFit, [Next]_vars, NEW r \in Relays,
           \/ ActivateRoot(r) /\ run.phase = "pending_root"
           \/ IssueAuthorization(r)
    PROVE  CapsFit'
<1> USE MoreJobs, JobStaysItself DEF Base, CapsFit
<1>1. PICK new \in caps' :
        /\ caps' = caps \cup {new} /\ new.state = "live" /\ new.phase = "exploring"
        /\ EffectivePhase' = "exploring" /\ new.cycle = run'.cycle /\ new.revision = run'.revision
        /\ \A c \in caps : c.state # "live" /\ ~(c.phase = "exploring" /\ c.with = new.with)
        /\ new.with <= Len(jobs) /\ (new.with = Len(jobs) => auth'.state = "issued")
        /\ auth'.state \notin {"prepared", "sent"}
        /\ auth.state = "issued" => auth'.state = "issued"
        /\ Len(jobs') = Len(jobs)
  <2>1. CASE ActivateRoot(r) /\ run.phase = "pending_root"
    <3> DEFINE new == Issued("exploring", 0, 0, 0)
    <3>1. /\ Len(jobs) = 1 /\ caps = {} /\ auth.state = "none" /\ run.cycle = 0 /\ run.revision = 0
      BY <2>1 DEF RootFirst, EffectivePhase, RootPhases
    <3>2. /\ run' = [run EXCEPT !.phase = "exploring"] /\ caps' = caps \cup {new} /\ auth' = auth
          /\ Len(jobs') = Len(jobs)
      BY <2>1 DEF ActivateRoot, Shape
    <3>3. run'.phase = "exploring" /\ run'.cycle = 0 /\ run'.revision = 0
      BY <3>1, <3>2 DEF Shape, RunRecord
    <3>4. /\ new.state = "live" /\ new.phase = "exploring" /\ new.cycle = 0 /\ new.revision = 0
          /\ new.with = 0
      BY DEF Issued
    <3> HIDE DEF new
    <3> QED  BY <3>1, <3>2, <3>3, <3>4 DEF EffectivePhase
  <2>2. CASE IssueAuthorization(r)
    <3> DEFINE new == Issued("exploring", run.cycle, run.revision, Len(jobs))
    <3>1. /\ auth.state = "sent" /\ auth'.state = "issued" /\ run.phase = "exploring"
          /\ caps' = caps \cup {new} /\ UNCHANGED <<run, jobs>>
      BY <2>2 DEF IssueAuthorization, Shape
    <3>2. EffectivePhase = "exploring" /\ EffectivePhase' = "exploring"  BY <3>1 DEF EffectivePhase
    <3>3. /\ new.state = "live" /\ new.phase = "exploring" /\ new.cycle = run.cycle
          /\ new.revision = run.revision /\ new.with = Len(jobs)
      BY DEF Issued
    <3> HIDE DEF new
    <3>4. \A c \in caps : c.state # "live" /\ ~(c.phase = "exploring" /\ c.with = new.with)
      BY <3>1, <3>2, <3>3 DEF OnItsWay, Earned
    <3> QED  BY <3>1, <3>2, <3>3, <3>4
  <2> QED  BY <2>1, <2>2
<1>2. CapsCurrent' /\ OneLive' /\ Named'  BY <1>1 DEF CapsCurrent, OneLive, Named
<1>3. Earned'  BY <1>1, AcceptedStays DEF Earned
<1>4. OnItsWay'  BY <1>1 DEF OnItsWay
<1>5. Bought'  BY <1>1 DEF Bought
<1>6. BoughtOnce'  BY <1>1, BoughtOnceStays
<1> QED  BY <1>2, <1>3, <1>4, <1>5, <1>6

\* The next phase opens with a capability of its own.
LEMMA OpenedCaps ==
    ASSUME Base, CapsFit, [Next]_vars, NEW r \in Relays, NEW j \in DOMAIN jobs, Opens(r, j)
    PROVE  CapsFit'
<1> USE DEF Base, CapsFit
<1> DEFINE live == {c \in LiveCaps : c.phase = run.phase}
<1>1. PICK role \in Roles, next \in {"planning", "reviewing"} :
        /\ (next = "planning") = (role = "exploration")
        /\ EffectivePhase = run.phase /\ EffectivePhase' = next
        /\ run'.cycle = run.cycle /\ run'.revision = jobs[j].grant
        /\ <<role, j>> \notin accepted /\ accepted' = accepted \cup {<<role, j>>}
        /\ caps' = Revoke(live) \cup {Issued(next, run.cycle, jobs[j].grant, j)}
        /\ UNCHANGED <<jobs, auth>>
  BY DEF Opens, Roles
<1> DEFINE new == Issued(next, run.cycle, jobs[j].grant, j)
<1>2. /\ new.state = "live" /\ new.phase = next /\ new.cycle = run.cycle
      /\ new.revision = jobs[j].grant /\ new.with = j
  BY DEF Issued
<1> HIDE DEF new
<1>3. live \in SUBSET LiveCaps /\ \A c \in caps : c.state = "live" => c \in live
  BY <1>1 DEF LiveCaps, CapsCurrent
<1>4. /\ caps' = {Revoked(d, live) : d \in caps} \cup {new}
      /\ \A d \in caps :
            /\ Revoked(d, live).phase = d.phase /\ Revoked(d, live).with = d.with
            /\ Revoked(d, live).state # "live"
            /\ d.state = "consumed" => Revoked(d, live) = d
  <2>1. caps' = Revoke(live) \cup {new}  BY <1>1 DEF new
  <2> HIDE DEF live
  <2> QED  BY <1>3, <2>1, RevokedIs
<1> HIDE DEF live
<1>5. CapsCurrent' /\ OneLive'  BY <1>1, <1>2, <1>4 DEF CapsCurrent, OneLive
<1>6. Named'
  <2>1. \A d \in caps : ~(d.phase = next /\ d.with = j)  BY <1>1 DEF Earned, Roles
  <2> QED  BY <1>2, <1>4, <2>1 DEF Named
<1>7. Earned'
  <2>1. ASSUME NEW c \in caps'
        PROVE  /\ c.phase = "planning" => <<"exploration", c.with>> \in accepted'
               /\ c.phase = "reviewing" => <<"implementation", c.with>> \in accepted'
               /\ c.phase = "exploring" => c.with <= Len(jobs')
               /\ c.phase = "exploring" /\ c.with = Len(jobs') => auth'.state = "issued"
    <3>1. CASE c = new
      <4>1. <<role, c.with>> \in accepted' /\ c.phase = next  BY <1>1, <1>2, <3>1
      <4> QED  BY <1>1, <4>1 DEF Roles
    <3>2. CASE c # new
      <4>1. PICK d \in caps : c.phase = d.phase /\ c.with = d.with  BY <1>4, <3>2
      <4> QED  BY <1>1, <4>1 DEF Earned
    <3> QED  BY <3>1, <3>2
  <2> QED  BY <2>1 DEF Earned
<1>8. OnItsWay'  BY <1>1 DEF OnItsWay
<1>9. Bought'
  <2>1. \A c \in caps : c.state = "consumed" => c \in caps'  BY <1>4
  <2> QED  BY <1>1, <2>1 DEF Bought
<1>10. BoughtOnce'  BY <1>1 DEF BoughtOnce
<1> QED  BY <1>5, <1>6, <1>7, <1>8, <1>9, <1>10

\* A delegation spends the one live capability.
LEMMA DelegatedCaps ==
    ASSUME Base, CapsFit, [Next]_vars, NEW c \in caps, NEW role \in Roles, Delegate(c, role)
    PROVE  CapsFit'
<1> USE MoreJobs DEF Base, CapsFit
<1> DEFINE spent(d) == CASE d = c -> [c EXCEPT !.state = "consumed"]
                         [] d # c /\ d.state = "live" /\ d.phase = run.phase -> [d EXCEPT !.state = "revoked"]
                         [] OTHER -> d
<1>1. caps' = {spent(d) : d \in caps} /\ c.state = "live" /\ accepted' = accepted
  BY DEF Delegate, DelegationAllowed
<1>2. c \in Grant /\ \A d \in caps : d.state = "live" => d = c  BY <1>1 DEF OneLive, Shape
<1>3. ASSUME NEW d \in caps
      PROVE  /\ spent(d).phase = d.phase /\ spent(d).with = d.with /\ spent(d).state # "live"
             /\ d # c => spent(d) = d
             /\ spent(c).state = "consumed"
  <2>1. CASE d = c  BY <1>1, <1>2, <2>1 DEF Grant
  <2>2. CASE d # c
    <3>1. d.state # "live"  BY <1>2, <2>2
    <3> QED  BY <1>2, <2>2, <3>1 DEF Grant
  <2> QED  BY <2>1, <2>2
<1> HIDE DEF spent
<1> DEFINE n == Len(jobs) + 1
<1>4. /\ DOMAIN jobs' = 1..n /\ Len(jobs') = n /\ \A j \in DOMAIN jobs : jobs'[j] = jobs[j]
      /\ jobs'[n].by = <<c.phase, c.with>> /\ n \notin DOMAIN jobs
      /\ \A j \in DOMAIN jobs' : j # n => j \in DOMAIN jobs
  BY Delegated
<1>5. CapsCurrent' /\ OneLive'  BY <1>1, <1>3 DEF CapsCurrent, OneLive
<1>6. Named'  BY <1>1, <1>3 DEF Named
<1>7. Earned'
  <2>1. \A d \in caps : d.phase = "exploring" => d.with <= Len(jobs) /\ d.with \in Nat
    BY DEF Earned, Shape, Grant
  <2>2. \A d \in caps : d.phase = "exploring" => d.with <= n /\ d.with # n  BY <2>1
  <2>3. ASSUME NEW e \in caps'
        PROVE  /\ e.phase = "planning" => <<"exploration", e.with>> \in accepted'
               /\ e.phase = "reviewing" => <<"implementation", e.with>> \in accepted'
               /\ e.phase = "exploring" => e.with <= Len(jobs') /\ e.with # Len(jobs')
    <3>1. PICK d \in caps : e.phase = d.phase /\ e.with = d.with  BY <1>1, <1>3
    <3>2. n = Len(jobs') /\ accepted' = accepted  BY <1>1, <1>4
    <3> QED  BY <2>2, <3>1, <3>2 DEF Earned
  <2> QED  BY <2>3 DEF Earned
<1>8. OnItsWay'  BY <1>1, <1>3 DEF OnItsWay
<1>9. \A j \in DOMAIN jobs : jobs[j].by = <<"none", 0>> \/
          \E d \in caps : d # c /\ jobs[j].by = <<d.phase, d.with>> /\ d.state = "consumed"
  BY <1>1 DEF Bought
<1>10. Bought'
  <2>1. ASSUME NEW j \in DOMAIN jobs'
        PROVE  \/ jobs'[j].by = <<"none", 0>>
               \/ \E d \in caps' : jobs'[j].by = <<d.phase, d.with>> /\ d.state = "consumed"
    <3>1. CASE j = n
      <4>1. spent(c) \in caps' /\ spent(c).phase = c.phase /\ spent(c).with = c.with
            /\ spent(c).state = "consumed"
        BY <1>1, <1>3
      <4> QED  BY <1>4, <3>1, <4>1
    <3>2. CASE j # n
      <4>1. j \in DOMAIN jobs /\ jobs'[j] = jobs[j]  BY <1>4, <3>2
      <4>2. \A d \in caps : d # c => d \in caps'  BY <1>1, <1>3
      <4> QED  BY <1>9, <4>1, <4>2
    <3> QED  BY <3>1, <3>2
  <2> QED  BY <2>1 DEF Bought
<1>11. BoughtOnce'
  <2>1. \A j \in DOMAIN jobs : jobs[j].by # <<c.phase, c.with>>
    <3>1. c.phase # "none"  BY <1>2 DEF Grant
    <3>2. \A d \in caps : d # c => ~(d.phase = c.phase /\ d.with = c.with)  BY DEF Named
    <3> QED  BY <1>9, <3>1, <3>2
  <2>2. \A i, j \in DOMAIN jobs' : i # j => jobs'[i].by # jobs'[j].by
    BY <1>4, <2>1 DEF BoughtOnce
  <2>3. 1 \in DOMAIN jobs  BY JobsAre
  <2> QED  BY <1>4, <2>2, <2>3 DEF BoughtOnce
<1> QED  BY <1>5, <1>6, <1>7, <1>8, <1>10, <1>11

\* A run that is over has no live capability.
LEMMA OverCaps == ASSUME Base, CapsFit, [Next]_vars, Complete \/ Cancel PROVE CapsFit'
<1> USE MoreJobs, JobStaysItself DEF Base, CapsFit
<1>1. /\ caps' = Revoke(LiveCaps) /\ run'.phase \in Terminal /\ UNCHANGED <<auth, accepted>>
      /\ Len(jobs') = Len(jobs)
  <2>1. ~\E c \in caps, role \in Roles : Delegate(c, role)
    <3>1. Complete \/ Cancel => run'.phase \in Terminal
      BY DEF Complete, Cancel, Shape, RunRecord, Terminal
    <3>2. ASSUME NEW c \in caps, NEW role \in Roles, Delegate(c, role) PROVE run'.phase \notin Terminal
      BY <3>2, Delegated DEF Roles, Terminal
    <3> QED  BY <3>1, <3>2
  <2>2. Len(jobs') = Len(jobs)  BY <2>1, WhoDelegates
  <2>3. run'.phase \in Terminal  BY DEF Complete, Cancel, Shape, RunRecord, Terminal
  <2> QED  BY <2>2, <2>3 DEF Complete, Cancel
<1>2. EffectivePhase' \in Terminal  BY <1>1 DEF EffectivePhase, Terminal
<1>3. /\ caps' = {Revoked(d, LiveCaps) : d \in caps}
      /\ \A d \in caps :
            /\ Revoked(d, LiveCaps).phase = d.phase /\ Revoked(d, LiveCaps).with = d.with
            /\ Revoked(d, LiveCaps).state # "live"
            /\ d.state = "consumed" => Revoked(d, LiveCaps) = d
  <2>1. LiveCaps \in SUBSET LiveCaps /\ \A d \in caps : d.state = "live" => d \in LiveCaps
    BY DEF LiveCaps
  <2> QED  BY <1>1, <2>1, RevokedIs
<1>4. CapsCurrent' /\ OneLive'  BY <1>3 DEF CapsCurrent, OneLive
<1>5. Named' /\ Earned'  BY <1>1, <1>3 DEF Named, Earned
<1>6. OnItsWay'  BY <1>2 DEF OnItsWay, Terminal
<1>7. Bought'
  <2>1. \A c \in caps : c.state = "consumed" => c \in caps'  BY <1>3
  <2> QED  BY <1>1, <2>1 DEF Bought
<1>8. BoughtOnce'  BY <1>1, BoughtOnceStays
<1> QED  BY <1>4, <1>5, <1>6, <1>7, <1>8

\* Before the root is in the run there are none.
LEMMA RootCaps ==
    ASSUME Base, CapsFit, [Next]_vars, EffectivePhase' \in RootPhases
    PROVE  CapsFit'
<1> USE MoreJobs, JobStaysItself DEF Base, CapsFit
<1>1. Len(jobs') = 1 /\ caps' = {}  BY KeepsRootFirst DEF RootFirst
<1>2. Len(jobs) = 1 /\ DOMAIN jobs' = {1} /\ DOMAIN jobs = {1}  BY <1>1, JobsAre
<1>3. jobs'[1].by = <<"none", 0>>  BY <1>2 DEF BoughtOnce
<1>4. CapsCurrent' /\ OneLive' /\ Named' /\ Earned' /\ OnItsWay'
  BY <1>1 DEF CapsCurrent, OneLive, Named, Earned, OnItsWay
<1>5. Bought'  BY <1>2, <1>3 DEF Bought
<1>6. BoughtOnce'  BY <1>2, <1>3 DEF BoughtOnce
<1> QED  BY <1>4, <1>5, <1>6

LEMMA KeepsCapsFit == ASSUME Base, CapsFit, [Next]_vars PROVE CapsFit'
<1>1. ASSUME NEW c \in caps, NEW role \in Roles, Delegate(c, role) PROVE CapsFit'
  BY <1>1, DelegatedCaps
<1>2. ASSUME NEW r \in Relays, IssueAuthorization(r) PROVE CapsFit'
  BY <1>2, IssuedCaps
<1>3. CASE /\ ~\E c \in caps, role \in Roles : Delegate(c, role)
           /\ ~\E r \in Relays : IssueAuthorization(r)
  <2>1. ASSUME EffectivePhase' = EffectivePhase, run'.cycle = run.cycle, run'.revision = run.revision,
               caps' = caps
        PROVE  CapsFit'
    BY <1>3, <2>1, SameCaps
  <2>2. CASE UNCHANGED <<run, caps>>  BY <2>1, <2>2 DEF EffectivePhase
  <2>3. CASE Blocks /\ UNCHANGED caps
    <3>1. EffectivePhase' = EffectivePhase /\ run'.cycle = run.cycle /\ run'.revision = run.revision
      BY <2>3 DEF Base, Blocks, EffectivePhase, Shape, RunRecord, Runnable, Working
    <3> QED  BY <2>1, <2>3, <3>1
  <2>4. ASSUME NEW r \in Relays, WorkspaceCreated(r) PROVE CapsFit'
    <3>1. run'.phase = "binding_root"  BY <2>4 DEF Base, WorkspaceCreated, Shape, RunRecord
    <3> QED  BY <3>1, RootCaps DEF EffectivePhase, RootPhases
  <2>5. ASSUME NEW r \in Relays, BindRoot(r) PROVE CapsFit'
    <3> DEFINE thing == [kind |-> "bind-root", job |-> 0]
    <3>1. thing \in Thing /\ thing.kind \notin {"failed", "job"}  BY DEF Thing, BlockKinds
    <3>2. CASE run.blocks < MaxBlocks /\ run' = Block(thing, "terminal") /\ UNCHANGED caps
      <4> HIDE DEF thing
      <4> QED  BY <2>2, <2>3, <3>1, <3>2, BlockBlocks DEF Base
    <3>3. CASE run' = [run EXCEPT !.phase = "pending_root"]
      <4>1. run'.phase = "pending_root"  BY <3>3 DEF Base, Shape, RunRecord
      <4> QED  BY <4>1, RootCaps DEF EffectivePhase, RootPhases
    <3> QED  BY <2>5, <3>2, <3>3 DEF BindRoot
  <2>6. ASSUME NEW r \in Relays, ActivateRoot(r) PROVE CapsFit'
    <3>1. CASE run.phase = "pending_root"  BY <2>6, <3>1, IssuedCaps
    <3>2. CASE run.phase # "pending_root"  BY <2>2, <2>6, <3>2 DEF ActivateRoot
    <3> QED  BY <3>1, <3>2
  <2>7. ASSUME NEW r \in Relays, AdvanceBarrier(r) PROVE CapsFit'
    BY <2>2, <2>3, <2>7, Opened, OpenedCaps
  <2> QED  BY <1>3, <2>1, <2>4, <2>5, <2>6, <2>7, OverCaps, CourseKept DEF Moves
<1> QED  BY <1>1, <1>2, <1>3

LEMMA InitCapsFit == ASSUME Init PROVE CapsFit
<1>1. caps = {} /\ Len(jobs) = 1 /\ DOMAIN jobs = {1} /\ jobs[1].by = <<"none", 0>>
  BY NewRun DEF Init
<1> QED
  BY <1>1 DEF CapsFit, CapsCurrent, OneLive, Named, Earned, OnItsWay, Bought, BoughtOnce

\* The capabilities of a run, in every reachable state: each is known by what it
\* was issued with, and what is spent is the job's that was bought with it
\* (persistence/capabilities.ts).
THEOREM CapabilitiesFit == Spec => []CapsFit
<1>1. Base /\ CapsFit /\ [Next]_vars => CapsFit'  BY KeepsCapsFit
<1> QED  BY <1>1, InitCapsFit, BaseHolds, PTL DEF Spec

\* At most one capability is live, it is the one of the run's coordinates, and
\* one capability buys one job: for any number of relays, deaths, helpers and
\* rotations (persistence/capabilities.ts, workflow/machine.ts).
THEOREM LiveCapabilitiesAreCurrent == Spec => []LiveCapabilityIsCurrent
<1>1. CapsFit => LiveCapabilityIsCurrent
  <2> SUFFICES ASSUME CapsFit PROVE LiveCapabilityIsCurrent  OBVIOUS
  <2> USE DEF CapsFit
  <2>1. Cardinality(LiveCaps) <= 1
    <3>1. CASE LiveCaps = {}  BY <3>1, FS_EmptySet
    <3>2. CASE LiveCaps # {}
      <4>1. PICK c \in LiveCaps : TRUE  BY <3>2
      <4>2. LiveCaps = {c}  BY <4>1 DEF OneLive, LiveCaps
      <4> QED  BY <4>2, FS_Singleton
    <3> QED  BY <3>1, <3>2
  <2>2. \A c \in LiveCaps :
          c.phase = EffectivePhase /\ c.cycle = run.cycle /\ c.revision = run.revision
    BY DEF CapsCurrent, LiveCaps
  <2>3. \A i, j \in DOMAIN jobs : i # j => jobs[i].by # jobs[j].by  BY DEF BoughtOnce
  <2> QED  BY <2>1, <2>2, <2>3 DEF LiveCapabilityIsCurrent
<1> QED  BY <1>1, CapabilitiesFit, PTL

-----------------------------------------------------------------------------
(* The phone's requests *)

Lifted == {k \in RetryKeys : retried[k] # 0}

\* The requests that lifted a block are finitely many; a run whose course is
\* not over was blocked once for each, and once more while it is blocked.
RequestsFit ==
    /\ IsFiniteSet(Lifted)
    /\ RequestsLiftOneBlockEach

LEMMA WhoRetries ==
    ASSUME [Next]_vars, ~\E k \in RetryKeys : Recover(k)
    PROVE  retried' = retried
<1>1. ASSUME NEW r \in Relays, Advance(r) PROVE retried' = retried
  BY <1>1 DEF Advance, RootCommits, AuthorizationCommits, JobCommits, WorkspaceCreated, BindRoot,
              ActivateRoot, IssueAuthorization, RequeueClaim, ClaimNextJob, BeginJobAttempt,
              TakeSuccess, PrepareBaton, BatonDelivered, AdvanceBarrier
<1>2. ASSUME NEW r \in Relays, TakeUp(r) \/ Wake(r) \/ Sleep(r) \/ Incompatible(r) \/ MishapOf(r)
      PROVE  retried' = retried
  BY <1>2 DEF TakeUp, Wake, Sleep, ClaimRoot, ClaimAuthorization, ClaimJobEffect, Claim, ReadOutcome,
              DecideBaton, Incompatible, MishapOf, EffectFails, ReceiptLost, TakeFailure, LateResult,
              Crash
<1>3. ASSUME NEW c \in caps, NEW role \in Roles, Delegate(c, role) PROVE retried' = retried
  BY <1>3 DEF Delegate
<1>4. Complete \/ Cancel \/ UNCHANGED vars => retried' = retried
  BY DEF Complete, Cancel, vars
<1> QED  BY <1>1, <1>2, <1>3, <1>4 DEF Next, MishapOf

\* A run that is over does not change.
LEMMA TerminalStays == ASSUME Base, [Next]_vars, run.phase \in Terminal PROVE run'.phase \in Terminal
<1> USE DEF Base
<1>1. ASSUME NEW r \in Relays, ActivateRoot(r) \/ IssueAuthorization(r) \/ AdvanceBarrier(r)
      PROVE  UNCHANGED run
  BY <1>1, Opened DEF ActivateRoot, IssueAuthorization, Opens, Blocks, Terminal, Runnable, Working
<1>2. ASSUME NEW r \in Relays, WorkspaceCreated(r) \/ BindRoot(r) PROVE FALSE
  BY <1>2 DEF WorkspaceCreated, BindRoot, Terminal
<1>3. ASSUME NEW c \in caps, NEW role \in Roles, Delegate(c, role) PROVE FALSE
  BY <1>3 DEF Delegate, DelegationAllowed, Terminal
<1>4. ~Complete /\ ~Cancel  BY DEF Complete, Cancel, Terminal
<1> QED  BY <1>1, <1>2, <1>3, <1>4, CourseKept DEF Moves

LEMMA KeepsRequestsFit == ASSUME Base, RequestsFit, [Next]_vars PROVE RequestsFit'
<1> USE DEF Base
<1>1. run \in RunRecord /\ run' \in RunRecord /\ retried \in [RetryKeys -> Nat]
  BY RunShape DEF Shape
<1> DEFINE n == Cardinality(Lifted)
<1>2. n \in Nat /\ IsFiniteSet(Lifted)  BY FS_CardinalityType DEF RequestsFit
<1>3. run.phase \notin Terminal => run.blocks = n + (IF run.phase = "blocked" THEN 1 ELSE 0)
  BY DEF RequestsFit, RequestsLiftOneBlockEach, Lifted
<1>4. ASSUME NEW k \in RetryKeys, Recover(k) PROVE RequestsFit'
  <2>1. /\ retried[k] = 0 /\ run.phase = "blocked" /\ retried' = [retried EXCEPT ![k] = run.blocks]
        /\ run' = [run EXCEPT !.phase = run.why.resume, !.why = Free]
    BY <1>4 DEF Recover, Unblock, NotAnsweredBefore
  <2>2. run.blocks = n + 1  BY <1>3, <2>1 DEF Terminal
  <2>3. run'.blocks = run.blocks /\ run'.phase \in Runnable
    BY <1>1, <2>1 DEF RunRecord, BlockFits
  <2>4. Lifted' = Lifted \cup {k} /\ k \notin Lifted
    BY <1>1, <1>2, <2>1, <2>2 DEF Lifted
  <2>5. IsFiniteSet(Lifted') /\ Cardinality(Lifted') = n + 1
    BY <1>2, <2>4, FS_AddElement
  <2>6. run'.phase # "blocked"  BY <2>3 DEF Runnable, Working
  <2>7. run'.blocks = Cardinality(Lifted') + (IF run'.phase = "blocked" THEN 1 ELSE 0)
    BY <1>2, <2>2, <2>3, <2>5, <2>6
  <2> QED  BY <2>5, <2>7 DEF RequestsFit, RequestsLiftOneBlockEach, Lifted
<1>5. CASE ~\E k \in RetryKeys : Recover(k)
  <2>1. Lifted' = Lifted  BY <1>5, WhoRetries DEF Lifted
  <2>2. ASSUME run'.phase \notin Terminal
        PROVE  run'.blocks = n + (IF run'.phase = "blocked" THEN 1 ELSE 0)
    <3>1. run.phase \notin Terminal  BY <2>2, TerminalStays
    <3>2. CASE UNCHANGED run  BY <1>3, <3>1, <3>2
    <3>3. CASE Blocks
      <4>1. run.phase # "blocked" /\ run'.phase = "blocked" /\ run'.blocks = run.blocks + 1
        BY <1>1, <3>3 DEF Blocks, RunRecord, Runnable, Working
      <4> QED  BY <1>1, <1>2, <1>3, <3>1, <4>1 DEF RunRecord
    <3>4. CASE Steady  BY <1>3, <3>1, <3>4 DEF Steady
    <3>5. ~Cancel
      <4>1. Cancel => run'.phase = "cancelled"  BY <1>1 DEF Cancel, RunRecord
      <4> QED  BY <2>2, <4>1 DEF Terminal
    <3> QED  BY <1>5, <3>2, <3>3, <3>4, <3>5, BlockMoves
  <2> QED  BY <1>2, <2>1, <2>2 DEF RequestsFit, RequestsLiftOneBlockEach, Lifted
<1> QED  BY <1>4, <1>5

\* Each block is lifted by one request and each request lifts one block, for
\* any number of requests (persistence/idempotency.ts).
THEOREM RequestsLiftTheirBlocks == Spec => []RequestsLiftOneBlockEach
<1>1. Init => RequestsFit
  <2> SUFFICES ASSUME Init PROVE RequestsFit  OBVIOUS
  <2>1. Lifted = {}  BY DEF Init, Lifted
  <2>2. IsFiniteSet(Lifted) /\ Cardinality(Lifted) = 0  BY <2>1, FS_EmptySet
  <2>3. run.blocks = 0 /\ run.phase # "blocked"  BY NewRun
  <2> QED  BY <2>2, <2>3 DEF RequestsFit, RequestsLiftOneBlockEach, Lifted
<1>2. Base /\ RequestsFit /\ [Next]_vars => RequestsFit'  BY KeepsRequestsFit
<1>3. RequestsFit => RequestsLiftOneBlockEach  BY DEF RequestsFit
<1> QED  BY <1>1, <1>2, <1>3, BaseHolds, PTL DEF Spec

-----------------------------------------------------------------------------
(* The numbers of the rows stay within what the bounds allow. *)

\* Every part of the invariant, together.
Within == Base /\ CapsFit /\ WithinBounds

LEMMA BoundsOnly ==
    ASSUME Base
    PROVE  /\ MaxBlocks \in Nat /\ MaxCrashes \in Nat /\ MaxJobs \in Nat
           /\ run.blocks \in Nat /\ run.cycle \in Nat /\ run.revision \in Nat
           /\ Len(jobs) \in Nat /\ Len(jobs) >= 1
BY WorkflowAssumption, JobsAre DEF Base, Shape, RunRecord

LEMMA MoreBlocks ==
    ASSUME Base, [Next]_vars
    PROVE  /\ run'.blocks \in Nat /\ run.blocks <= run'.blocks
           /\ run.blocks <= MaxBlocks => run'.blocks <= MaxBlocks
           /\ Blocks => run'.blocks = run.blocks + 1
<1>1. run \in RunRecord /\ run' \in RunRecord  BY RunShape DEF Base, Shape
<1>2. Blocks => run'.blocks = run.blocks + 1 /\ run.blocks < MaxBlocks
  BY <1>1 DEF Blocks, RunRecord
<1>3. Cancel \/ (\E k \in RetryKeys : Recover(k)) => run'.blocks = run.blocks
  BY <1>1 DEF Cancel, Recover, Unblock, RunRecord
<1>4. Steady \/ UNCHANGED run => run'.blocks = run.blocks  BY DEF Steady
<1> QED  BY <1>1, <1>2, <1>3, <1>4, BoundsOnly, BlockMoves DEF RunRecord

\* A job that fails is the one whose outcome was read; only the request for it
\* starts it again.
LEMMA WhoFails ==
    ASSUME Base, [Next]_vars, NEW j \in DOMAIN jobs, jobs[j].state = "running",
           jobs'[j].state = "failed"
    PROVE  run.blocks < MaxBlocks
<1> USE DEF Base
<1>1. ASSUME NEW r \in Relays, ActivateRoot(r), run.phase = "pending_root" PROVE FALSE
  BY <1>1, JobsAre DEF RootFirst, EffectivePhase, RootPhases
<1>2. ASSUME NEW r \in Relays, TakeSuccess(r), loc[r].job = j PROVE FALSE
  <2>1. jobs'[j] = [jobs[j] EXCEPT !.state = "returning", !.result = loc[r].attempt]
    BY <1>2, JobsAre DEF TakeSuccess, Job, Shape
  <2> QED  BY <2>1, JobsAre DEF Job
<1>3. ASSUME Cancel PROVE FALSE
  <2>1. jobs'[j] = [jobs[j] EXCEPT !.state = "cancelled"]  BY <1>3, JobsAre DEF Cancel, JobEnds
  <2> QED  BY <2>1, JobsAre DEF Job
<1>4. ASSUME NEW r \in Relays, TakeFailure(r) PROVE run.blocks < MaxBlocks
  BY <1>4 DEF TakeFailure
<1> QED  BY <1>1, <1>2, <1>3, <1>4, WhoMovesOn

LEMMA ReopensTheBlocked ==
    ASSUME Base, NEW k \in RetryKeys, Recover(k), NEW j \in DOMAIN jobs, Reopens(jobs[j], jobs'[j])
    PROVE  run.why.blocked.kind = "failed" /\ run.why.blocked.job = j
<1> USE JobsAre DEF Base
<1> DEFINE thing == run.why.blocked
<1>1. CASE thing.kind = "failed"
  <2>1. thing.job # j => jobs'[j] = jobs[j]  BY <1>1 DEF Recover, BlockFits
  <2> QED  BY <1>1, <2>1 DEF Reopens
<1>2. CASE thing.kind = "job"
  <2>1. jobs' = [jobs EXCEPT ![thing.job].broken = FALSE]  BY <1>2 DEF Recover
  <2>2. jobs'[j].state = jobs[j].state  BY <2>1 DEF Job
  <2> QED  BY <2>2 DEF Reopens
<1>3. CASE thing.kind \notin {"failed", "job"}  BY <1>3 DEF Recover, Reopens
<1> QED  BY <1>1, <1>2, <1>3

\* What a job's failures and its block have to do with each other.
LEMMA KeepsFailures ==
    ASSUME Within, [Next]_vars, NEW j \in DOMAIN jobs
    PROVE  /\ jobs'[j].failed <= MaxBlocks
           /\ jobs'[j].state \notin {"failed", "cancelled"} => jobs'[j].failed <= run'.blocks
           /\ run'.why.blocked.kind = "failed" /\ run'.why.blocked.job = j =>
                 jobs'[j].failed <= run'.blocks
<1> USE BoundsOnly, MoreBlocks, MoreJobs DEF Within, Base, WithinBounds
<1>1. /\ jobs[j] \in Job /\ jobs'[j] \in Job /\ Moved(jobs[j], jobs'[j]) /\ JobFits(jobs[j])
      /\ JobWithin(jobs[j])
  BY DEF JobsFit, JobsWithin
<1>2. run \in RunRecord /\ run' \in RunRecord  BY RunShape DEF Shape
<1>3. CASE jobs[j].state = "running" /\ jobs'[j].state = "failed"
  <2>1. run.blocks < MaxBlocks  BY <1>3, WhoFails
  <2>2. jobs'[j].failed = jobs[j].failed + 1
    BY <1>1, <1>3, PerformedStages DEF Moved, JobFits, Job, JobEnds
  <2>3. jobs[j].failed <= run.blocks /\ jobs[j].failed \in Nat  BY <1>1, <1>3 DEF JobWithin, Job
  <2>4. jobs'[j].failed <= MaxBlocks  BY <2>1, <2>2, <2>3
  <2>5. ASSUME run'.why.blocked.kind = "failed", run'.why.blocked.job = j
        PROVE  jobs'[j].failed <= run'.blocks
    <3>1. CASE Blocks  BY <2>2, <2>3, <3>1
    <3>2. ASSUME UNCHANGED run \/ Steady PROVE FALSE
      <4>1. run'.why = run.why  BY <3>2 DEF Steady
      <4>2. jobs[j].state = "failed"  BY <2>5, <4>1 DEF BlockFits
      <4> QED  BY <1>3, <4>2
    <3>3. ASSUME Cancel \/ \E k \in RetryKeys : Recover(k) PROVE FALSE
      <4>1. run'.why = Free  BY <1>2, <3>3 DEF Cancel, Recover, Unblock, RunRecord
      <4> QED  BY <2>5, <4>1 DEF Free, Nothing
    <3> QED  BY <3>1, <3>2, <3>3, BlockMoves
  <2> QED  BY <1>3, <2>4, <2>5
<1>4. CASE ~(jobs[j].state = "running" /\ jobs'[j].state = "failed")
  <2>1. jobs'[j].failed = jobs[j].failed
    BY <1>1, <1>4, PerformedStages DEF Moved, Job, JobEnds
  <2>2. jobs[j].failed \in Nat /\ jobs[j].failed <= MaxBlocks  BY <1>1 DEF JobWithin, Job
  <2>3. ASSUME jobs'[j].state \notin {"failed", "cancelled"} PROVE jobs'[j].failed <= run'.blocks
    <3>1. jobs[j].state # "cancelled"  BY <1>1, <2>3, PerformedStages DEF Moved, Job, JobEnds
    <3>2. CASE jobs[j].state = "failed"
      <4>1. Reopens(jobs[j], jobs'[j])  BY <2>3, <3>2 DEF Reopens
      <4>2. PICK k \in RetryKeys : Recover(k)  BY <4>1, Movers
      <4>3. run.why.blocked.kind = "failed" /\ run.why.blocked.job = j
        BY <4>1, <4>2, ReopensTheBlocked
      <4>4. jobs[j].failed <= run.blocks  BY <4>3 DEF JobsWithin
      <4> QED  BY <2>1, <2>2, <4>4
    <3>3. CASE jobs[j].state # "failed"
      <4>1. jobs[j].failed <= run.blocks  BY <1>1, <3>1, <3>3 DEF JobWithin
      <4> QED  BY <2>1, <2>2, <4>1
    <3> QED  BY <3>2, <3>3
  <2>4. ASSUME run'.why.blocked.kind = "failed", run'.why.blocked.job = j
        PROVE  jobs'[j].failed <= run'.blocks
    <3>1. CASE UNCHANGED run \/ Steady
      <4>1. run'.why = run.why  BY <3>1 DEF Steady
      <4>2. jobs[j].failed <= run.blocks  BY <2>4, <4>1 DEF JobsWithin
      <4> QED  BY <2>1, <2>2, <4>2
    <3>2. ASSUME Blocks PROVE FALSE
      <4>1. PICK thing \in Thing, class \in {"deterministic", "ambiguous", "terminal"} :
              /\ run' = [run EXCEPT !.phase = "blocked", !.blocks = @ + 1,
                               !.why = [blocked |-> thing, class |-> class, resume |-> run.phase]]
              /\ thing.kind = "failed" => Fails(thing.job)
        BY <3>2 DEF Blocks
      <4>2. run'.why.blocked = thing  BY <1>2, <4>1 DEF RunRecord
      <4> QED  BY <1>4, <2>4, <4>1, <4>2 DEF Fails
    <3>3. ASSUME Cancel \/ \E k \in RetryKeys : Recover(k) PROVE FALSE
      <4>1. run'.why = Free  BY <1>2, <3>3 DEF Cancel, Recover, Unblock, RunRecord
      <4> QED  BY <2>4, <4>1 DEF Free, Nothing
    <3> QED  BY <3>1, <3>2, <3>3, BlockMoves
  <2> QED  BY <2>1, <2>2, <2>3, <2>4
<1> QED  BY <1>3, <1>4

\* Where a job's result comes from.
LEMMA MovedResult ==
    ASSUME NEW a \in Job, NEW b, Moved(a, b)
    PROVE  \/ b.result = a.result \/ b.result = a.attempt
           \/ \E r \in Relays : b.result = loc[r].attempt
<1>1. CASE \E r \in Relays : \E n \in {loc[r].attempt, a.attempt} : b = [a EXCEPT !.result = n]
  BY <1>1 DEF Job
<1>2. CASE a.state = "running" /\ b = [a EXCEPT !.state = "returning", !.result = a.attempt]
  BY <1>2 DEF Job
<1>3. CASE /\ ~\E r \in Relays : \E n \in {loc[r].attempt, a.attempt} : b = [a EXCEPT !.result = n]
           /\ ~(a.state = "running" /\ b = [a EXCEPT !.state = "returning", !.result = a.attempt])
  <2>1. b.result = a.result  BY <1>3, PerformedStages DEF Moved, Job
  <2> QED  BY <2>1
<1> QED  BY <1>1, <1>2, <1>3

LEMMA KeepsJobsWithin == ASSUME Within, [Next]_vars PROVE JobsWithin'
<1> USE BoundsOnly, MoreBlocks, MoreJobs DEF Within, Base, WithinBounds
<1>1. ASSUME NEW j \in DOMAIN jobs
      PROVE  JobWithin(jobs[j])'
  <2>1. /\ jobs[j] \in Job /\ jobs'[j] \in Job /\ Moved(jobs[j], jobs'[j]) /\ JobFits(jobs[j])
        /\ JobWithin(jobs[j])
    BY DEF JobsFit, JobsWithin
  <2>2. jobs'[j].cycle < Len(jobs') /\ jobs'[j].by[2] <= Len(jobs')
    <3>1. jobs[j].cycle \in Nat /\ jobs[j].by[2] \in Nat  BY <2>1 DEF Job
    <3>2. jobs[j].cycle < Len(jobs) /\ jobs[j].by[2] <= Len(jobs)  BY <2>1 DEF JobWithin
    <3> QED  BY <3>1, <3>2, JobStaysItself
  <2>3. jobs'[j].grant \in -1..(2 * Len(jobs') - 1)
    <3>1. jobs'[j].grant = jobs[j].grant \/ \E r \in Relays : jobs'[j].grant = loc[r].grant
      BY <2>1, PerformedStages DEF Moved, Job, JobEnds
    <3>2. /\ jobs[j].grant \in -1..(2 * Len(jobs) - 1)
          /\ \A r \in Relays : loc[r].grant \in -1..(2 * Len(jobs) - 1)
      BY <2>1 DEF JobWithin, NotesWithin
    <3> QED  BY <3>1, <3>2
  <2>4. jobs'[j].result <= MaxBlocks + 1
    <3>1. \/ jobs'[j].result = jobs[j].result \/ jobs'[j].result = jobs[j].attempt
          \/ \E r \in Relays : jobs'[j].result = loc[r].attempt
      BY <2>1, MovedResult
    <3>2. jobs[j].attempt <= MaxBlocks + 1
      <4>1. /\ jobs[j].attempt \in {jobs[j].failed, jobs[j].failed + 1}
            /\ jobs[j].failed <= MaxBlocks /\ jobs[j].failed \in Nat
        BY <2>1 DEF JobFits, JobWithin, Job
      <4> QED  BY <4>1, WorkflowAssumption
    <3>3. jobs[j].result <= MaxBlocks + 1 /\ \A r \in Relays : loc[r].attempt <= MaxBlocks + 1
      BY <2>1 DEF JobWithin, NotesWithin
    <3> QED  BY <3>1, <3>2, <3>3
  <2> QED  BY <2>2, <2>3, <2>4, KeepsFailures DEF JobWithin
<1>2. ASSUME NEW j \in DOMAIN jobs' \ DOMAIN jobs PROVE JobWithin(jobs[j])'
  <2>1. Len(jobs') # Len(jobs)  BY <1>2
  <2>2. PICK c \in caps, role \in Roles : Delegate(c, role)  BY <2>1, WhoDelegates
  <2>3. /\ j = Len(jobs) + 1 /\ Len(jobs') = Len(jobs) + 1
    BY <1>2, <2>2, Delegated
  <2>4. /\ jobs'[j].cycle = run'.cycle /\ jobs'[j].by[2] = c.with /\ jobs'[j].grant = -1
        /\ jobs'[j].failed = 0 /\ jobs'[j].result = 0
    <3>1. /\ jobs'[j].cycle = run'.cycle /\ jobs'[j].by = <<c.phase, c.with>> /\ jobs'[j].grant = -1
          /\ jobs'[j].failed = 0 /\ jobs'[j].result = 0
      BY <2>2, <2>3, Delegated
    <3> QED  BY <3>1
  <2>5. run'.cycle <= run.cycle + 1  BY <2>2, Delegated DEF Roles
  <2>6. run'.cycle \in Nat  BY RunShape DEF RunRecord
  <2>7. c.with <= Len(jobs) /\ c.with \in Nat  BY DEF Shape, Grant
  <2>8. jobs'[j].cycle < Len(jobs') /\ jobs'[j].by[2] <= Len(jobs')
    BY <2>3, <2>4, <2>5, <2>6, <2>7
  <2>9. jobs'[j].grant \in -1..(2 * Len(jobs') - 1)  BY <2>3, <2>4
  <2>10. /\ jobs'[j].result <= MaxBlocks + 1 /\ jobs'[j].failed <= MaxBlocks
         /\ jobs'[j].failed <= run'.blocks
    BY <2>4, RunShape, WorkflowAssumption DEF RunRecord
  <2> QED  BY <2>8, <2>9, <2>10 DEF JobWithin
<1>3. ASSUME NEW j \in DOMAIN jobs', run'.why.blocked.kind = "failed", run'.why.blocked.job = j
      PROVE  jobs'[j].failed <= run'.blocks
  <2>1. CASE j \in DOMAIN jobs  BY <1>3, <2>1, KeepsFailures
  <2>2. CASE j \notin DOMAIN jobs  BY <2>2 DEF Ordered
  <2> QED  BY <2>1, <2>2
<1>4. \A j \in DOMAIN jobs' : JobWithin(jobs[j])'  BY <1>1, <1>2
<1> QED  BY <1>3, <1>4 DEF JobsWithin

LEMMA KeepsNotesWithin == ASSUME Within, [Next]_vars PROVE NotesWithin'
<1> USE BoundsOnly, MoreJobs DEF Within, Base, WithinBounds
<1>1. ASSUME NEW phase PROVE RevisionBound(phase) <= RevisionBound(phase)' /\ RevisionBound(phase) \in Int
  BY DEF RevisionBound
<1>2. ASSUME NEW r \in Relays
      PROVE  /\ loc'[r].attempt <= MaxBlocks + 1 /\ loc'[r].grant \in -1..(2 * Len(jobs') - 1)
             /\ loc'[r].at = "woken" => loc'[r].revision <= RevisionBound(loc[r].phase)'
  <2>1. CASE loc'[r] = loc[r]
    <3>1. /\ loc[r].attempt <= MaxBlocks + 1 /\ loc[r].grant \in -1..(2 * Len(jobs) - 1)
          /\ loc[r].at = "woken" => loc[r].revision <= RevisionBound(loc[r].phase)
          /\ loc[r].revision \in Nat
      BY DEF NotesWithin, Shape, Note
    <3>2. loc[r].at = "woken" => loc'[r].revision <= RevisionBound(loc[r].phase)'
      BY <2>1, <3>1 DEF RevisionBound
    <3> QED  BY <2>1, <3>1, <3>2
  <2>2. CASE loc'[r] = Idle  BY <2>2 DEF Idle
  <2>3. CASE loc'[r] = Snapshot(run) /\ run.phase \in Runnable
    <3>1. /\ loc'[r].attempt = 0 /\ loc'[r].grant = -1 /\ loc'[r].phase = run.phase
          /\ loc'[r].revision = run.revision
      BY <2>3, SnapshotIs
    <3>2. EffectivePhase = run.phase  BY <2>3 DEF EffectivePhase, Runnable, Working
    <3> QED  BY <3>1, <3>2 DEF RevisionBound
  <2>4. CASE TakeUp(r)
    <3>1. /\ TakesUp(r, loc'[r])
          /\ loc'[r].grant # -1 => loc'[r].at = "baton"
          /\ loc'[r].attempt # 0 => loc'[r].at = "outcome"
          /\ UNCHANGED jobs
      BY <2>4, NoteTaken
    <3>2. loc'[r].attempt <= MaxBlocks + 1
      <4>1. CASE loc'[r].attempt # 0
        <5>1. PICK j \in DOMAIN jobs : loc'[r].attempt = jobs[j].attempt
          BY <3>1, <4>1 DEF TakesUp
        <5>2. /\ jobs[j].attempt \in {jobs[j].failed, jobs[j].failed + 1}
              /\ jobs[j].failed <= MaxBlocks /\ jobs[j].failed \in Nat
          BY DEF JobsFit, JobFits, JobsWithin, JobWithin, Job
        <5> QED  BY <5>1, <5>2, WorkflowAssumption
      <4>2. CASE loc'[r].attempt = 0  BY <4>2, WorkflowAssumption
      <4> QED  BY <4>1, <4>2
    <3>3. loc'[r].grant \in -1..(2 * Len(jobs') - 1)
      <4>1. CASE loc'[r].grant # -1
        <5>1. /\ loc'[r].grant = loc[r].revision + 1 /\ loc[r].at = "woken"
              /\ loc[r].phase \in {"exploring", "implementing"}
          BY <3>1, <4>1 DEF TakesUp, Woken
        <5>2. loc[r].revision <= 2 * Len(jobs) - 2 /\ loc[r].revision \in Nat
          BY <5>1 DEF NotesWithin, RevisionBound, Shape, Note
        <5> QED  BY <3>1, <5>1, <5>2
      <4>2. CASE loc'[r].grant = -1  BY <3>1, <4>2 DEF Shape
      <4> QED  BY <4>1, <4>2
    <3>4. loc'[r].at # "woken"  BY <3>1 DEF TakesUp
    <3> QED  BY <3>2, <3>3, <3>4
  <2> QED  BY <2>1, <2>2, <2>3, <2>4, NotesMove
<1> QED  BY <1>2 DEF NotesWithin

\* The phases a run passes through before and while it explores or implements
\* have the lower bound.
LEMMA BoundsByPhase ==
    ASSUME Base, NEW phase
    PROVE  /\ RevisionBound(phase) \in {2 * Len(jobs) - 2, 2 * Len(jobs) - 1}
           /\ phase \in RootPhases \cup {"exploring", "implementing"} =>
                 RevisionBound(phase) = 2 * Len(jobs) - 2
           /\ phase \notin RootPhases \cup {"exploring", "implementing"} =>
                 RevisionBound(phase) = 2 * Len(jobs) - 1
BY DEF RevisionBound

LEMMA KeepsCourseWithin ==
    ASSUME Within, [Next]_vars
    PROVE  /\ Len(jobs') <= MaxJobs
           /\ run'.cycle < Len(jobs') /\ run'.revision <= RevisionBound(EffectivePhase)'
<1> USE BoundsOnly, MoreJobs DEF Within, Base, WithinBounds
<1>1. run \in RunRecord /\ run' \in RunRecord  BY RunShape DEF Shape
<1>2. run'.cycle \in Nat /\ run'.revision \in Nat  BY <1>1 DEF RunRecord
<1> DEFINE low == RootPhases \cup {"exploring", "implementing"}
<1>3. /\ EffectivePhase \in low => run.revision <= 2 * Len(jobs) - 2
      /\ run.revision <= 2 * Len(jobs) - 1
  BY BoundsByPhase
<1>4. ASSUME NEW c \in caps, NEW role \in Roles, Delegate(c, role)
      PROVE  /\ Len(jobs') <= MaxJobs
             /\ run'.cycle < Len(jobs') /\ run'.revision <= 2 * Len(jobs') - 2
  <2>1. Len(jobs) < MaxJobs /\ run.phase \in {"exploring", "planning", "reviewing"}
    BY <1>4 DEF Delegate, DelegationAllowed
  <2>2. /\ Len(jobs') = Len(jobs) + 1 /\ EffectivePhase = run.phase
        /\ \/ run'.cycle = run.cycle /\ run'.revision = run.revision + 1
           \/ run'.cycle = run.cycle + 1 /\ run'.revision = 0
    BY <1>4, Delegated DEF Roles
  <2> QED  BY <1>3, <2>1, <2>2
<1>5. CASE \E c \in caps, role \in Roles : Delegate(c, role)
  <2>1. EffectivePhase' \in {"exploring", "implementing"}
    BY <1>5, Delegated DEF Roles
  <2> QED  BY <1>4, <1>5, <2>1 DEF RevisionBound
<1>6. CASE ~\E c \in caps, role \in Roles : Delegate(c, role)
  <2>1. Len(jobs') = Len(jobs)  BY <1>6, WhoDelegates
  <2>2. ASSUME run'.cycle = run.cycle,
               \/ EffectivePhase' = EffectivePhase /\ run'.revision = run.revision
               \/ EffectivePhase \in low /\ run'.revision = run.revision
               \/ EffectivePhase' \notin low /\ run'.revision <= 2 * Len(jobs) - 1
        PROVE  run'.cycle < Len(jobs') /\ run'.revision <= RevisionBound(EffectivePhase)'
    BY <1>2, <1>3, <2>1, <2>2 DEF RevisionBound
  <2>3. ASSUME NEW r \in Relays, WorkspaceCreated(r) \/ ActivateRoot(r) \/ IssueAuthorization(r)
        PROVE  run'.cycle < Len(jobs') /\ run'.revision <= RevisionBound(EffectivePhase)'
    <3>1. CASE UNCHANGED run  BY <2>2, <3>1 DEF EffectivePhase
    <3>2. CASE /\ run.phase \in RootPhases
               /\ run' = [run EXCEPT !.phase = "binding_root"] \/ run' = [run EXCEPT !.phase = "exploring"]
      <4>1. run'.cycle = run.cycle /\ run'.revision = run.revision  BY <1>1, <3>2 DEF RunRecord
      <4>2. EffectivePhase \in low  BY <3>2 DEF EffectivePhase, RootPhases
      <4> QED  BY <2>2, <4>1, <4>2
    <3> QED
      BY <2>3, <3>1, <3>2 DEF WorkspaceCreated, ActivateRoot, IssueAuthorization, RootPhases
  <2>4. ASSUME NEW r \in Relays, BindRoot(r)
        PROVE  run'.cycle < Len(jobs') /\ run'.revision <= RevisionBound(EffectivePhase)'
    <3>1. run.phase = "binding_root"  BY <2>4 DEF BindRoot
    <3>2. EffectivePhase \in low  BY <3>1 DEF EffectivePhase, RootPhases
    <3>3. run'.cycle = run.cycle /\ run'.revision = run.revision
      BY <1>1, <2>4 DEF BindRoot, Block, RunRecord
    <3> QED  BY <2>2, <3>2, <3>3
  <2>5. ASSUME NEW r \in Relays, AdvanceBarrier(r)
        PROVE  run'.cycle < Len(jobs') /\ run'.revision <= RevisionBound(EffectivePhase)'
    <3>1. CASE UNCHANGED run  BY <2>2, <3>1 DEF EffectivePhase
    <3>2. CASE Blocks
      <4>1. EffectivePhase' = EffectivePhase /\ run'.cycle = run.cycle /\ run'.revision = run.revision
        BY <1>1, <3>2 DEF Blocks, EffectivePhase, RunRecord, Runnable, Working
      <4> QED  BY <2>2, <4>1
    <3>3. ASSUME NEW j \in DOMAIN jobs, Opens(r, j)
          PROVE  run'.cycle < Len(jobs') /\ run'.revision <= RevisionBound(EffectivePhase)'
      <4>1. /\ run'.cycle = run.cycle /\ run'.revision = jobs[j].grant
            /\ EffectivePhase' \in {"planning", "reviewing"}
        BY <3>3 DEF Opens
      <4>2. EffectivePhase' \notin low  BY <4>1 DEF RootPhases
      <4>3. run'.revision <= 2 * Len(jobs) - 1  BY <4>1 DEF JobsWithin, JobWithin
      <4> QED  BY <2>2, <4>1, <4>2, <4>3
    <3> QED  BY <2>5, <3>1, <3>2, <3>3, Opened
  <2>6. ASSUME Complete \/ Cancel
        PROVE  run'.cycle < Len(jobs') /\ run'.revision <= RevisionBound(EffectivePhase)'
    <3>1. run'.cycle = run.cycle /\ run'.revision = run.revision /\ run'.phase \in Terminal
      BY <1>1, <2>6 DEF Complete, Cancel, RunRecord, Terminal
    <3>2. EffectivePhase' \notin low  BY <3>1 DEF EffectivePhase, Terminal, RootPhases
    <3> QED  BY <1>3, <2>2, <3>1, <3>2
  <2> QED  BY <1>6, <2>1, <2>2, <2>3, <2>4, <2>5, <2>6, CourseKept DEF Moves
<1> QED  BY <1>5, <1>6

CapWithin(c) == c.cycle < Len(jobs) /\ c.revision < 2 * Len(jobs) /\ c.with <= Len(jobs)

LEMMA KeepsCapsWithin == ASSUME Within, [Next]_vars PROVE \A c \in caps' : CapWithin(c)'
<1> USE BoundsOnly, MoreJobs DEF Within, Base, WithinBounds
<1>1. ASSUME NEW c \in Grant, c.cycle < Len(jobs), c.revision < 2 * Len(jobs), c.with <= Len(jobs)
      PROVE  CapWithin(c)'
  <2>1. c.cycle \in Nat /\ c.revision \in Nat /\ c.with \in Nat  BY DEF Grant
  <2> QED  BY <1>1, <2>1 DEF CapWithin
<1>2. ASSUME NEW c \in Grant, NEW d \in caps,
             c.cycle = d.cycle /\ c.revision = d.revision /\ c.with = d.with
      PROVE  CapWithin(c)'
  BY <1>1, <1>2
<1>3. caps' \subseteq Grant /\ caps \subseteq Grant  BY CapsShape DEF Shape
<1>4. ASSUME NEW live \in SUBSET LiveCaps, NEW c \in Revoke(live)
      PROVE  \E d \in caps : c.cycle = d.cycle /\ c.revision = d.revision /\ c.with = d.with
  BY <1>3, <1>4 DEF Revoke, Grant
<1>5. CASE caps' = caps  BY <1>2, <1>3, <1>5
<1>6. ASSUME NEW r \in Relays, ActivateRoot(r), run.phase = "pending_root"
      PROVE  \A c \in caps' : CapWithin(c)'
  <2> DEFINE new == Issued("exploring", 0, 0, 0)
  <2>1. caps' = caps \cup {new}  BY <1>6 DEF ActivateRoot
  <2>2. new.cycle = 0 /\ new.revision = 0 /\ new.with = 0  BY DEF Issued
  <2> HIDE DEF new
  <2> QED  BY <1>1, <1>2, <1>3, <2>1, <2>2
<1>7. ASSUME NEW r \in Relays, IssueAuthorization(r)
      PROVE  \A c \in caps' : CapWithin(c)'
  <2> DEFINE new == Issued("exploring", run.cycle, run.revision, Len(jobs))
  <2>1. caps' = caps \cup {new}  BY <1>7 DEF IssueAuthorization
  <2>2. new.cycle = run.cycle /\ new.revision = run.revision /\ new.with = Len(jobs)  BY DEF Issued
  <2> HIDE DEF new
  <2>3. run.revision < 2 * Len(jobs)  BY BoundsByPhase
  <2> QED  BY <1>1, <1>2, <1>3, <2>1, <2>2, <2>3
<1>8. ASSUME NEW r \in Relays, NEW j \in DOMAIN jobs, Opens(r, j)
      PROVE  \A c \in caps' : CapWithin(c)'
  <2>1. PICK next : caps' = Revoke({c \in LiveCaps : c.phase = run.phase})
                              \cup {Issued(next, run.cycle, jobs[j].grant, j)}
    BY <1>8 DEF Opens
  <2> DEFINE new == Issued(next, run.cycle, jobs[j].grant, j)
             live == {c \in LiveCaps : c.phase = run.phase}
  <2>2. new.cycle = run.cycle /\ new.revision = jobs[j].grant /\ new.with = j  BY DEF Issued
  <2>3. live \in SUBSET LiveCaps /\ caps' = Revoke(live) \cup {new}  BY <2>1
  <2> HIDE DEF new, live
  <2>4. jobs[j].grant < 2 * Len(jobs)  BY DEF JobsWithin, JobWithin
  <2>5. ASSUME NEW c \in caps' PROVE CapWithin(c)'
    <3>1. CASE c = new  BY <1>1, <1>3, <2>2, <2>4, <3>1
    <3>2. CASE c \in Revoke(live)  BY <1>2, <1>3, <1>4, <2>3, <3>2
    <3> QED  BY <2>3, <3>1, <3>2
  <2> QED  BY <2>5
<1>9. ASSUME NEW c \in caps, NEW role \in Roles, Delegate(c, role)
      PROVE  \A d \in caps' : CapWithin(d)'
  <2>1. \A d \in caps' : \E e \in caps :
          \/ d = [c EXCEPT !.state = "consumed"] /\ e = c
          \/ d = [e EXCEPT !.state = "revoked"] \/ d = e
    BY <1>9 DEF Delegate
  <2>2. \A d \in caps' : \E e \in caps :
          d.cycle = e.cycle /\ d.revision = e.revision /\ d.with = e.with
    BY <1>3, <2>1 DEF Grant
  <2> QED  BY <1>2, <1>3, <2>2
<1>10. ASSUME Complete \/ Cancel PROVE \A c \in caps' : CapWithin(c)'
  <2>1. caps' = Revoke(LiveCaps) /\ LiveCaps \in SUBSET LiveCaps  BY <1>10 DEF Complete, Cancel
  <2> QED  BY <1>2, <1>3, <1>4, <2>1
<1>11. ASSUME NEW r \in Relays, \/ WorkspaceCreated(r) \/ BindRoot(r)
                                \/ ActivateRoot(r) /\ run.phase # "pending_root"
       PROVE  caps' = caps
  BY <1>11 DEF WorkspaceCreated, BindRoot, ActivateRoot
<1> QED  BY <1>5, <1>6, <1>7, <1>8, <1>9, <1>10, <1>11, CourseKept, Opened DEF Moves

\* Requests and barriers are recorded once for a block and a Baton; relays die
\* no more often than the bound says.
LEMMA KeepsRecordsWithin ==
    ASSUME Within, [Next]_vars
    PROVE  /\ crashes' <= MaxCrashes
           /\ \A x \in accepted' : x[2] <= Len(jobs')
           /\ \A k \in RetryKeys : retried'[k] <= MaxBlocks
<1> USE BoundsOnly, MoreJobs DEF Within, Base, WithinBounds
<1>1. crashes' <= MaxCrashes
  <2>1. ASSUME NEW r \in Relays, Advance(r) PROVE crashes' = crashes
    BY <2>1 DEF Advance, RootCommits, AuthorizationCommits, JobCommits, WorkspaceCreated, BindRoot,
                ActivateRoot, IssueAuthorization, RequeueClaim, ClaimNextJob, BeginJobAttempt,
                TakeSuccess, PrepareBaton, BatonDelivered, AdvanceBarrier
  <2>2. ASSUME NEW r \in Relays,
               \/ TakeUp(r) \/ Wake(r) \/ Sleep(r) \/ Incompatible(r)
               \/ EffectFails(r) \/ ReceiptLost(r) \/ TakeFailure(r) \/ LateResult(r)
        PROVE  crashes' = crashes
    BY <2>2 DEF TakeUp, Wake, Sleep, ClaimRoot, ClaimAuthorization, ClaimJobEffect, Claim, ReadOutcome,
                DecideBaton, Incompatible, EffectFails, ReceiptLost, TakeFailure, LateResult
  <2>3. ASSUME NEW r \in Relays, Crash(r) PROVE crashes' <= MaxCrashes
    <3>1. crashes < MaxCrashes /\ crashes' = crashes + 1 /\ crashes \in Nat
      BY <2>3 DEF Crash, Shape
    <3> QED  BY <3>1
  <2>4. (\E c \in caps, role \in Roles : Delegate(c, role)) \/ (\E k \in RetryKeys : Recover(k))
           \/ Complete \/ Cancel \/ UNCHANGED vars => crashes' = crashes
    BY DEF Delegate, Recover, Complete, Cancel, vars
  <2> QED  BY <2>1, <2>2, <2>3, <2>4 DEF Next
<1>2. ASSUME NEW x \in accepted' PROVE x[2] <= Len(jobs')
  <2>1. CASE x \in accepted
    <3>1. x \in {<<"root", 0>>} \cup (Roles \X (Nat \ {0}))  BY <2>1 DEF Shape
    <3>2. x[2] \in Nat /\ x[2] <= Len(jobs)  BY <2>1, <3>1
    <3> QED  BY <3>2
  <2>2. CASE x = <<"root", 0>>  BY <2>2
  <2>3. CASE \E role \in Roles, j \in DOMAIN jobs : x = <<role, j>>  BY <2>3
  <2>4. ASSUME NEW r \in Relays, ActivateRoot(r) PROVE accepted' = accepted \cup {<<"root", 0>>}
    BY <2>4 DEF ActivateRoot
  <2>5. ASSUME NEW r \in Relays, AdvanceBarrier(r), x \notin accepted
        PROVE  \E role \in Roles, j \in DOMAIN jobs : x = <<role, j>>
    BY <2>5 DEF AdvanceBarrier, Roles, Current
  <2>6. ASSUME NEW r \in Relays, Advance(r), ~ActivateRoot(r), ~AdvanceBarrier(r)
        PROVE  accepted' = accepted
    BY <2>6 DEF Advance, RootCommits, AuthorizationCommits, JobCommits, WorkspaceCreated, BindRoot,
                IssueAuthorization, RequeueClaim, ClaimNextJob, BeginJobAttempt,
                TakeSuccess, PrepareBaton, BatonDelivered
  <2>7. ASSUME NEW r \in Relays,
               \/ TakeUp(r) \/ Wake(r) \/ Sleep(r) \/ Incompatible(r)
               \/ EffectFails(r) \/ ReceiptLost(r) \/ TakeFailure(r) \/ LateResult(r) \/ Crash(r)
        PROVE  accepted' = accepted
    BY <2>7 DEF TakeUp, Wake, Sleep, ClaimRoot, ClaimAuthorization, ClaimJobEffect, Claim, ReadOutcome,
                DecideBaton, Incompatible, EffectFails, ReceiptLost, TakeFailure, LateResult, Crash
  <2>8. (\E c \in caps, role \in Roles : Delegate(c, role)) \/ (\E k \in RetryKeys : Recover(k))
           \/ Complete \/ Cancel \/ UNCHANGED vars => accepted' = accepted
    BY DEF Delegate, Recover, Complete, Cancel, vars
  <2> QED  BY <2>1, <2>2, <2>3, <2>4, <2>5, <2>6, <2>7, <2>8 DEF Next
<1>3. ASSUME NEW k \in RetryKeys PROVE retried'[k] <= MaxBlocks
  <2>1. ASSUME NEW i \in RetryKeys, Recover(i) PROVE retried'[k] \in {retried[k], run.blocks}
    BY <2>1 DEF Recover, Shape
  <2> QED  BY <2>1, WhoRetries
<1> QED  BY <1>1, <1>2, <1>3

LEMMA KeepsWithin == ASSUME Within, [Next]_vars PROVE Within'
<1>1. Base' /\ CapsFit'  BY KeepsBase, KeepsCapsFit DEF Within
<1>2. run'.blocks <= MaxBlocks  BY MoreBlocks DEF Within, WithinBounds
<1>3. \A c \in caps' : c.cycle < Len(jobs') /\ c.revision < 2 * Len(jobs') /\ c.with <= Len(jobs')
  BY KeepsCapsWithin DEF CapWithin
<1>4. WithinBounds'
  BY <1>2, <1>3, KeepsCourseWithin, KeepsJobsWithin, KeepsNotesWithin, KeepsRecordsWithin
     DEF WithinBounds
<1> QED  BY <1>1, <1>4 DEF Within

LEMMA InitWithin == Init => Within
<1> SUFFICES ASSUME Init PROVE Within  OBVIOUS
<1>1. Base /\ CapsFit  BY InitBase, InitCapsFit
<1>2. /\ run.cycle = 0 /\ run.revision = 0 /\ run.blocks = 0 /\ run.why = Free
      /\ Len(jobs) = 1 /\ DOMAIN jobs = {1}
      /\ jobs[1].state = "dormant" /\ jobs[1].failed = 0 /\ jobs[1].result = 0
      /\ jobs[1].grant = -1 /\ jobs[1].by[2] = 0 /\ jobs[1].cycle = 0
  <2>1. jobs[1].by = <<"none", 0>>  BY NewRun
  <2> QED  BY <2>1, NewRun
<1>3. MaxJobs \in Nat /\ MaxJobs >= 1 /\ MaxBlocks \in Nat /\ MaxCrashes \in Nat
  BY WorkflowAssumption
<1>4. /\ caps = {} /\ accepted = {} /\ retried = [k \in RetryKeys |-> 0]
      /\ loc = [r \in Relays |-> Idle] /\ crashes = 0
  BY DEF Init
<1>5. JobsWithin
  <2>1. jobs[1].grant \in -1..(2 * Len(jobs) - 1)  BY <1>2
  <2>2. JobWithin(jobs[1])  BY <1>2, <1>3, <2>1 DEF JobWithin
  <2> QED  BY <1>2, <2>2 DEF JobsWithin, Free, Nothing
<1>6. NotesWithin  BY <1>2, <1>3, <1>4 DEF NotesWithin, Idle
<1>7. run.revision <= RevisionBound(EffectivePhase)
  BY <1>2 DEF RevisionBound
<1>8. run.blocks <= MaxBlocks /\ crashes <= MaxCrashes /\ Len(jobs) <= MaxJobs /\ run.cycle < Len(jobs)
  BY <1>2, <1>3, <1>4
<1> QED  BY <1>1, <1>3, <1>4, <1>5, <1>6, <1>7, <1>8 DEF Within, WithinBounds

LEMMA WithinIsTypeOK == Within => TypeOK
<1> SUFFICES ASSUME Within PROVE TypeOK  OBVIOUS
<1> USE BoundsOnly, JobsAre DEF Within, Base
<1>1. run.phase \in Runnable \cup Terminal \cup {"blocked"} /\ run.why.resume \in Runnable \cup {"none"}
  BY DEF Shape, RunRecord, Phases, Why
<1>2. /\ run.cycle \in 0..MaxJobs /\ run.revision \in 0..2 * MaxJobs /\ run.blocks \in 0..MaxBlocks
      /\ Len(jobs) \in 1..MaxJobs
  BY BoundsByPhase DEF WithinBounds
<1>3. ASSUME NEW j \in DOMAIN jobs PROVE jobs[j] \in JobRecord
  <2>1. jobs[j] \in Job /\ JobWithin(jobs[j]) /\ JobFits(jobs[j]) /\ Len(jobs) <= MaxJobs
    BY DEF WithinBounds, JobsWithin, JobsFit
  <2>2. jobs[j].cycle \in 0..MaxJobs /\ jobs[j].grant \in -1..2 * MaxJobs
    <3>1. /\ jobs[j].cycle \in Nat /\ jobs[j].cycle < Len(jobs)
          /\ jobs[j].grant \in -1..(2 * Len(jobs) - 1) /\ Len(jobs) <= MaxJobs
      BY <2>1 DEF Job, JobWithin
    <3> QED  BY <3>1
  <2>3. /\ jobs[j].failed \in 0..MaxBlocks /\ jobs[j].result \in 0..MaxBlocks + 1
        /\ jobs[j].attempt \in 0..MaxBlocks + 1
    <3>1. /\ jobs[j].failed \in Nat /\ jobs[j].result \in Nat /\ jobs[j].attempt \in Nat
          /\ jobs[j].failed <= MaxBlocks /\ jobs[j].result <= MaxBlocks + 1
          /\ jobs[j].attempt \in {jobs[j].failed, jobs[j].failed + 1}
      BY <2>1 DEF Job, JobWithin, JobFits
    <3> QED  BY <3>1
  <2>4. jobs[j].by \in (Working \cup {"none"}) \X (0..MaxJobs)
    <3>1. jobs[j].by \in (Working \cup {"none"}) \X Nat /\ jobs[j].by[2] <= MaxJobs
      BY <2>1 DEF Job, JobWithin
    <3> QED  BY <3>1
  <2> QED  BY <2>1, <2>2, <2>3, <2>4 DEF Job, JobRecord
<1>4. caps \subseteq Capability
  <2>1. ASSUME NEW c \in caps PROVE c \in Capability
    <3>1. c \in Grant /\ c.cycle < Len(jobs) /\ c.revision < 2 * Len(jobs) /\ c.with <= Len(jobs)
      BY DEF WithinBounds, Shape
    <3>2. c.cycle \in 0..MaxJobs /\ c.revision \in 0..2 * MaxJobs /\ c.with \in 0..MaxJobs
      BY <1>2, <3>1 DEF Grant
    <3> QED  BY <3>1, <3>2 DEF Grant, Capability
  <2> QED  BY <2>1
<1>5. accepted \subseteq {<<"root", 0>>} \cup (Roles \X (1..MaxJobs))
  <2>1. ASSUME NEW x \in accepted PROVE x \in {<<"root", 0>>} \cup (Roles \X (1..MaxJobs))
    <3>1. x \in {<<"root", 0>>} \cup (Roles \X (Nat \ {0})) /\ x[2] <= MaxJobs
      BY <1>2 DEF WithinBounds, Shape
    <3>2. CASE x \in Roles \X (Nat \ {0})  BY <3>1, <3>2
    <3> QED  BY <3>1, <3>2
  <2> QED  BY <2>1
<1>6. retried \in [RetryKeys -> 0..MaxBlocks]
  <2>1. retried \in [RetryKeys -> Nat] /\ \A k \in RetryKeys : retried[k] <= MaxBlocks
    BY DEF WithinBounds, Shape
  <2> QED  BY <2>1
<1>7. crashes \in 0..MaxCrashes  BY DEF WithinBounds, Shape
<1>8. \A r \in Relays : loc[r].at \in {"idle", "woken", "effect", "outcome", "baton"}
  BY DEF Shape, Note
<1> QED  BY <1>1, <1>2, <1>3, <1>4, <1>5, <1>6, <1>7, <1>8 DEF TypeOK, Shape, BlockFits

\* The rows and the relays' notes have the shape the code gives them, and their
\* numbers the bounds that the helpers and the blocks of a run set, in every
\* reachable state (persistence/schema.ts, workflow/state.ts).
THEOREM RunsAreWellFormed == Spec => []TypeOK
BY InitWithin, KeepsWithin, WithinIsTypeOK, PTL DEF Spec
=============================================================================
