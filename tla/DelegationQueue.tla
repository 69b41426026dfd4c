---------------------------- MODULE DelegationQueue ----------------------------
(***************************************************************************)
(* The queue of ordinary-chat delegations of one relay                     *)
(* (orchestration/delegation/queue.ts with http/services/delegations.ts):  *)
(* it opens a child chat, configures it, sends the task, waits for the     *)
(* answer and returns it to the parent, one await at a time.               *)
(*                                                                         *)
(* The job files survive a crash, the queue's memory does not.  While      *)
(* walk.at is "list" the producer runs without a break and nothing else of *)
(* the process acts.                                                       *)
(***************************************************************************)
EXTENDS Integers, FiniteSets

CONSTANTS
    Jobs,          \* 1..n: delegations, in order of their creation
    maxAttempts,   \* failures a delegation may spend
    MaxTurns,      \* bound: turns of one child
    MaxLate,       \* bound: prompts of one delivery that stay invisible past the window
    MaxDeaths,     \* bound: crashes of the relay
    MaxLost        \* bound: chats of one delegation from which a failed write takes the id

VARIABLES
    job,        \* the job files
    walk,       \* the producer: where it is, and the list it took
    candidate,  \* completionCandidates, and how often each was read in a row
    child,      \* the child chats: how many were opened, of how many the relay lost
                \* the id before it was saved, what the agent does
    copy,       \* what was typed, per delegation and direction
    deaths

delegationVars == <<job, walk, candidate, child, copy, deaths>>

Ways == {"send", "return"}

\* A tracked delivery: its baseline is saved, Conductor took it over without a
\* trace, or its message id is known.
Deliveries == {"none", "prepared", "accepted", "known"}

NoJob == [status |-> "none", attempts |-> 0, send |-> "none", return |-> "none",
          queued |-> FALSE, outcome |-> 0, code |-> "none"]

Unread == [signature |-> 0, reads |-> 0]

\* seen: copies that appeared within the window and were not removed by hand;
\* late: those that appeared only after it; sight: what a probe finds.
Untyped == [seen |-> 0, late |-> 0, sight |-> "none"]

Resting == [at |-> "idle", d |-> 0, list |-> [d \in Jobs |-> NoJob]]

DelegationInit ==
    /\ job = [d \in Jobs |-> NoJob]
    /\ walk = Resting
    /\ candidate = [d \in Jobs |-> Unread]
    /\ child = [d \in Jobs |-> [opened |-> 0, lost |-> 0, state |-> "idle", turns |-> 0, answers |-> 0]]
    /\ copy = [d \in Jobs |-> [w \in Ways |-> Untyped]]
    /\ deaths = 0

Yielded == walk.at # "list"

\* Nobody looks at the chats of a delegation that is gone.
Watched(d) == Yielded /\ job[d].status # "gone"

Visible(d, w) == copy[d][w].sight \in {"outbox", "message"}

-----------------------------------------------------------------------------
(* Requests, Conductor, crashes *)

\* enqueue persists the job before it answers.
Enqueue(d) ==
    /\ Yielded /\ job[d].status = "none"
    /\ \A e \in Jobs : e < d => job[e].status # "none"
    /\ \E queued \in BOOLEAN :
        job' = [job EXCEPT ![d] = [NoJob EXCEPT !.status = "queued", !.queued = queued]]
    /\ UNCHANGED <<walk, candidate, child, copy, deaths>>

\* The phone dismisses a failed delegation.
Dismiss(d) ==
    /\ Yielded /\ job[d].status = "failed"
    /\ job' = [job EXCEPT ![d] = [NoJob EXCEPT !.status = "gone"]]
    /\ UNCHANGED <<walk, candidate, child, copy, deaths>>

\* A child works and answers, or stops with an error; between two of its turns
\* it looks finished.  Its last turn is not silent.
ChildActs(d) ==
    /\ Watched(d) /\ copy[d]["send"].sight = "message"
    /\ LET c == child[d]
       IN  \/ /\ c.state # "busy" /\ c.turns < MaxTurns
              /\ child' = [child EXCEPT ![d].state = "busy", ![d].turns = @ + 1]
           \/ /\ c.state = "busy"
              /\ \/ child' = [child EXCEPT ![d].state = "idle", ![d].answers = @ + 1]
                 \/ child' = [child EXCEPT ![d].state = "error"]
                 \/ c.turns < MaxTurns /\ child' = [child EXCEPT ![d].state = "idle"]
    /\ UNCHANGED <<job, walk, candidate, copy, deaths>>

\* A copy comes into sight and becomes a message ...
Surfaces(d, w) ==
    /\ Watched(d)
    /\ \/ copy[d][w].sight = "late" /\ copy' = [copy EXCEPT ![d][w].sight = "outbox"]
       \/ copy[d][w].sight = "outbox" /\ copy' = [copy EXCEPT ![d][w].sight = "message"]
    /\ UNCHANGED <<job, walk, candidate, child, deaths>>

\* ... or is removed from Conductor's queue by hand.
Withdrawn(d, w) ==
    /\ Watched(d) /\ copy[d][w].sight = "outbox"
    /\ copy' = [copy EXCEPT ![d][w].sight = "removed",
                            ![d][w].seen = IF @ = 0 THEN 0 ELSE @ - 1]
    /\ UNCHANGED <<job, walk, candidate, child, deaths>>

\* The id of a chat that was just opened is lost with the step that was to save it.
IdIsLost ==
    child' = [d \in Jobs |-> IF walk.at = "opened" /\ walk.d = d
                             THEN [child[d] EXCEPT !.lost = @ + 1] ELSE child[d]]

\* The relay dies; its successor resumes the stores.
Dies ==
    /\ deaths < MaxDeaths /\ deaths' = deaths + 1
    /\ walk' = Resting
    /\ candidate' = [d \in Jobs |-> Unread]
    /\ IdIsLost
    /\ UNCHANGED <<job, copy>>

-----------------------------------------------------------------------------
(* The producer *)

\* wake: stepOne lists the files once and walks what it listed.
WakeQueue ==
    /\ walk.at = "idle"
    /\ \E d \in Jobs : job[d].status \notin {"none", "gone"}
    /\ walk' = [at |-> "list", d |-> 1, list |-> job]
    /\ UNCHANGED <<job, candidate, child, copy, deaths>>

\* stepOne changed something and lists again, or it looks at the next job.
Again == walk' = [at |-> "list", d |-> 1, list |-> job']

Onward ==
    /\ walk' = IF walk.d + 1 \in Jobs THEN [walk EXCEPT !.at = "list", !.d = @ + 1] ELSE Resting
    /\ UNCHANGED job

\* A job is written as it was listed, with the change.
Put(changed) == job' = [job EXCEPT ![walk.d] = changed]

Listed == walk.list[walk.d]

ListedAt(d, status) == walk.at = "list" /\ walk.d = d /\ Listed.status = status

\* Nothing to do, or the retry delay has not passed.
Passes(d) ==
    /\ walk.at = "list" /\ walk.d = d
    /\ \/ Listed.status \in {"none", "gone"}
       \/ Listed.status \notin {"queued", "failed", "returned"} /\ Listed.attempts > 0
    /\ Onward
    /\ UNCHANGED <<candidate, child, copy, deaths>>

StartsOpening(d) ==
    /\ ListedAt(d, "queued")
    /\ Put([Listed EXCEPT !.status = "opening"]) /\ Again
    /\ UNCHANGED <<candidate, child, copy, deaths>>

RemovesReturned(d) ==
    /\ ListedAt(d, "returned")
    /\ Put([NoJob EXCEPT !.status = "gone"]) /\ Again
    /\ UNCHANGED <<candidate, child, copy, deaths>>

Failure(w) == IF w = "send" THEN "send_failed" ELSE "return_failed"

\* A failed delivery is reopened by a receipt that arrives after all; not if there
\* is none, or the look for it or the write throws, which is caught.
Reconciles(d) ==
    /\ ListedAt(d, "failed")
    /\ LET found == {w \in Ways : Listed.code = Failure(w) /\ Listed[w] # "none" /\ Visible(d, w)}
       IN  \/ Onward
           \/ \E w \in found :
                /\ Put([Listed EXCEPT !.status = IF w = "send" THEN "sending" ELSE "returning",
                                      ![w] = "known", !.code = "none"])
                /\ Again
    /\ UNCHANGED <<candidate, child, copy, deaths>>

\* Deviation: the attempt is not counted.
FailsUncounted(code, retryable) ==
    /\ Put(IF retryable THEN Listed ELSE [Listed EXCEPT !.status = "failed", !.code = code])
    /\ Again

\* recordFailure; one counter serves all the stages.
Fails(code, retryable) ==
    /\ Put(IF Listed.attempts + 1 >= maxAttempts \/ ~retryable
           THEN [Listed EXCEPT !.status = "failed", !.attempts = @ + 1, !.code = code]
           ELSE [Listed EXCEPT !.attempts = @ + 1])
    /\ Again

\* An attempt at a stage is awaited.
Attempts(d) ==
    /\ \E status \in {"opening", "configuring", "sending", "returning"} :
        ListedAt(d, status) /\ walk' = [walk EXCEPT !.at = status]
    /\ UNCHANGED <<job, candidate, child, copy, deaths>>

\* The window was busy or the screen locked: nothing happened and nothing is
\* counted.
Blocked(d) ==
    /\ walk.d = d /\ walk.at \in {"opening", "configuring", "turn"}
    /\ Onward
    /\ UNCHANGED <<candidate, child, copy, deaths>>

\* openChat presses the shortcut once ...
ChatAppears(d) ==
    /\ walk.d = d /\ walk.at = "opening"
    /\ child' = [child EXCEPT ![d].opened = @ + 1]
    /\ walk' = [walk EXCEPT !.at = "opened"]
    /\ UNCHANGED <<job, candidate, copy, deaths>>

\* Deviation: a chat that was not recognised is opened again.
UnconfirmedIsRetried == Fails("opening_failed", TRUE)

\* A creation that was not confirmed is never repeated.
Unconfirmed == Fails("opening_failed", FALSE)

\* ... and recognises the chat, or not; or it fails before the shortcut, or throws
\* after it (Conductor's database cannot be read), which is tried again.
OpenReturns(d) ==
    /\ walk.d = d
    /\ \/ /\ walk.at = "opened" /\ Put([Listed EXCEPT !.status = "configuring"]) /\ Again
          /\ UNCHANGED child
       \/ walk.at \in {"opening", "opened"} /\ Unconfirmed /\ UNCHANGED child
       \/ walk.at \in {"opening", "opened"} /\ Fails("opening_failed", TRUE) /\ IdIsLost
    /\ UNCHANGED <<candidate, copy, deaths>>

ConfigureReturns(d) ==
    /\ walk.d = d /\ walk.at = "configuring"
    /\ \/ Put([Listed EXCEPT !.status = "sending"]) /\ Again
       \/ \E retryable \in BOOLEAN : Fails("configuration_failed", retryable)
    /\ UNCHANGED <<candidate, child, copy, deaths>>

-----------------------------------------------------------------------------
(* trackedPrompt: the task, and the result *)

Way == IF Listed.status = "sending" THEN "send" ELSE "return"

Tracks(d, delivery) ==
    walk.d = d /\ walk.at \in {"sending", "returning"} /\ Listed[Way] = delivery

\* The baseline is saved before anything is typed.
SavesBaseline(d) ==
    /\ Tracks(d, "none")
    /\ Put([Listed EXCEPT ![Way] = "prepared"]) /\ Again
    /\ UNCHANGED <<candidate, child, copy, deaths>>

\* trackedReceipt: since the baseline that was saved, or by the id.
Received(d) == Visible(d, Way)

\* Nothing in sight: the window is waited for ...
WaitsForTurn(d) ==
    /\ Tracks(d, "prepared") /\ ~Received(d)
    /\ walk' = [walk EXCEPT !.at = "turn"]
    /\ UNCHANGED <<job, candidate, child, copy, deaths>>

\* ... and the prompt typed; it is seen within the window, or later.
Types(d) ==
    /\ walk.d = d /\ walk.at = "turn"
    /\ \/ copy' = [copy EXCEPT ![d][Way].seen = @ + 1, ![d][Way].sight = "outbox"]
       \/ /\ copy[d][Way].late < MaxLate
          /\ copy' = [copy EXCEPT ![d][Way].late = @ + 1,
                                  ![d][Way].sight = IF Visible(d, Way) THEN @ ELSE "late"]
    /\ walk' = [walk EXCEPT !.at = Listed.status]
    /\ UNCHANGED <<job, candidate, child, deaths>>

\* The run failed, or its prompt was not seen.  A chat that is gone cannot be
\* tried again.
SendFails(d) ==
    /\ Tracks(d, "prepared") /\ ~Received(d)
    /\ \E retryable \in BOOLEAN : Fails(Failure(Way), retryable)
    /\ UNCHANGED <<candidate, child, copy, deaths>>

\* Into a busy parent's queue a run that succeeded counts, seen or not.
AcceptedUnseen(d) ==
    /\ Tracks(d, "prepared") /\ ~Received(d)
    /\ Way = "return" /\ Listed.queued /\ copy[d][Way].sight = "late"
    /\ Put([Listed EXCEPT ![Way] = "accepted"]) /\ Again
    /\ UNCHANGED <<candidate, child, copy, deaths>>

StillUnseen(d) ==
    /\ Tracks(d, "accepted") /\ ~Received(d)
    /\ Onward
    /\ UNCHANGED <<candidate, child, copy, deaths>>

Identifies(d) ==
    /\ Tracks(d, "prepared") \/ Tracks(d, "accepted")
    /\ Received(d)
    /\ Put([Listed EXCEPT ![Way] = "known"]) /\ Again
    /\ UNCHANGED <<candidate, child, copy, deaths>>

\* The identified prompt is followed from the outbox to its message; one that
\* was removed, or altered on its way, fails for good.
Follows(d) ==
    /\ Tracks(d, "known")
    /\ \/ ~Visible(d, Way) /\ Fails(Failure(Way), FALSE)
       \/ Visible(d, Way) /\ Fails("delivery_altered", FALSE)
       \/ copy[d][Way].sight = "outbox" /\ Onward
       \/ /\ copy[d][Way].sight = "message"
          /\ Put([Listed EXCEPT !.status = IF Way = "send" THEN "running" ELSE "returned"])
          /\ Again
    /\ UNCHANGED <<candidate, child, copy, deaths>>

-----------------------------------------------------------------------------
(* Completion *)

\* What one read says: nothing yet, an answer, or an error after so many.
Completion(d) ==
    CASE child[d].state = "error" -> 0 - 1 - child[d].answers
      [] child[d].state = "idle" -> child[d].answers
      [] OTHER -> 0

\* Deviation: a read that finds the child at work leaves the candidate.
NoCompletionKeeps(d) == candidate[d].signature

NoCompletion(d) == 0

\* Two reads in a row have to agree.
Observes(d) ==
    /\ ListedAt(d, "running")
    /\ LET seen == Completion(d)
           again == candidate[d].signature = seen
           reads == IF candidate[d].reads > 0 /\ again THEN 2 ELSE 1
       IN  \/ /\ seen = 0
              /\ candidate' = [candidate EXCEPT ![d] = [signature |-> NoCompletion(d), reads |-> 0]]
              /\ Onward
           \/ /\ seen # 0 /\ ~again
              /\ candidate' = [candidate EXCEPT ![d] = [signature |-> seen, reads |-> 1]]
              /\ Onward
           \/ /\ seen # 0 /\ again
              /\ candidate' = [candidate EXCEPT ![d] = [signature |-> 0, reads |-> reads]]
              /\ Put([Listed EXCEPT !.status = "returning", !.outcome = seen]) /\ Again
    /\ UNCHANGED <<child, copy, deaths>>

\* The completion cannot be read.
ReadFails(d) ==
    /\ ListedAt(d, "running")
    /\ Onward
    /\ UNCHANGED <<candidate, child, copy, deaths>>

-----------------------------------------------------------------------------
(* Writes that fail *)

\* The producer is at a write: of the next stage, of a failure, of the progress of
\* a delivery (an accepted one without a receipt has none), of an answer.
AtWrite(d) ==
    \/ walk.at \in {"opening", "opened", "configuring"}
    \/ walk.at \in {"sending", "returning"} /\ ~(Tracks(d, "accepted") /\ ~Received(d))
    \/ ListedAt(d, "queued") \/ ListedAt(d, "returned")
    \/ ListedAt(d, "running") /\ Completion(d) # 0 /\ candidate[d].signature = Completion(d)

\* assign or put throws (a sessions.json that cannot be read back, a disk that is
\* full): that ends the producer until the next wake.  The job is as it was and
\* nothing is counted; an answer that was read twice is to be read again.
Throws(d) ==
    /\ walk.d = d /\ AtWrite(d)
    /\ walk.at = "opened" => child[d].lost < MaxLost
    /\ walk' = Resting
    /\ candidate' = IF walk.at = "list" /\ Listed.status = "running"
                    THEN [candidate EXCEPT ![d] = Unread] ELSE candidate
    /\ IdIsLost
    /\ UNCHANGED <<job, copy, deaths>>

-----------------------------------------------------------------------------
Produces(d) ==
    \/ Passes(d) \/ StartsOpening(d) \/ RemovesReturned(d) \/ Reconciles(d) \/ Attempts(d)
    \/ ChatAppears(d) \/ OpenReturns(d) \/ ConfigureReturns(d)
    \/ SavesBaseline(d) \/ WaitsForTurn(d) \/ Types(d) \/ SendFails(d) \/ AcceptedUnseen(d)
    \/ StillUnseen(d) \/ Identifies(d) \/ Follows(d) \/ Observes(d)

DelegationNext ==
    \/ WakeQueue \/ Dies
    \/ \E d \in Jobs :
        \/ Enqueue(d) \/ Dismiss(d) \/ ChildActs(d)
        \/ \E w \in Ways : Surfaces(d, w) \/ Withdrawn(d, w)
        \/ Produces(d) \/ Blocked(d) \/ ReadFails(d) \/ Throws(d)

DelegationSpec == DelegationInit /\ [][DelegationNext]_delegationVars

\* The poller wakes the queue, whose awaits end; an attempt is not blocked, and
\* not within its retry delay, for ever; the child and Conductor get on.
DelegationFairness ==
    /\ WF_delegationVars(WakeQueue)
    /\ \A d \in Jobs :
        /\ WF_delegationVars(Produces(d))
        /\ SF_delegationVars(Attempts(d) \/ Observes(d))
        /\ SF_delegationVars(OpenReturns(d) \/ ConfigureReturns(d) \/ Types(d))
        /\ SF_delegationVars(ChildActs(d) \/ \E w \in Ways : Surfaces(d, w))

DelegationFairSpec == DelegationSpec /\ DelegationFairness

-----------------------------------------------------------------------------
(* Properties *)

\* One chat per delegation, and one more each time that the id of a chat was lost
\* between its appearance and the save: the relay died there, the write or a read
\* threw. No other failure, retry or restart opens a second one, above all not a
\* creation that went unconfirmed (delivery.ts, openChat). And one copy of the task
\* and of the result in sight, through all of that and through failures that are
\* reopened (delegations.ts, the saved baseline).
ActsAreAccounted ==
    \A d \in Jobs :
        /\ child[d].opened <= 1 + child[d].lost
        /\ \A w \in Ways : copy[d][w].seen <= 1

\* A delegation opens one chat.  The code does not keep it (see IdIsLost): nothing
\* looks for the chat of the earlier attempt.
OneChatEach == \A d \in Jobs : child[d].opened <= 1

\* The result is frozen from two reads in a row that found the same answer and
\* a child at rest, never across a turn it was seen working on (queue.ts, the
\* two-observation completion barrier).
AnswerWasReadTwice ==
    [][\A d \in Jobs : job[d].status = "running" /\ job'[d].status = "returning"
                        => candidate'[d].reads = 2]_delegationVars

\* Every accepted delegation is returned or shown as failed, or its result was
\* taken over without a trace, if its writes throw only finitely often.  While they
\* keep throwing a delegation stays at its stage, with nothing counted, and one that
\* is opening opens another chat at each wake.
DelegationEnds ==
    <>[][\A d \in Jobs : ~Throws(d)]_delegationVars =>
        \A d \in Jobs :
            job[d].status = "queued" ~>
                job[d].status \in {"failed", "gone"} \/ job[d].return = "accepted"
=============================================================================
