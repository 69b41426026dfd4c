---------------------------- MODULE FirstPrompts ----------------------------
(* The first prompt of a new workspace (src/src/delivery/firstprompt.ts and *)
(* the dependencies src/src/http/services/delivery.ts gives it). One loop   *)
(* walks everything that waits, once a second; while Conductor still sets   *)
(* the workspace up a send is tried and not judged, afterwards it is        *)
(* counted. The person may send the pre-filled text on the Mac, dismiss the *)
(* entry, lock the screen; the relay may restart at any await.              *)
EXTENDS Integers, Sequences, FiniteSets

CONSTANTS Workspaces,
          MAX_ATTEMPTS,        \* sends that count
          MAX_EARLY_ATTEMPTS,  \* sends tried during setup
          MaxLocks,            \* times the screen locks
          MaxRestarts,         \* restarts of the relay
          MaxLate              \* typed messages whose row shows up late

ASSUME FirstAssumption == IsFiniteSet(Workspaces)

VARIABLES entry,    \* the queue, in memory and on disk alike
          ws,       \* what Conductor's database says of each workspace
          loop,     \* the delivery loop
          screen,   \* is the screen locked, how often was it
          restarts

firstVars == <<entry, ws, loop, screen, restarts>>

-----------------------------------------------------------------------------
\* An entry that was dropped lives on while the loop holds it: listed says
\* whether the queue still has it.
NoEntry == [listed |-> FALSE, status |-> "none", text |-> FALSE, agent |-> FALSE, files |-> FALSE,
            role |-> FALSE, immediate |-> TRUE, early |-> 0, attempts |-> 0, old |-> FALSE]

NewEntry(text, agent, files, role, immediate) ==
    [NoEntry EXCEPT !.listed = TRUE, !.status = "waiting", !.text = text, !.agent = agent,
                    !.files = files, !.role = role, !.immediate = immediate]

\* typed counts copies of the text, late those whose row is still to come,
\* crossed the times the person sent theirs while the relay was at it.
NewWorkspace == [phase |-> "none", chat |-> FALSE, worktree |-> FALSE, sent |-> FALSE,
                 typed |-> 0, late |-> 0, unseen |-> 0, crossed |-> 0]

Idle == [pc |-> "idle", walk |-> <<>>, early |-> FALSE]

FirstInit ==
    /\ entry = [w \in Workspaces |-> NoEntry]
    /\ ws = [w \in Workspaces |-> NewWorkspace]
    /\ loop = Idle
    /\ screen = [locked |-> FALSE, locks |-> 0]
    /\ restarts = 0

Waiting == {w \in Workspaces : entry[w].listed /\ entry[w].status = "waiting"}

-----------------------------------------------------------------------------
(* The queue's callers.                                                    *)

Enqueues(w) ==
    /\ entry[w] = NoEntry /\ ws[w].phase = "none"
    /\ \E text, agent, files, role, immediate \in BOOLEAN :
        /\ text \/ agent
        /\ entry' = [entry EXCEPT ![w] = NewEntry(text, agent, files, role, immediate)]
    /\ UNCHANGED <<ws, loop, screen, restarts>>

\* Dismissed from the phone, or superseded by a send the person made through
\* the relay.
Forgets(w) ==
    /\ entry[w].listed
    /\ entry' = [entry EXCEPT ![w].listed = FALSE]
    /\ UNCHANGED <<ws, loop, screen, restarts>>

-----------------------------------------------------------------------------
(* The loop. walk is the list of one pass, taken before its first await;    *)
(* its head is the entry being stepped.                                     *)

Current == Head(loop.walk)

E == entry[Current]

Target == ws[Current]

Passes == {s \in [1..Cardinality(Waiting) -> Waiting] : \A i, j \in DOMAIN s : i # j => s[i] # s[j]}

Pumps ==
    /\ loop.pc = "idle" /\ Waiting # {}
    /\ \E s \in Passes : loop' = [pc |-> "gate", walk |-> s, early |-> FALSE]
    /\ UNCHANGED <<entry, ws, screen, restarts>>

\* The step returned: the next entry of the pass, or a pause.
Onward ==
    IF Len(loop.walk) > 1 THEN [pc |-> "gate", walk |-> Tail(loop.walk), early |-> FALSE] ELSE Idle

Returns == loop' = Onward

Delivered(w) == [entry EXCEPT ![w].listed = FALSE]

Fail(w) == [entry EXCEPT ![w].status = "failed"]

Sendable(t) == t.phase = "ready" /\ t.chat

\* inspect finds the row only while the workspace is being set up or ready.
Found(t) == t.phase \in {"setting_up", "ready"}

ExpiredBeforeItsChat(e, t) == ~(Found(t) /\ t.chat) /\ e.old

\* Asked before anything else, so that an entry whose early sends are spent
\* still expires.
Expired(e, t) == ~Sendable(t) /\ e.old

\* The lock-screen probe answers; a closed gate freezes the entry whole.
GateCloses ==
    /\ loop.pc = "gate" /\ screen.locked
    /\ Returns
    /\ UNCHANGED <<entry, ws, screen, restarts>>

GateOpens ==
    /\ loop.pc = "gate" /\ ~screen.locked
    /\ loop' = [loop EXCEPT !.pc = "inspect"]
    /\ UNCHANGED <<entry, ws, screen, restarts>>

GivesUp ==
    /\ loop.pc = "inspect" /\ Expired(E, Target)
    /\ entry' = Fail(Current) /\ Returns
    /\ UNCHANGED <<ws, screen, restarts>>

\* The staged files go into the worktree, once there is one.
PlacesFiles ==
    /\ loop.pc = "inspect" /\ ~Expired(E, Target) /\ E.files
    /\ IF ~(Found(Target) /\ Target.worktree) THEN entry' = entry /\ Returns
       ELSE \/ entry' = [entry EXCEPT ![Current].files = FALSE] /\ loop' = loop
            \/ entry' = Fail(Current) /\ Returns
    /\ UNCHANGED <<ws, screen, restarts>>

ReadyForChat == loop.pc = "inspect" /\ ~Expired(E, Target) /\ ~E.files

NoChatYet ==
    /\ ReadyForChat /\ ~(Found(Target) /\ Target.chat)
    /\ Returns
    /\ UNCHANGED <<entry, ws, screen, restarts>>

AssignsRole ==
    /\ ReadyForChat /\ Found(Target) /\ Target.chat /\ E.role
    /\ IF ~Target.worktree THEN entry' = entry /\ Returns
       ELSE \/ entry' = [entry EXCEPT ![Current].role = FALSE] /\ loop' = loop
            \/ entry' = Fail(Current) /\ Returns
    /\ UNCHANGED <<ws, screen, restarts>>

ReadyToSend == ReadyForChat /\ Found(Target) /\ Target.chat /\ ~E.role

ThereOnceReady(t) == t.sent /\ t.phase = "ready"

\* The person sent it on the Mac, or a relay that died did.
AlreadyThere(t) == t.sent

FindsItSent ==
    /\ ReadyToSend /\ AlreadyThere(Target)
    /\ entry' = Delivered(Current) /\ Returns
    /\ UNCHANGED <<ws, screen, restarts>>

Early == Target.phase # "ready"

MayTry(e, early) ==
    early => e.immediate /\ e.early < MAX_EARLY_ATTEMPTS

\* Too soon after the last attempt, or not to be tried before the worktree.
HoldsOff ==
    /\ ReadyToSend /\ ~AlreadyThere(Target)
    /\ ~MayTry(E, Early)
    /\ Returns
    /\ UNCHANGED <<entry, ws, screen, restarts>>

\* The attempt is charged and saved before anything is done.
Charged(e, early) ==
    IF early THEN [e EXCEPT !.early = @ + 1] ELSE [e EXCEPT !.attempts = @ + 1]

Refunded(e, early) ==
    IF early THEN [e EXCEPT !.early = @ - 1] ELSE [e EXCEPT !.attempts = @ - 1]

Tries ==
    /\ ReadyToSend /\ ~AlreadyThere(Target) /\ MayTry(E, Early)
    /\ entry' = [entry EXCEPT ![Current] = Charged(@, Early)]
    /\ loop' = [loop EXCEPT !.pc = IF E.agent THEN "agent" ELSE "send", !.early = Early]
    /\ UNCHANGED <<ws, screen, restarts>>

\* An attempt that failed: not judged during setup, the last one otherwise.
Judged(e, early) ==
    IF ~early /\ e.attempts >= MAX_ATTEMPTS THEN [e EXCEPT !.status = "failed"] ELSE e

Missed == [entry EXCEPT ![Current] = Judged(@, loop.early)]

\* The Mac locked over the attempt: it is handed back.
Blocked == [entry EXCEPT ![Current] = Refunded(@, loop.early)]

\* The agent's settings are applied; what is applied is saved before the send.
AgentIsSet ==
    /\ loop.pc = "agent" /\ ~screen.locked /\ Found(Target)
    /\ IF E.text
       THEN entry' = [entry EXCEPT ![Current].agent = FALSE] /\ loop' = [loop EXCEPT !.pc = "send"]
       ELSE entry' = Delivered(Current) /\ Returns
    /\ UNCHANGED <<ws, screen, restarts>>

SendLands ==
    /\ loop.pc = "send" /\ ~screen.locked /\ Found(Target)
    /\ ws' = [ws EXCEPT ![Current].typed = @ + 1, ![Current].sent = TRUE]
    /\ loop' = [loop EXCEPT !.pc = "landed"]
    /\ UNCHANGED <<entry, screen, restarts>>

\* The read-back saw the row.
SendConfirmed ==
    /\ loop.pc = "landed"
    /\ entry' = Delivered(Current) /\ Returns
    /\ UNCHANGED <<ws, screen, restarts>>

\* Typed, and the row stays out of sight until the attempt has been judged.
SendUnconfirmed ==
    /\ loop.pc = "send" /\ ~screen.locked /\ Found(Target) /\ Target.unseen < MaxLate
    /\ ws' = [ws EXCEPT ![Current].typed = @ + 1, ![Current].late = @ + 1,
                        ![Current].unseen = @ + 1]
    /\ entry' = Missed /\ Returns
    /\ UNCHANGED <<screen, restarts>>

\* Nothing was typed or set: Conductor had not drawn the chat yet, a dialog was
\* in the way, the workspace is gone.
AttemptFails ==
    /\ loop.pc \in {"agent", "send"}
    /\ entry' = (IF screen.locked THEN Blocked ELSE Missed) /\ Returns
    /\ UNCHANGED <<ws, screen, restarts>>

-----------------------------------------------------------------------------
(* Conductor, the person, the machine.                                     *)

\* The workspace's row, its chat, its worktree, its being ready, its end.
\* Conductor turns it ready once the worktree is built.
SetsWorkspaceUp(w) ==
    /\ \/ ws[w].phase = "none" /\ ws' = [ws EXCEPT ![w].phase = "setting_up"]
       \/ Found(ws[w]) /\ ~ws[w].chat /\ ws' = [ws EXCEPT ![w].chat = TRUE]
       \/ Found(ws[w]) /\ ~ws[w].worktree /\ ws' = [ws EXCEPT ![w].worktree = TRUE]
       \/ ws[w].phase = "setting_up" /\ ws[w].worktree /\ ws' = [ws EXCEPT ![w].phase = "ready"]
       \/ Found(ws[w]) /\ ws' = [ws EXCEPT ![w].phase = "archived"]
    /\ UNCHANGED <<entry, loop, screen, restarts>>

RowAppears(w) ==
    /\ ws[w].late > 0
    /\ ws' = [ws EXCEPT ![w].late = @ - 1, ![w].sent = TRUE]
    /\ UNCHANGED <<entry, loop, screen, restarts>>

\* The person presses Enter on the text the deep link left in the composer.
PersonSends(w) ==
    /\ Found(ws[w]) /\ ws[w].chat /\ ws[w].typed = 0 /\ entry[w].text
    /\ LET busy == loop.pc \in {"agent", "send"} /\ Current = w
       IN  ws' = [ws EXCEPT ![w].sent = TRUE, ![w].typed = @ + 1,
                            ![w].crossed = IF busy THEN @ + 1 ELSE @]
    /\ UNCHANGED <<entry, loop, screen, restarts>>

\* Fifteen minutes have passed since the entry was made.
EntryAges(w) ==
    /\ entry[w].listed /\ ~entry[w].old
    /\ entry' = [entry EXCEPT ![w].old = TRUE]
    /\ UNCHANGED <<ws, loop, screen, restarts>>

ScreenLocks ==
    /\ ~screen.locked /\ screen.locks < MaxLocks
    /\ screen' = [locked |-> TRUE, locks |-> screen.locks + 1]
    /\ UNCHANGED <<entry, ws, loop, restarts>>

ScreenUnlocks ==
    /\ screen.locked
    /\ screen' = [screen EXCEPT !.locked = FALSE]
    /\ UNCHANGED <<entry, ws, loop, restarts>>

\* The relay stops at any await and the next one starts the loop over what
\* the file holds.
Restarts ==
    /\ restarts < MaxRestarts
    /\ restarts' = restarts + 1 /\ loop' = Idle
    /\ UNCHANGED <<entry, ws, screen>>

-----------------------------------------------------------------------------
Steps ==
    \/ GateCloses \/ GateOpens \/ GivesUp \/ PlacesFiles \/ NoChatYet \/ AssignsRole
    \/ FindsItSent \/ HoldsOff \/ Tries
    \/ AgentIsSet \/ SendLands \/ SendConfirmed \/ SendUnconfirmed \/ AttemptFails

FirstNext ==
    \/ \E w \in Workspaces : Enqueues(w) \/ Forgets(w) \/ SetsWorkspaceUp(w) \/ RowAppears(w)
                            \/ PersonSends(w) \/ EntryAges(w)
    \/ Pumps \/ Steps \/ ScreenLocks \/ ScreenUnlocks \/ Restarts

FirstSpec == FirstInit /\ [][FirstNext]_firstVars

\* The loop runs, its awaits return, time passes, and a locked screen is
\* unlocked some day. Conductor owes nothing.
FirstFairness ==
    /\ WF_firstVars(Pumps \/ Steps) /\ WF_firstVars(ScreenUnlocks)
    /\ \A w \in Workspaces : WF_firstVars(EntryAges(w))

FirstFairSpec == FirstSpec /\ FirstFairness

-----------------------------------------------------------------------------
\* The first prompt is in its chat once, through restarts, retries and two
\* phases of setting up: a further copy is typed only over one whose row
\* stayed out of sight, or when the person pressed Enter while the relay was
\* already at it.
FirstPromptIsSentOnce ==
    \A w \in Workspaces : ws[w].typed <= 1 + ws[w].unseen + ws[w].crossed

\* It gives up in public: what waits is delivered, dismissed, or marked failed,
\* however far Conductor gets with the workspace.
FirstPromptSettles ==
    \A w \in Workspaces : w \in Waiting ~> w \notin Waiting
=============================================================================
