-------------------------- MODULE WaitingPromptsProofs --------------------------
(* Proofs about the prompts that wait for their chat: those of new workspaces   *)
(* (FirstPrompts), for any finite set of them, and the one whose model the      *)
(* relay chooses (AutoModelQueue), for any number of relays.                    *)
EXTENDS FirstPrompts, AutoModelQueue, FiniteSetTheorems, SequenceTheorems, TLAPS

-----------------------------------------------------------------------------
(* First prompts. *)

Entry == [listed : BOOLEAN, status : {"none", "waiting", "failed"}, text : BOOLEAN,
          agent : BOOLEAN, files : BOOLEAN, role : BOOLEAN, immediate : BOOLEAN,
          early : Nat, attempts : Nat, old : BOOLEAN]

Workspace == [phase : {"none", "setting_up", "ready", "archived"}, chat : BOOLEAN,
              worktree : BOOLEAN, sent : BOOLEAN, typed : Nat, late : Nat, unseen : Nat,
              crossed : Nat]

Loop == [pc : {"idle", "gate", "inspect", "agent", "send", "landed"}, walk : Seq(Workspaces),
         early : BOOLEAN]

\* The loop is at an attempt with this workspace.
Trying(w) == loop.pc \in {"agent", "send"} /\ Current = w

\* Type invariant of the first prompts; a pass that goes on has an entry in hand.
FirstTypeOK ==
    /\ entry \in [Workspaces -> Entry]
    /\ ws \in [Workspaces -> Workspace]
    /\ loop \in Loop
    /\ loop.pc # "idle" => loop.walk # <<>>
    /\ screen \in [locked : BOOLEAN, locks : Nat]
    /\ restarts \in Nat

\* An attempt under way is charged, so that it can be handed back.
TriesAreCharged ==
    loop.pc \in {"agent", "send"} => (IF loop.early THEN E.early ELSE E.attempts) >= 1

\* A prompt that was seen counts for one copy, but not while another attempt,
\* which began before it was seen, is still under way.
CopiesAreCovered ==
    \A w \in Workspaces :
        ws[w].typed <= (IF ws[w].sent /\ ~Trying(w) THEN 1 ELSE 0) + ws[w].unseen + ws[w].crossed

FirstInOrder == FirstTypeOK /\ TriesAreCharged /\ CopiesAreCovered

LEMMA FirstStarts == FirstInit => FirstInOrder
<1> SUFFICES ASSUME FirstInit
             PROVE  FirstInOrder
  OBVIOUS
<1>1. NoEntry \in Entry
  BY DEF NoEntry, Entry
<1>2. NewWorkspace \in Workspace /\ NewWorkspace.typed = 0 /\ NewWorkspace.unseen = 0
      /\ NewWorkspace.crossed = 0
  BY DEF NewWorkspace, Workspace
<1>3. Idle \in Loop /\ Idle.pc = "idle"
  BY DEF Idle, Loop
<1>4. FirstTypeOK
  BY <1>1, <1>2, <1>3 DEF FirstInit, FirstTypeOK
<1>5. TriesAreCharged
  BY <1>3 DEF FirstInit, TriesAreCharged
<1>6. CopiesAreCovered
  BY <1>2, <1>3 DEF FirstInit, CopiesAreCovered
<1> QED
  BY <1>4, <1>5, <1>6 DEF FirstInOrder

\* What the loop has in hand is a workspace.
LEMMA CurrentIsAWorkspace ==
    ASSUME FirstTypeOK, loop.pc # "idle"
    PROVE  /\ Current \in Workspaces
           /\ E = entry[Current] /\ E \in Entry
           /\ Target = ws[Current] /\ Target \in Workspace
<1>1. loop.walk \in Seq(Workspaces) /\ loop.walk # <<>>
  BY DEF FirstTypeOK, Loop
<1>2. Head(loop.walk) \in Workspaces
  BY <1>1, HeadTailProperties
<1> QED
  BY <1>2 DEF FirstTypeOK, Current, E, Target

\* A step that returns leaves a shorter pass, or none, and no attempt.
LEMMA OnwardIsALoop ==
    ASSUME FirstTypeOK, loop.pc # "idle"
    PROVE  /\ Onward \in Loop
           /\ Onward.pc \in {"idle", "gate"}
           /\ Onward.pc # "idle" => Onward.walk # <<>>
<1>1. loop.walk \in Seq(Workspaces) /\ loop.walk # <<>>
  BY DEF FirstTypeOK, Loop
<1>2. /\ Tail(loop.walk) \in Seq(Workspaces)
      /\ Len(Tail(loop.walk)) = Len(loop.walk) - 1
  BY <1>1, HeadTailProperties
<1>3. Len(loop.walk) > 1 => Tail(loop.walk) # <<>>
  <2>1. Len(loop.walk) \in Nat
    BY <1>1, LenProperties
  <2>2. Tail(loop.walk) = <<>> => Len(Tail(loop.walk)) = 0
    BY <1>2, EmptySeq
  <2> DEFINE n == Len(loop.walk)
             m == Len(Tail(loop.walk))
  <2>3. n \in Nat /\ m = n - 1 /\ (Tail(loop.walk) = <<>> => m = 0)
    BY <1>2, <2>1, <2>2
  <2> HIDE DEF n, m
  <2>4. n > 1 => m # 0
    BY <2>3
  <2> QED
    BY <2>3, <2>4, Zenon DEF n
<1>4. CASE Len(loop.walk) > 1
  <2> DEFINE next == [pc |-> "gate", walk |-> Tail(loop.walk), early |-> FALSE]
  <2>1. Onward = next
    BY <1>4 DEF Onward
  <2>2. next \in Loop /\ next.pc = "gate" /\ next.walk = Tail(loop.walk)
    BY <1>2 DEF Loop
  <2> QED
    BY <1>3, <1>4, <2>1, <2>2
<1>5. CASE ~(Len(loop.walk) > 1)
  <2>1. Onward = Idle
    BY <1>5 DEF Onward
  <2>2. Idle \in Loop /\ Idle.pc = "idle"
    BY EmptySeq DEF Idle, Loop
  <2> QED
    BY <2>1, <2>2
<1> QED
  BY <1>4, <1>5

\* A step that types nothing and takes up no attempt.
LEMMA NothingTyped ==
    ASSUME FirstInOrder, loop' \in Loop, loop'.pc # "idle" => loop'.walk # <<>>,
           loop'.pc \notin {"agent", "send"},
           entry' \in [Workspaces -> Entry], UNCHANGED ws,
           screen' \in [locked : BOOLEAN, locks : Nat], restarts' \in Nat
    PROVE  FirstInOrder'
<1>1. FirstTypeOK' /\ TriesAreCharged'
  BY DEF FirstInOrder, FirstTypeOK, TriesAreCharged
<1>2. ASSUME NEW w \in Workspaces
      PROVE  ws'[w].typed <= (IF ws'[w].sent /\ ~Trying(w)' THEN 1 ELSE 0) + ws'[w].unseen + ws'[w].crossed
  <2>1. ~Trying(w)'
    BY DEF Trying
  <2>2. /\ ws'[w] = ws[w]
        /\ ws[w].typed \in Nat /\ ws[w].unseen \in Nat /\ ws[w].crossed \in Nat
    BY DEF FirstInOrder, FirstTypeOK, Workspace
  <2>3. ws[w].typed <= (IF ws[w].sent /\ ~Trying(w) THEN 1 ELSE 0) + ws[w].unseen + ws[w].crossed
    BY DEF FirstInOrder, CopiesAreCovered
  <2> QED
    BY <2>1, <2>2, <2>3
<1> QED
  BY <1>1, <1>2 DEF FirstInOrder, CopiesAreCovered

\* A step that ends an attempt, or does not begin one.
LEMMA StepReturns ==
    ASSUME FirstInOrder, loop.pc # "idle", loop' = Onward,
           entry' \in [Workspaces -> Entry], UNCHANGED <<ws, screen, restarts>>
    PROVE  FirstInOrder'
<1>1. /\ Onward \in Loop
      /\ Onward.pc \in {"idle", "gate"}
      /\ Onward.pc # "idle" => Onward.walk # <<>>
  BY OnwardIsALoop DEF FirstInOrder
<1>2. screen' \in [locked : BOOLEAN, locks : Nat] /\ restarts' \in Nat
  BY DEF FirstInOrder, FirstTypeOK
<1> QED
  BY <1>1, <1>2, NothingTyped

\* A step beside the loop.
LEMMA LoopStands ==
    ASSUME FirstInOrder, UNCHANGED loop,
           entry' \in [Workspaces -> Entry],
           \A w \in Workspaces : /\ entry'[w].early = entry[w].early
                                 /\ entry'[w].attempts = entry[w].attempts,
           ws' \in [Workspaces -> Workspace],
           \A w \in Workspaces :
               ws'[w].typed <= (IF ws'[w].sent /\ ~Trying(w) THEN 1 ELSE 0)
                                 + ws'[w].unseen + ws'[w].crossed,
           screen' \in [locked : BOOLEAN, locks : Nat], restarts' \in Nat
    PROVE  FirstInOrder'
<1>1. FirstTypeOK'
  BY DEF FirstInOrder, FirstTypeOK
<1>2. TriesAreCharged'
  <2> SUFFICES ASSUME loop.pc \in {"agent", "send"}
               PROVE  (IF loop.early THEN E'.early ELSE E'.attempts) >= 1
    BY DEF TriesAreCharged
  <2>1. Current \in Workspaces /\ E = entry[Current]
    BY CurrentIsAWorkspace DEF FirstInOrder
  <2>2. E' = entry'[Current]
    BY DEF E, Current
  <2>3. E'.early = E.early /\ E'.attempts = E.attempts
    BY <2>1, <2>2
  <2> QED
    BY <2>3 DEF FirstInOrder, TriesAreCharged
<1>3. CopiesAreCovered'
  BY DEF CopiesAreCovered, Trying, Current
<1> QED
  BY <1>1, <1>2, <1>3 DEF FirstInOrder

\* ... that leaves what Conductor shows alone.
LEMMA ConductorStands ==
    ASSUME FirstInOrder, UNCHANGED <<loop, ws>>,
           entry' \in [Workspaces -> Entry],
           \A w \in Workspaces : /\ entry'[w].early = entry[w].early
                                 /\ entry'[w].attempts = entry[w].attempts,
           screen' \in [locked : BOOLEAN, locks : Nat], restarts' \in Nat
    PROVE  FirstInOrder'
<1>1. ws' \in [Workspaces -> Workspace]
  BY DEF FirstInOrder, FirstTypeOK
<1>2. ASSUME NEW w \in Workspaces
      PROVE  ws'[w].typed <= (IF ws'[w].sent /\ ~Trying(w) THEN 1 ELSE 0)
                                 + ws'[w].unseen + ws'[w].crossed
  BY DEF FirstInOrder, CopiesAreCovered
<1> QED
  BY <1>1, <1>2, LoopStands

\* ... that changes the workspace alone.
LEMMA EntriesStand ==
    ASSUME FirstInOrder, UNCHANGED <<loop, entry, screen, restarts>>, NEW w \in Workspaces,
           NEW workspace \in Workspace, ws' = [ws EXCEPT ![w] = workspace],
           workspace.typed <= (IF workspace.sent /\ ~Trying(w) THEN 1 ELSE 0)
                                 + workspace.unseen + workspace.crossed
    PROVE  FirstInOrder'
<1>1. /\ ws' \in [Workspaces -> Workspace]
      /\ \A x \in Workspaces : ws'[x] = IF x = w THEN workspace ELSE ws[x]
  BY DEF FirstInOrder, FirstTypeOK
<1>2. /\ entry' \in [Workspaces -> Entry]
      /\ screen' \in [locked : BOOLEAN, locks : Nat] /\ restarts' \in Nat
  BY DEF FirstInOrder, FirstTypeOK
<1>3. ASSUME NEW x \in Workspaces
      PROVE  ws'[x].typed <= (IF ws'[x].sent /\ ~Trying(x) THEN 1 ELSE 0)
                                 + ws'[x].unseen + ws'[x].crossed
  <2>1. CASE x = w
    BY <1>1, <2>1
  <2>2. CASE x # w
    BY <1>1, <2>2 DEF FirstInOrder, CopiesAreCovered
  <2> QED
    BY <2>1, <2>2
<1> QED
  BY <1>1, <1>2, <1>3, LoopStands

\* What becomes of an entry keeps its shape.
LEMMA EntriesKeepShape ==
    ASSUME FirstTypeOK, NEW w \in Workspaces, NEW e \in Entry
    PROVE  [entry EXCEPT ![w] = e] \in [Workspaces -> Entry]
  BY DEF FirstTypeOK

LEMMA EntryChanges ==
    ASSUME NEW e \in Entry
    PROVE  /\ [e EXCEPT !.listed = FALSE] \in Entry
           /\ [e EXCEPT !.status = "failed"] \in Entry
           /\ [e EXCEPT !.files = FALSE] \in Entry
           /\ [e EXCEPT !.role = FALSE] \in Entry
           /\ [e EXCEPT !.agent = FALSE] \in Entry
           /\ [e EXCEPT !.old = TRUE] \in Entry
           /\ \A early \in BOOLEAN : Judged(e, early) \in Entry /\ Charged(e, early) \in Entry
           /\ \A early \in BOOLEAN :
                (IF early THEN e.early ELSE e.attempts) >= 1 => Refunded(e, early) \in Entry
<1>1. e.early \in Nat /\ e.attempts \in Nat
  BY DEF Entry
<1>2. /\ [e EXCEPT !.listed = FALSE] \in Entry
      /\ [e EXCEPT !.status = "failed"] \in Entry
      /\ [e EXCEPT !.files = FALSE] \in Entry
      /\ [e EXCEPT !.role = FALSE] \in Entry
      /\ [e EXCEPT !.agent = FALSE] \in Entry
      /\ [e EXCEPT !.old = TRUE] \in Entry
  BY DEF Entry
<1>3. ASSUME NEW n \in Nat
      PROVE  [e EXCEPT !.early = n] \in Entry /\ [e EXCEPT !.attempts = n] \in Entry
  BY DEF Entry
<1>4. ASSUME NEW early \in BOOLEAN
      PROVE  /\ Judged(e, early) \in Entry /\ Charged(e, early) \in Entry
             /\ (IF early THEN e.early ELSE e.attempts) >= 1 => Refunded(e, early) \in Entry
  <2> DEFINE more == e.early + 1
             less == e.early - 1
             next == e.attempts + 1
             last == e.attempts - 1
  <2>1. more \in Nat /\ next \in Nat /\ (e.early >= 1 => less \in Nat) /\ (e.attempts >= 1 => last \in Nat)
    BY <1>1
  <2>2. Judged(e, early) \in Entry
    BY <1>2 DEF Judged
  <2>3. Charged(e, early) = IF early THEN [e EXCEPT !.early = more] ELSE [e EXCEPT !.attempts = next]
    BY Zenon DEF Charged
  <2>4. Refunded(e, early) = IF early THEN [e EXCEPT !.early = less] ELSE [e EXCEPT !.attempts = last]
    BY Zenon DEF Refunded
  <2> HIDE DEF more, less, next, last
  <2>5. Charged(e, early) \in Entry
    BY <1>3, <2>1, <2>3
  <2>6. ASSUME (IF early THEN e.early ELSE e.attempts) >= 1
        PROVE  Refunded(e, early) \in Entry
    BY <1>3, <2>1, <2>4, <2>6
  <2> QED
    BY <2>2, <2>5, <2>6
<1> QED
  BY <1>2, <1>4

\* The steps of the loop that give an entry up, find it done or wait.
LEMMA LooksKeepOrder ==
    ASSUME FirstInOrder,
           \/ GateCloses \/ GateOpens \/ GivesUp \/ PlacesFiles \/ NoChatYet \/ AssignsRole
           \/ FindsItSent \/ HoldsOff
    PROVE  FirstInOrder'
<1>1. /\ loop.pc \in {"gate", "inspect"}
      /\ UNCHANGED <<ws, screen, restarts>>
  BY DEF GateCloses, GateOpens, GivesUp, PlacesFiles, NoChatYet, AssignsRole, FindsItSent,
         HoldsOff, ReadyForChat, ReadyToSend
<1>2. /\ Current \in Workspaces
      /\ entry[Current] \in Entry
      /\ entry \in [Workspaces -> Entry]
      /\ loop \in Loop /\ loop.walk # <<>>
      /\ screen \in [locked : BOOLEAN, locks : Nat] /\ restarts \in Nat
  BY <1>1, CurrentIsAWorkspace DEF FirstInOrder, FirstTypeOK
<1> DEFINE Kept == entry' = entry
           Ended == \E e \in Entry : entry' = [entry EXCEPT ![Current] = e]
<1>3. Kept \/ Ended
  <2>1. ASSUME NEW e \in Entry, entry' = [entry EXCEPT ![Current] = e]
        PROVE  Ended
    BY <2>1
  <2> HIDE DEF Ended
  <2>2. /\ [entry[Current] EXCEPT !.listed = FALSE] \in Entry
        /\ [entry[Current] EXCEPT !.status = "failed"] \in Entry
        /\ [entry[Current] EXCEPT !.files = FALSE] \in Entry
        /\ [entry[Current] EXCEPT !.role = FALSE] \in Entry
    BY <1>2, EntryChanges
  <2>3. CASE GateCloses \/ GateOpens \/ NoChatYet \/ HoldsOff
    BY <2>3 DEF GateCloses, GateOpens, NoChatYet, HoldsOff
  <2>4. CASE GivesUp
    BY <1>2, <2>1, <2>2, <2>4 DEF GivesUp, Fail
  <2>5. CASE PlacesFiles
    BY <1>2, <2>1, <2>2, <2>5 DEF PlacesFiles, Fail
  <2>6. CASE AssignsRole
    BY <1>2, <2>1, <2>2, <2>6 DEF AssignsRole, Fail
  <2>7. CASE FindsItSent
    BY <1>2, <2>1, <2>2, <2>7 DEF FindsItSent, Delivered
  <2> QED
    BY <2>3, <2>4, <2>5, <2>6, <2>7
<1>4. entry' \in [Workspaces -> Entry]
  BY <1>2, <1>3, EntriesKeepShape DEF FirstInOrder
<1>5. CASE loop' = Onward
  BY <1>1, <1>4, <1>5, StepReturns
<1>6. CASE loop' = loop
  BY <1>1, <1>2, <1>4, <1>6, NothingTyped
<1>7. CASE loop' = [loop EXCEPT !.pc = "inspect"]
  <2>1. loop' \in Loop /\ loop'.pc = "inspect" /\ loop'.walk # <<>>
    BY <1>2, <1>7 DEF Loop
  <2> QED
    BY <1>1, <1>2, <1>4, <2>1, NothingTyped
<1>8. loop' = Onward \/ loop' = loop \/ loop' = [loop EXCEPT !.pc = "inspect"]
  BY DEF GateCloses, GateOpens, GivesUp, PlacesFiles, NoChatYet, AssignsRole, FindsItSent,
         HoldsOff, Returns
<1> QED
  BY <1>5, <1>6, <1>7, <1>8

\* An attempt is begun only over a prompt that nobody has seen.
LEMMA TryKeepsOrder ==
    ASSUME FirstInOrder, Tries
    PROVE  FirstInOrder'
<1>1. /\ loop.pc = "inspect"
      /\ ~Target.sent
      /\ UNCHANGED <<ws, screen, restarts>>
  BY DEF Tries, ReadyToSend, ReadyForChat, AlreadyThere
<1>2. /\ Current \in Workspaces
      /\ E = entry[Current] /\ entry[Current] \in Entry
      /\ Target = ws[Current]
      /\ entry \in [Workspaces -> Entry]
      /\ loop \in Loop /\ loop.walk # <<>>
  BY <1>1, CurrentIsAWorkspace DEF FirstInOrder, FirstTypeOK
<1> DEFINE early == Target.phase # "ready"
           charged == Charged(entry[Current], early)
           pc == IF E.agent THEN "agent" ELSE "send"
<1>3. early \in BOOLEAN
  OBVIOUS
<1>4. charged \in Entry
  BY <1>2, <1>3, EntryChanges
<1>5. (IF early THEN charged.early ELSE charged.attempts) >= 1
  <2>1. entry[Current].early \in Nat /\ entry[Current].attempts \in Nat
    BY <1>2 DEF Entry
  <2> DEFINE more == entry[Current].early + 1
             next == entry[Current].attempts + 1
  <2>2. more >= 1 /\ next >= 1
    BY <2>1
  <2>3. charged = IF early THEN [entry[Current] EXCEPT !.early = more]
                  ELSE [entry[Current] EXCEPT !.attempts = next]
    BY Zenon DEF Charged
  <2> HIDE DEF early, charged, more, next
  <2>4. (early => charged.early = more) /\ (~early => charged.attempts = next)
    BY <1>2, <2>3 DEF Entry
  <2> QED
    BY <2>2, <2>4
<1>6. /\ entry' = [entry EXCEPT ![Current] = charged]
      /\ loop' = [loop EXCEPT !.pc = pc, !.early = early]
  BY DEF Tries, Early
<1>7. pc \in {"agent", "send"}
  OBVIOUS
<1> HIDE DEF early, charged, pc
<1>8. /\ loop' \in Loop
      /\ loop'.pc = pc /\ loop'.walk = loop.walk /\ loop'.early = early
  BY <1>2, <1>3, <1>6, <1>7 DEF Loop
<1>9. FirstTypeOK'
  <2>1. entry' \in [Workspaces -> Entry]
    BY <1>2, <1>4, <1>6, EntriesKeepShape DEF FirstInOrder
  <2> QED
    BY <1>1, <1>2, <1>8, <2>1 DEF FirstInOrder, FirstTypeOK
<1>10. Current' = Current /\ E' = charged
  BY <1>2, <1>6, <1>8 DEF Current, E
<1>11. TriesAreCharged'
  BY <1>5, <1>8, <1>10 DEF TriesAreCharged
<1>12. CopiesAreCovered'
  <2> SUFFICES ASSUME NEW w \in Workspaces
               PROVE  ws[w].typed <= (IF ws[w].sent /\ ~Trying(w)' THEN 1 ELSE 0)
                                       + ws[w].unseen + ws[w].crossed
    BY <1>1 DEF CopiesAreCovered
  <2>1. ws[w].typed <= (IF ws[w].sent /\ ~Trying(w) THEN 1 ELSE 0) + ws[w].unseen + ws[w].crossed
    BY DEF FirstInOrder, CopiesAreCovered
  <2>2. Trying(w)' <=> w = Current
    BY <1>7, <1>8, <1>10 DEF Trying
  <2>3. ~Trying(w)
    BY <1>1 DEF Trying
  <2>4. w = Current => ~ws[w].sent
    BY <1>1, <1>2
  <2> QED
    BY <2>1, <2>2, <2>3, <2>4
<1> QED
  BY <1>9, <1>11, <1>12 DEF FirstInOrder

\* The settings are applied within the attempt.
LEMMA AgentKeepsOrder ==
    ASSUME FirstInOrder, AgentIsSet
    PROVE  FirstInOrder'
<1>1. /\ loop.pc = "agent"
      /\ UNCHANGED <<ws, screen, restarts>>
  BY DEF AgentIsSet
<1>2. /\ Current \in Workspaces
      /\ E = entry[Current] /\ entry[Current] \in Entry
      /\ entry \in [Workspaces -> Entry]
      /\ loop \in Loop /\ loop.walk # <<>>
  BY <1>1, CurrentIsAWorkspace DEF FirstInOrder, FirstTypeOK
<1>3. CASE E.text
  <2> DEFINE set == [entry[Current] EXCEPT !.agent = FALSE]
  <2>1. set \in Entry /\ set.early = E.early /\ set.attempts = E.attempts
    BY <1>2 DEF Entry
  <2>2. /\ entry' = [entry EXCEPT ![Current] = set]
        /\ loop' = [loop EXCEPT !.pc = "send"]
    BY <1>3 DEF AgentIsSet
  <2> HIDE DEF set
  <2>3. /\ loop' \in Loop
        /\ loop'.pc = "send" /\ loop'.walk = loop.walk /\ loop'.early = loop.early
    BY <1>2, <2>2 DEF Loop
  <2>4. entry' \in [Workspaces -> Entry]
    BY <1>2, <2>1, <2>2, EntriesKeepShape DEF FirstInOrder
  <2>5. FirstTypeOK'
    BY <1>1, <1>2, <2>3, <2>4 DEF FirstInOrder, FirstTypeOK
  <2>6. Current' = Current /\ E' = set
    BY <1>2, <2>2, <2>3 DEF Current, E
  <2>7. TriesAreCharged'
    BY <1>1, <2>1, <2>3, <2>6 DEF FirstInOrder, TriesAreCharged
  <2>8. \A w \in Workspaces : Trying(w)' <=> Trying(w)
    BY <1>1, <2>3, <2>6 DEF Trying
  <2>9. CopiesAreCovered'
    BY <1>1, <2>8 DEF FirstInOrder, CopiesAreCovered
  <2> QED
    BY <2>5, <2>7, <2>9 DEF FirstInOrder
<1>4. CASE ~E.text
  <2> DEFINE gone == [entry[Current] EXCEPT !.listed = FALSE]
  <2>1. gone \in Entry
    BY <1>2, EntryChanges
  <2>2. entry' = [entry EXCEPT ![Current] = gone] /\ loop' = Onward
    BY <1>4 DEF AgentIsSet, Delivered, Returns
  <2>3. entry' \in [Workspaces -> Entry]
    BY <1>2, <2>1, <2>2, EntriesKeepShape DEF FirstInOrder
  <2> QED
    BY <1>1, <2>2, <2>3, StepReturns
<1> QED
  BY <1>3, <1>4

\* The attempts that type nothing, or whose copy was seen already.
LEMMA AttemptsEnd ==
    ASSUME FirstInOrder, SendConfirmed \/ AttemptFails
    PROVE  FirstInOrder'
<1>1. /\ loop.pc \in {"agent", "send", "landed"}
      /\ AttemptFails => loop.pc \in {"agent", "send"}
      /\ loop' = Onward
      /\ UNCHANGED <<ws, screen, restarts>>
  BY DEF SendConfirmed, AttemptFails, Returns
<1>2. /\ Current \in Workspaces
      /\ E = entry[Current] /\ entry[Current] \in Entry
      /\ entry \in [Workspaces -> Entry]
      /\ loop.early \in BOOLEAN
  BY <1>1, CurrentIsAWorkspace DEF FirstInOrder, FirstTypeOK, Loop
<1>3. \E e \in Entry : entry' = [entry EXCEPT ![Current] = e]
  <2>1. CASE SendConfirmed
    <3>1. [entry[Current] EXCEPT !.listed = FALSE] \in Entry
      BY <1>2, EntryChanges
    <3> QED
      BY <2>1, <3>1 DEF SendConfirmed, Delivered
  <2>2. CASE AttemptFails
    <3>1. Judged(entry[Current], loop.early) \in Entry
      BY <1>2, EntryChanges
    <3>2. (IF loop.early THEN entry[Current].early ELSE entry[Current].attempts) >= 1
      BY <1>1, <1>2, <2>2 DEF FirstInOrder, TriesAreCharged
    <3>3. Refunded(entry[Current], loop.early) \in Entry
      BY <1>2, <3>2, EntryChanges
    <3>4. entry' = [entry EXCEPT ![Current] = Refunded(entry[Current], loop.early)]
          \/ entry' = [entry EXCEPT ![Current] = Judged(entry[Current], loop.early)]
      BY <2>2 DEF AttemptFails, Blocked, Missed
    <3> QED
      BY <3>1, <3>3, <3>4
  <2> QED
    BY <1>1, <2>1, <2>2
<1>4. entry' \in [Workspaces -> Entry]
  BY <1>2, <1>3, EntriesKeepShape DEF FirstInOrder
<1> QED
  BY <1>1, <1>4, StepReturns

\* Where the prompt is typed: seen at once, or not before the attempt was judged.
LEMMA TypingKeepsOrder ==
    ASSUME FirstInOrder, SendLands \/ SendUnconfirmed
    PROVE  FirstInOrder'
<1>1. /\ loop.pc = "send"
      /\ UNCHANGED <<screen, restarts>>
  BY DEF SendLands, SendUnconfirmed
<1>2. /\ Current \in Workspaces
      /\ E = entry[Current] /\ entry[Current] \in Entry
      /\ entry \in [Workspaces -> Entry]
      /\ ws \in [Workspaces -> Workspace]
      /\ loop \in Loop /\ loop.walk # <<>>
      /\ screen \in [locked : BOOLEAN, locks : Nat] /\ restarts \in Nat
  BY <1>1, CurrentIsAWorkspace DEF FirstInOrder, FirstTypeOK
<1> DEFINE c == Current
           typed == ws[c].typed
           unseen == ws[c].unseen
           late == ws[c].late
           crossed == ws[c].crossed
<1>3. typed \in Nat /\ unseen \in Nat /\ late \in Nat /\ crossed \in Nat
  BY <1>2 DEF Workspace
<1>4. typed <= unseen + crossed
  <2>1. Trying(c)
    BY <1>1 DEF Trying
  <2>2. typed <= (IF ws[c].sent /\ ~Trying(c) THEN 1 ELSE 0) + unseen + crossed
    BY <1>2 DEF FirstInOrder, CopiesAreCovered
  <2> QED
    BY <1>3, <2>1, <2>2
<1>5. \E t \in Workspace : /\ ws' = [ws EXCEPT ![c] = t]
                           /\ t.typed <= (IF t.sent THEN 1 ELSE 0) + t.unseen + t.crossed
  <2> DEFINE more == typed + 1
             hidden == unseen + 1
             still == late + 1
  <2>1. more \in Nat /\ hidden \in Nat /\ still \in Nat
        /\ more <= 1 + unseen + crossed /\ more <= hidden + crossed
    BY <1>3, <1>4
  <2>2. CASE SendLands
    <3> DEFINE t == [ws[c] EXCEPT !.typed = more, !.sent = TRUE]
    <3>1. ws' = [ws EXCEPT ![c] = t]
      BY <2>2 DEF SendLands
    <3> HIDE DEF more, hidden, still
    <3>2. /\ t \in Workspace
          /\ t.typed = more /\ t.sent /\ t.unseen = unseen /\ t.crossed = crossed
      BY <1>2, <2>1 DEF Workspace
    <3> QED
      BY <2>1, <3>1, <3>2
  <2>3. CASE SendUnconfirmed
    <3> DEFINE t == [ws[c] EXCEPT !.typed = more, !.late = still, !.unseen = hidden]
    <3>1. ws' = [ws EXCEPT ![c] = t]
      BY <2>3 DEF SendUnconfirmed
    <3> HIDE DEF more, hidden, still
    <3>2. /\ t \in Workspace
          /\ t.typed = more /\ t.unseen = hidden /\ t.crossed = crossed
      BY <1>2, <2>1 DEF Workspace
    <3>3. t.typed <= (IF t.sent THEN 1 ELSE 0) + t.unseen + t.crossed
      BY <1>3, <2>1, <3>2
    <3> QED
      BY <3>1, <3>2, <3>3
  <2> QED
    BY <2>2, <2>3
<1>6. PICK t \in Workspace : /\ ws' = [ws EXCEPT ![c] = t]
                             /\ t.typed <= (IF t.sent THEN 1 ELSE 0) + t.unseen + t.crossed
  BY <1>5
<1>7. /\ loop' \in Loop
      /\ loop'.pc \notin {"agent", "send"}
      /\ loop'.pc # "idle" => loop'.walk # <<>>
  <2>1. CASE SendLands
    <3>1. loop' = [loop EXCEPT !.pc = "landed"]
      BY <2>1 DEF SendLands
    <3> QED
      BY <1>2, <3>1 DEF Loop
  <2>2. CASE SendUnconfirmed
    <3>1. loop' = Onward
      BY <2>2 DEF SendUnconfirmed, Returns
    <3>2. /\ Onward \in Loop /\ Onward.pc \in {"idle", "gate"}
          /\ Onward.pc # "idle" => Onward.walk # <<>>
      BY <1>1, OnwardIsALoop DEF FirstInOrder
    <3> QED
      BY <3>1, <3>2
  <2> QED
    BY <2>1, <2>2
<1>8. entry' \in [Workspaces -> Entry]
  <2>1. CASE SendLands
    BY <1>2, <2>1 DEF SendLands
  <2>2. CASE SendUnconfirmed
    <3>1. Judged(entry[Current], loop.early) \in Entry
      BY <1>2, EntryChanges DEF Loop
    <3>2. entry' = [entry EXCEPT ![Current] = Judged(entry[Current], loop.early)]
      BY <2>2 DEF SendUnconfirmed, Missed
    <3> QED
      BY <1>2, <3>1, <3>2, EntriesKeepShape DEF FirstInOrder
  <2> QED
    BY <2>1, <2>2
<1> HIDE DEF c, typed, unseen, late, crossed
<1>9. /\ ws' \in [Workspaces -> Workspace]
      /\ \A w \in Workspaces : ws'[w] = IF w = c THEN t ELSE ws[w]
  BY <1>2, <1>6 DEF c
<1>10. FirstTypeOK'
  BY <1>1, <1>2, <1>7, <1>8, <1>9 DEF FirstTypeOK
<1>11. TriesAreCharged'
  BY <1>7 DEF TriesAreCharged
<1>12. CopiesAreCovered'
  <2> SUFFICES ASSUME NEW w \in Workspaces
               PROVE  ws'[w].typed <= (IF ws'[w].sent /\ ~Trying(w)' THEN 1 ELSE 0)
                                       + ws'[w].unseen + ws'[w].crossed
    BY DEF CopiesAreCovered
  <2>1. ~Trying(w)'
    BY <1>7 DEF Trying
  <2>2. CASE w = c
    BY <1>6, <1>9, <2>1, <2>2
  <2>3. CASE w # c
    <3>1. /\ ws[w].typed \in Nat /\ ws[w].unseen \in Nat /\ ws[w].crossed \in Nat
          /\ ws'[w] = ws[w]
      BY <1>2, <1>9, <2>3 DEF Workspace
    <3>2. ws[w].typed <= (IF ws[w].sent /\ ~Trying(w) THEN 1 ELSE 0) + ws[w].unseen + ws[w].crossed
      BY DEF FirstInOrder, CopiesAreCovered
    <3> QED
      BY <2>1, <3>1, <3>2
  <2> QED
    BY <2>2, <2>3
<1> QED
  BY <1>10, <1>11, <1>12 DEF FirstInOrder

\* A pass is a list of workspaces, and never an empty one.
LEMMA PumpKeepsOrder ==
    ASSUME FirstInOrder, Pumps
    PROVE  FirstInOrder'
<1>1. PICK s \in Passes : loop' = [pc |-> "gate", walk |-> s, early |-> FALSE]
  BY DEF Pumps
<1>2. /\ Waiting # {} /\ UNCHANGED <<entry, ws, screen, restarts>>
      /\ Waiting \subseteq Workspaces
  BY DEF Pumps, Waiting
<1>3. IsFiniteSet(Waiting)
  BY <1>2, FirstAssumption, FS_Subset
<1>4. Cardinality(Waiting) \in Nat /\ Cardinality(Waiting) # 0
  BY <1>2, <1>3, FS_CardinalityType, FS_EmptySet
<1> DEFINE n == Cardinality(Waiting)
<1>5. s \in [1..n -> Waiting]
  BY DEF Passes
<1> HIDE DEF n
<1>6. n \in Nat /\ n # 0
  BY <1>4 DEF n
<1>7. s \in Seq(Workspaces)
  BY <1>2, <1>5, <1>6
<1>8. s # <<>>
  <2>1. DOMAIN s = 1..n /\ 1 \in 1..n
    BY <1>5, <1>6
  <2>2. DOMAIN s = 1..Len(s)
    BY <1>7, LenProperties
  <2>3. s = <<>> => Len(s) = 0
    BY EmptySeq
  <2> DEFINE l == Len(s)
  <2>4. l # 0
    <3>1. 1 \in 1..l
      BY <2>1, <2>2
    <3> HIDE DEF l
    <3> QED
      BY <3>1
  <2> QED
    BY <2>3, <2>4
<1>9. loop' \in Loop /\ loop'.pc = "gate" /\ loop'.walk = s
  BY <1>1, <1>7 DEF Loop
<1>10. /\ entry \in [Workspaces -> Entry]
       /\ screen \in [locked : BOOLEAN, locks : Nat] /\ restarts \in Nat
  BY DEF FirstInOrder, FirstTypeOK
<1> QED
  BY <1>2, <1>8, <1>9, <1>10, NothingTyped

\* The phone, the person, Conductor, the machine.
LEMMA WorldKeepsOrder ==
    ASSUME FirstInOrder, NEW w \in Workspaces,
           \/ Enqueues(w) \/ Forgets(w) \/ SetsWorkspaceUp(w) \/ RowAppears(w)
           \/ PersonSends(w) \/ EntryAges(w)
    PROVE  FirstInOrder'
<1>1. /\ entry \in [Workspaces -> Entry] /\ entry[w] \in Entry
      /\ ws \in [Workspaces -> Workspace] /\ ws[w] \in Workspace
      /\ screen \in [locked : BOOLEAN, locks : Nat] /\ restarts \in Nat
  BY DEF FirstInOrder, FirstTypeOK
<1> DEFINE typed == ws[w].typed
           unseen == ws[w].unseen
           late == ws[w].late
           crossed == ws[w].crossed
<1>2. typed \in Nat /\ unseen \in Nat /\ late \in Nat /\ crossed \in Nat
  BY <1>1 DEF Workspace
<1>3. typed <= (IF ws[w].sent /\ ~Trying(w) THEN 1 ELSE 0) + unseen + crossed
  BY DEF FirstInOrder, CopiesAreCovered
<1>4. ASSUME NEW e \in Entry, entry' = [entry EXCEPT ![w] = e],
             e.early = entry[w].early, e.attempts = entry[w].attempts,
             UNCHANGED <<ws, loop, screen, restarts>>
      PROVE  FirstInOrder'
  <2>1. entry' \in [Workspaces -> Entry]
    BY <1>1, <1>4
  <2>2. \A x \in Workspaces : entry'[x].early = entry[x].early /\ entry'[x].attempts = entry[x].attempts
    BY <1>1, <1>4
  <2> QED
    BY <1>1, <1>4, <2>1, <2>2, ConductorStands
<1>5. CASE Enqueues(w)
  <2>1. PICK text \in BOOLEAN, agent \in BOOLEAN, files \in BOOLEAN, role \in BOOLEAN, immediate \in BOOLEAN :
          entry' = [entry EXCEPT ![w] = NewEntry(text, agent, files, role, immediate)]
    BY <1>5 DEF Enqueues
  <2> DEFINE e == NewEntry(text, agent, files, role, immediate)
  <2>2. /\ e \in Entry /\ e.early = 0 /\ e.attempts = 0
        /\ NoEntry.early = 0 /\ NoEntry.attempts = 0
    BY DEF NewEntry, NoEntry, Entry
  <2>3. entry[w] = NoEntry /\ UNCHANGED <<ws, loop, screen, restarts>>
    BY <1>5 DEF Enqueues
  <2> QED
    BY <1>4, <2>1, <2>2, <2>3
<1>6. CASE Forgets(w)
  <2> DEFINE e == [entry[w] EXCEPT !.listed = FALSE]
  <2>1. e \in Entry /\ e.early = entry[w].early /\ e.attempts = entry[w].attempts
    BY <1>1 DEF Entry
  <2>2. entry' = [entry EXCEPT ![w] = e] /\ UNCHANGED <<ws, loop, screen, restarts>>
    BY <1>6 DEF Forgets
  <2> QED
    BY <1>4, <2>1, <2>2
<1>7. CASE EntryAges(w)
  <2> DEFINE e == [entry[w] EXCEPT !.old = TRUE]
  <2>1. e \in Entry /\ e.early = entry[w].early /\ e.attempts = entry[w].attempts
    BY <1>1 DEF Entry
  <2>2. entry' = [entry EXCEPT ![w] = e] /\ UNCHANGED <<ws, loop, screen, restarts>>
    BY <1>7 DEF EntryAges
  <2> QED
    BY <1>4, <2>1, <2>2
<1>8. ASSUME NEW t \in Workspace, ws' = [ws EXCEPT ![w] = t],
             t.typed <= (IF t.sent /\ ~Trying(w) THEN 1 ELSE 0) + t.unseen + t.crossed,
             UNCHANGED <<entry, loop, screen, restarts>>
      PROVE  FirstInOrder'
  BY <1>8, EntriesStand
<1>9. CASE SetsWorkspaceUp(w)
  <2>1. /\ [ws[w] EXCEPT !.chat = TRUE] \in Workspace
        /\ [ws[w] EXCEPT !.worktree = TRUE] \in Workspace
        /\ \A p \in {"setting_up", "ready", "archived"} : [ws[w] EXCEPT !.phase = p] \in Workspace
    BY <1>1 DEF Workspace
  <2>2. \E t \in Workspace : /\ ws' = [ws EXCEPT ![w] = t]
                             /\ t.typed = typed /\ t.sent = ws[w].sent
                             /\ t.unseen = unseen /\ t.crossed = crossed
    <3>1. CASE ws' = [ws EXCEPT ![w].chat = TRUE]
      BY <1>1, <2>1, <3>1 DEF Workspace
    <3>2. CASE ws' = [ws EXCEPT ![w].worktree = TRUE]
      BY <1>1, <2>1, <3>2 DEF Workspace
    <3>3. CASE \E p \in {"setting_up", "ready", "archived"} : ws' = [ws EXCEPT ![w].phase = p]
      <4>1. PICK p \in {"setting_up", "ready", "archived"} : ws' = [ws EXCEPT ![w].phase = p]
        BY <3>3
      <4> QED
        BY <1>1, <2>1, <4>1 DEF Workspace
    <3> QED
      BY <1>9, <3>1, <3>2, <3>3 DEF SetsWorkspaceUp
  <2>3. UNCHANGED <<entry, loop, screen, restarts>>
    BY <1>9 DEF SetsWorkspaceUp
  <2> QED
    BY <1>3, <1>8, <2>2, <2>3
<1>10. CASE RowAppears(w)
  <2> DEFINE rest == late - 1
             t == [ws[w] EXCEPT !.late = rest, !.sent = TRUE]
  <2>1. rest \in Nat
    BY <1>2, <1>10 DEF RowAppears
  <2>2. ws' = [ws EXCEPT ![w] = t] /\ UNCHANGED <<entry, loop, screen, restarts>>
    BY <1>10 DEF RowAppears
  <2> HIDE DEF rest
  <2>3. t \in Workspace /\ t.typed = typed /\ t.sent /\ t.unseen = unseen /\ t.crossed = crossed
    BY <1>1, <2>1 DEF Workspace
  <2>4. t.typed <= (IF t.sent /\ ~Trying(w) THEN 1 ELSE 0) + t.unseen + t.crossed
    BY <1>2, <1>3, <2>3
  <2> HIDE DEF t
  <2> QED
    BY <1>8, <2>2, <2>3, <2>4
<1>11. CASE PersonSends(w)
  <2> DEFINE more == typed + 1
             next == IF Trying(w) THEN crossed + 1 ELSE crossed
             t == [ws[w] EXCEPT !.sent = TRUE, !.typed = more, !.crossed = next]
  <2>1. more = 1 /\ more \in Nat /\ next \in Nat /\ (Trying(w) => next >= 1)
    BY <1>2, <1>11 DEF PersonSends
  <2>2. ws' = [ws EXCEPT ![w] = t] /\ UNCHANGED <<entry, loop, screen, restarts>>
    BY <1>11 DEF PersonSends, Trying
  <2> HIDE DEF more, next
  <2>3. t \in Workspace /\ t.typed = more /\ t.sent /\ t.unseen = unseen /\ t.crossed = next
    BY <1>1, <2>1 DEF Workspace
  <2>4. t.typed <= (IF t.sent /\ ~Trying(w) THEN 1 ELSE 0) + t.unseen + t.crossed
    BY <1>2, <2>1, <2>3
  <2> HIDE DEF t
  <2> QED
    BY <1>8, <2>2, <2>3, <2>4
<1> QED
  BY <1>5, <1>6, <1>7, <1>9, <1>10, <1>11

\* The screen, and a relay that starts again from its file.
LEMMA MachineKeepsOrder ==
    ASSUME FirstInOrder, ScreenLocks \/ ScreenUnlocks \/ Restarts
    PROVE  FirstInOrder'
<1>1. /\ entry \in [Workspaces -> Entry]
      /\ screen \in [locked : BOOLEAN, locks : Nat] /\ restarts \in Nat
  BY DEF FirstInOrder, FirstTypeOK
<1>2. CASE ScreenLocks \/ ScreenUnlocks
  <2> DEFINE more == screen.locks + 1
  <2>1. more \in Nat
    BY <1>1
  <2>2. \/ screen' = [locked |-> TRUE, locks |-> more]
        \/ screen' = [screen EXCEPT !.locked = FALSE]
    BY <1>2 DEF ScreenLocks, ScreenUnlocks
  <2> HIDE DEF more
  <2>3. screen' \in [locked : BOOLEAN, locks : Nat]
    <3>1. [locked |-> TRUE, locks |-> more] \in [locked : BOOLEAN, locks : Nat]
      BY <2>1
    <3>2. [screen EXCEPT !.locked = FALSE] \in [locked : BOOLEAN, locks : Nat]
      BY <1>1
    <3> QED
      BY <2>2, <3>1, <3>2
  <2>4. UNCHANGED <<entry, ws, loop, restarts>>
    BY <1>2 DEF ScreenLocks, ScreenUnlocks
  <2> QED
    BY <1>1, <2>3, <2>4, ConductorStands
<1>3. CASE Restarts
  <2>1. /\ restarts' \in Nat /\ loop' = Idle
        /\ UNCHANGED <<entry, ws, screen>>
    BY <1>1, <1>3 DEF Restarts
  <2>2. Idle \in Loop /\ Idle.pc = "idle"
    BY DEF Idle, Loop
  <2> QED
    BY <1>1, <2>1, <2>2, NothingTyped
<1> QED
  BY <1>2, <1>3

LEMMA FirstSteps ==
    ASSUME FirstInOrder, [FirstNext]_firstVars
    PROVE  FirstInOrder'
<1>1. CASE UNCHANGED firstVars
  <2>1. UNCHANGED <<entry, ws, loop, screen, restarts>>
    BY <1>1 DEF firstVars
  <2>2. /\ entry' \in [Workspaces -> Entry]
        /\ screen' \in [locked : BOOLEAN, locks : Nat] /\ restarts' \in Nat
    BY <2>1 DEF FirstInOrder, FirstTypeOK
  <2> QED
    BY <2>1, <2>2, ConductorStands
<1>2. CASE Steps
  BY <1>2, LooksKeepOrder, TryKeepsOrder, AgentKeepsOrder, TypingKeepsOrder, AttemptsEnd DEF Steps
<1> QED
  BY <1>1, <1>2, PumpKeepsOrder, WorldKeepsOrder, MachineKeepsOrder DEF FirstNext

\* The inductive invariant of the first prompts: an attempt under way is charged,
\* and each copy is accounted for (firstprompt.ts, step).
THEOREM FirstPromptsAreInOrder == FirstSpec => []FirstInOrder
<1> QED
  BY FirstStarts, FirstSteps, PTL DEF FirstSpec

\* The first prompt of a workspace is in its chat once, but for copies that stayed
\* out of sight and the person's own beside the relay's (firstprompt.ts), for any
\* number of workspaces, attempts and restarts.
THEOREM FirstPromptsAreSentOnce == FirstSpec => []FirstPromptIsSentOnce
<1>1. FirstInOrder => FirstPromptIsSentOnce
  <2> SUFFICES ASSUME FirstInOrder, NEW w \in Workspaces
               PROVE  ws[w].typed <= 1 + ws[w].unseen + ws[w].crossed
    BY DEF FirstPromptIsSentOnce
  <2>1. ws[w].typed <= (IF ws[w].sent /\ ~Trying(w) THEN 1 ELSE 0) + ws[w].unseen + ws[w].crossed
    BY DEF FirstInOrder, CopiesAreCovered
  <2>2. ws[w].typed \in Nat /\ ws[w].unseen \in Nat /\ ws[w].crossed \in Nat
    BY DEF FirstInOrder, FirstTypeOK, Workspace
  <2> QED
    BY <2>1, <2>2
<1> QED
  BY <1>1, FirstPromptsAreInOrder, PTL

-----------------------------------------------------------------------------
(* The prompt whose model the relay chooses. *)

Job == [status : {"none", "waiting", "selecting", "delivered", "cancelled", "failed"},
        gen : Nat, chosen : BOOLEAN, bound : BOOLEAN, attempts : Nat, early : Nat]

RelayState == [up : BOOLEAN, life : Nat,
               pc : {"idle", "create", "steal", "probe", "choose", "turn", "apply", "type", "typed"},
               mine : Job, ready : BOOLEAN]

Shown == [ready : BOOLEAN, session : BOOLEAN, seen : BOOLEAN, typed : Nat, other : BOOLEAN,
          unseen : Nat, late : Nat, locked : BOOLEAN]

\* Type invariant of the Auto queue.
AutoTypeOK ==
    /\ job \in Job
    /\ lock \in [owner : Relays \cup {"none"}, life : Nat, dispatching : BOOLEAN]
    /\ relay \in [Relays -> RelayState]
    /\ turn \in Relays \cup {"none"}
    /\ target \in Shown
    /\ old \in BOOLEAN
    /\ faults \in Nat

\* Whoever acts on the window has the UI turn.
ActsInTurn ==
    \A r \in Relays : relay[r].pc \in {"apply", "type", "typed"} => turn = r

\* A relay that delivers has bound the target, so that it knows its receipt.
DeliversBound ==
    \A r \in Relays : relay[r].pc \in {"choose", "turn", "apply", "type", "typed"} => relay[r].mine.bound

\* The prompt that is seen counts for one copy, but not while a relay that looked
\* before is about to type.
CopyIsCovered ==
    /\ target.typed <= 1 + target.unseen
    /\ ~target.seen \/ (\E r \in Relays : relay[r].pc = "type") => target.typed <= target.unseen

AutoInOrder == AutoTypeOK /\ ActsInTurn /\ DeliversBound /\ CopyIsCovered

LEMMA AutoStarts == AutoInit => AutoInOrder
<1> SUFFICES ASSUME AutoInit
             PROVE  AutoInOrder
  OBVIOUS
<1>1. NoJob \in Job
  BY DEF NoJob, Job
<1>2. /\ Asleep(1) \in RelayState /\ Asleep(1).pc = "idle"
  BY <1>1 DEF Asleep, RelayState
<1>3. (CHOOSE r \in Relays : TRUE) \in Relays
  BY AutoAssumption
<1>4. lock \in [owner : Relays \cup {"none"}, life : Nat, dispatching : BOOLEAN]
  <2>1. Free \in [owner : Relays \cup {"none"}, life : Nat, dispatching : BOOLEAN]
    BY DEF Free
  <2> DEFINE any == CHOOSE r \in Relays : TRUE
  <2>2. lock \in {Free, [Free EXCEPT !.owner = any]}
    BY DEF AutoInit
  <2>3. any \in Relays \cup {"none"}
    BY <1>3
  <2> HIDE DEF any
  <2> QED
    BY <2>1, <2>2, <2>3 DEF Free
<1>5. target \in Shown /\ target.typed = 0 /\ target.unseen = 0
  BY DEF AutoInit, Shown
<1>6. AutoTypeOK
  BY <1>1, <1>2, <1>4, <1>5 DEF AutoInit, AutoTypeOK
<1>7. ActsInTurn /\ DeliversBound
  BY <1>2 DEF AutoInit, ActsInTurn, DeliversBound
<1>8. CopyIsCovered
  BY <1>5 DEF CopyIsCovered
<1> QED
  BY <1>6, <1>7, <1>8 DEF AutoInOrder

LEMMA JobChanges ==
    ASSUME NEW j \in Job
    PROVE  /\ \A s \in {"waiting", "selecting", "delivered", "cancelled", "failed"} :
                [j EXCEPT !.status = s] \in Job
           /\ [j EXCEPT !.attempts = @ + 1] \in Job
           /\ [j EXCEPT !.early = @ + 1] \in Job
<1>1. j.attempts \in Nat /\ j.early \in Nat
  BY DEF Job
<1> DEFINE a == j.attempts + 1
           b == j.early + 1
<1>2. a \in Nat /\ b \in Nat
  BY <1>1
<1> HIDE DEF a, b
<1>3. [j EXCEPT !.attempts = a] \in Job /\ [j EXCEPT !.early = b] \in Job
  BY <1>2 DEF Job
<1>4. \A s \in {"waiting", "selecting", "delivered", "cancelled", "failed"} :
        [j EXCEPT !.status = s] \in Job
  BY DEF Job
<1> QED
  BY <1>3, <1>4 DEF a, b

\* One relay moves; who holds the turn and is another keeps it.
LEMMA RelayMoves ==
    ASSUME AutoInOrder, NEW r \in Relays, NEW s \in RelayState,
           relay' = [relay EXCEPT ![r] = s],
           s.pc \in {"apply", "type", "typed"} => turn' = r,
           s.pc \in {"choose", "turn", "apply", "type", "typed"} => s.mine.bound,
           turn' \in Relays \cup {"none"},
           \A q \in Relays : q # r /\ turn = q => turn' = q,
           job' \in Job, lock' \in [owner : Relays \cup {"none"}, life : Nat, dispatching : BOOLEAN],
           target' \in Shown, old' \in BOOLEAN, faults' \in Nat,
           CopyIsCovered'
    PROVE  AutoInOrder'
<1>1. /\ relay' \in [Relays -> RelayState]
      /\ \A q \in Relays : relay'[q] = IF q = r THEN s ELSE relay[q]
  BY DEF AutoInOrder, AutoTypeOK
<1>2. AutoTypeOK'
  BY <1>1 DEF AutoTypeOK
<1>3. ActsInTurn'
  BY <1>1 DEF AutoInOrder, ActsInTurn
<1>4. DeliversBound'
  BY <1>1 DEF AutoInOrder, DeliversBound
<1> QED
  BY <1>2, <1>3, <1>4 DEF AutoInOrder

\* ... and is not about to type.
LEMMA NobodyTypes ==
    ASSUME AutoInOrder, NEW r \in Relays, NEW s \in RelayState,
           relay' = [relay EXCEPT ![r] = s], s.pc # "type", UNCHANGED target
    PROVE  CopyIsCovered'
<1>1. \A q \in Relays : relay'[q] = IF q = r THEN s ELSE relay[q]
  BY DEF AutoInOrder, AutoTypeOK
<1> QED
  BY <1>1 DEF AutoInOrder, CopyIsCovered

LEMMA RelayReleases ==
    ASSUME AutoInOrder, NEW r \in Relays, Releases(r),
           job' \in Job, UNCHANGED target, old' \in BOOLEAN, faults' \in Nat
    PROVE  AutoInOrder'
<1> DEFINE s == [relay[r] EXCEPT !.pc = "idle", !.mine = NoJob]
<1>1. NoJob \in Job
  BY DEF NoJob, Job
<1>2. s \in RelayState /\ s.pc = "idle"
  BY <1>1 DEF AutoInOrder, AutoTypeOK, RelayState
<1>3. relay' = [relay EXCEPT ![r] = s]
  BY DEF Releases
<1>4. /\ turn' \in Relays \cup {"none"}
      /\ \A q \in Relays : q # r /\ turn = q => turn' = q
  BY DEF Releases, AutoInOrder, AutoTypeOK
<1>5. lock' \in [owner : Relays \cup {"none"}, life : Nat, dispatching : BOOLEAN]
  BY DEF Releases, Free
<1>6. target' \in Shown
  BY DEF AutoInOrder, AutoTypeOK
<1> HIDE DEF s
<1>7. CopyIsCovered'
  BY <1>2, <1>3, NobodyTypes
<1> QED
  BY <1>2, <1>3, <1>4, <1>5, <1>6, <1>7, RelayMoves

\* The lock's steps, and those that end the work on the job.
LEMMA LockKeepsOrder ==
    ASSUME AutoInOrder, NEW r \in Relays, ReadsLock(r) \/ RemovesLock(r) \/ CreatesLock(r)
    PROVE  AutoInOrder'
<1>1. /\ relay[r] \in RelayState /\ job \in Job /\ turn \in Relays \cup {"none"}
      /\ target \in Shown /\ old \in BOOLEAN /\ faults \in Nat
      /\ lock \in [owner : Relays \cup {"none"}, life : Nat, dispatching : BOOLEAN]
  BY DEF AutoInOrder, AutoTypeOK
<1>2. UNCHANGED <<turn, target, old, faults>>
  BY DEF ReadsLock, RemovesLock, CreatesLock
<1>3. /\ job' \in Job
      /\ lock' \in [owner : Relays \cup {"none"}, life : Nat, dispatching : BOOLEAN]
  <2>1. CASE ReadsLock(r)
    BY <1>1, <2>1 DEF ReadsLock
  <2>2. CASE RemovesLock(r)
    BY <1>1, <2>2 DEF RemovesLock, Free
  <2>3. CASE CreatesLock(r)
    <3>1. [job EXCEPT !.status = "delivered"] \in Job
      BY <1>1, JobChanges
    <3>2. [owner |-> r, life |-> relay[r].life, dispatching |-> FALSE]
            \in [owner : Relays \cup {"none"}, life : Nat, dispatching : BOOLEAN]
      BY <1>1 DEF RelayState
    <3> QED
      BY <1>1, <2>3, <3>1, <3>2 DEF CreatesLock
  <2> QED
    BY <2>1, <2>2, <2>3
<1>4. \E s \in RelayState : /\ relay' = [relay EXCEPT ![r] = s]
                            /\ s.pc \in {"idle", "create", "steal", "probe"}
  <2>1. \A pc \in {"idle", "create", "steal"} : [relay[r] EXCEPT !.pc = pc] \in RelayState
    BY <1>1 DEF RelayState
  <2>2. \A pc \in {"idle", "create", "steal"} : [relay[r] EXCEPT !.pc = pc].pc = pc
    BY <1>1 DEF RelayState
  <2>3. [relay[r] EXCEPT !.pc = "probe", !.mine = job] \in RelayState
        /\ [relay[r] EXCEPT !.pc = "probe", !.mine = job].pc = "probe"
    BY <1>1 DEF RelayState
  <2>4. \/ \E pc \in {"idle", "create", "steal"} : relay' = [relay EXCEPT ![r] = [relay[r] EXCEPT !.pc = pc]]
        \/ relay' = [relay EXCEPT ![r] = [relay[r] EXCEPT !.pc = "probe", !.mine = job]]
    BY DEF ReadsLock, RemovesLock, CreatesLock, Goes
  <2> QED
    BY <2>1, <2>2, <2>3, <2>4
<1>5. PICK s \in RelayState : /\ relay' = [relay EXCEPT ![r] = s]
                              /\ s.pc \in {"idle", "create", "steal", "probe"}
  BY <1>4
<1>6. CopyIsCovered'
  BY <1>2, <1>5, NobodyTypes
<1> QED
  BY <1>1, <1>2, <1>3, <1>5, <1>6, RelayMoves

\* What a delivery makes of the job is a job.
LEMMA DeliveriesGiveJobs ==
    ASSUME AutoInOrder, NEW r \in Relays, NEW result \in {"ok", "cancelled", "blocked", "error"}
    PROVE  AfterDelivery(r, result) \in Job
<1> DEFINE j == relay[r].mine
           counted == IF relay[r].ready THEN [j EXCEPT !.attempts = @ + 1] ELSE [j EXCEPT !.early = @ + 1]
<1>1. j \in Job
  BY DEF AutoInOrder, AutoTypeOK, RelayState
<1> HIDE DEF j
<1>2. counted \in Job
  BY <1>1, JobChanges
<1>3. AfterDelivery(r, result) =
        CASE result = "ok"        -> [j EXCEPT !.status = "delivered"]
          [] result = "cancelled" -> [j EXCEPT !.status = "cancelled"]
          [] result = "blocked"   -> j
          [] result = "error"     -> [counted EXCEPT
                 !.status = IF counted.attempts >= MaxAttempts THEN "failed" ELSE @]
  BY DEF AfterDelivery, Mine, j
<1> HIDE DEF counted
<1>4. [counted EXCEPT !.status = IF counted.attempts >= MaxAttempts THEN "failed" ELSE @] \in Job
  <2> DEFINE s == IF counted.attempts >= MaxAttempts THEN "failed" ELSE counted.status
  <2>1. s \in {"none", "waiting", "selecting", "delivered", "cancelled", "failed"}
    BY <1>2 DEF Job
  <2> HIDE DEF s
  <2>2. [counted EXCEPT !.status = s] \in Job
    BY <1>2, <2>1 DEF Job
  <2> QED
    BY <2>2 DEF s
<1>5. /\ [j EXCEPT !.status = "delivered"] \in Job
      /\ [j EXCEPT !.status = "cancelled"] \in Job
  BY <1>1, JobChanges
<1>6. CASE result = "ok"
  BY <1>3, <1>5, <1>6
<1>7. CASE result = "cancelled"
  BY <1>3, <1>5, <1>7
<1>8. CASE result = "blocked"
  BY <1>1, <1>3, <1>8
<1>9. CASE result = "error"
  BY <1>3, <1>4, <1>9
<1> QED
  BY <1>6, <1>7, <1>8, <1>9

\* The ends of a step: whatever is saved, the relay lets the lock and the turn go.
LEMMA EndsKeepOrder ==
    ASSUME AutoInOrder, NEW r \in Relays,
           \/ StopsAtProbe(r) \/ FindsChatStarted(r) \/ FindsItUnready(r) \/ StepThrows(r)
           \/ FindsItOvertaken(r) \/ Confirms(r) \/ DeliveryFails(r)
    PROVE  AutoInOrder'
<1>1. /\ Mine(r) \in Job /\ job \in Job
      /\ old \in BOOLEAN /\ faults \in Nat
  BY DEF AutoInOrder, AutoTypeOK, RelayState, Mine
<1>2. \A result \in {"ok", "cancelled", "blocked", "error"} : AfterDelivery(r, result) \in Job
  BY DeliveriesGiveJobs
<1>3. /\ [Mine(r) EXCEPT !.status = "cancelled"] \in Job
      /\ [Mine(r) EXCEPT !.status = "failed"] \in Job
  BY <1>1, JobChanges
<1>4. ASSUME NEW result \in {"ok", "cancelled", "blocked", "error"}, Results(r, result)
      PROVE  Releases(r) /\ job' \in Job /\ old' \in BOOLEAN
  BY <1>1, <1>2, <1>4 DEF Results, SavesAndReleases
<1>5. Releases(r) /\ job' \in Job /\ old' \in BOOLEAN
  <2>1. CASE StopsAtProbe(r)
    BY <1>1, <2>1 DEF StopsAtProbe, SavesAndReleases
  <2>2. CASE FindsChatStarted(r)
    BY <1>1, <1>3, <2>2 DEF FindsChatStarted, SavesAndReleases
  <2>3. CASE FindsItUnready(r)
    BY <1>1, <1>3, <2>3 DEF FindsItUnready, SavesAndReleases
  <2>4. CASE StepThrows(r)
    BY <1>1, <1>3, <2>4 DEF StepThrows, SavesAndReleases
  <2>5. CASE FindsItOvertaken(r)
    <3>1. \E result \in {"ok", "cancelled", "blocked", "error"} : Results(r, result)
      BY <2>5 DEF FindsItOvertaken, Overtaken
    <3> QED
      BY <1>4, <3>1
  <2>6. CASE Confirms(r)
    BY <1>4, <2>6 DEF Confirms
  <2>7. CASE DeliveryFails(r)
    BY <1>4, <2>7 DEF DeliveryFails
  <2> QED
    BY <2>1, <2>2, <2>3, <2>4, <2>5, <2>6, <2>7
<1>6. UNCHANGED <<target, faults>>
  BY DEF StopsAtProbe, FindsChatStarted, FindsItUnready, StepThrows, FindsItOvertaken, Confirms,
         DeliveryFails
<1> QED
  BY <1>1, <1>5, <1>6, RelayReleases

\* The target is bound, then a model chosen.
LEMMA BindingKeepsOrder ==
    ASSUME AutoInOrder, NEW r \in Relays, Binds(r) \/ Chooses(r)
    PROVE  AutoInOrder'
<1>1. /\ relay[r] \in RelayState /\ Mine(r) \in Job /\ Mine(r) = relay[r].mine
      /\ job \in Job /\ turn \in Relays \cup {"none"}
      /\ target \in Shown /\ old \in BOOLEAN /\ faults \in Nat
      /\ lock \in [owner : Relays \cup {"none"}, life : Nat, dispatching : BOOLEAN]
  BY DEF AutoInOrder, AutoTypeOK, RelayState, Mine
<1>2. CASE Binds(r)
  <2> DEFINE status == IF Mine(r).chosen THEN Mine(r).status ELSE "selecting"
             b == [Mine(r) EXCEPT !.bound = TRUE, !.status = status]
             pc == IF b.chosen THEN "turn" ELSE "choose"
             s == [relay[r] EXCEPT !.mine = b, !.ready = target.ready, !.pc = pc]
  <2>1. /\ job' = b
        /\ relay' = [relay EXCEPT ![r] = s]
        /\ UNCHANGED <<lock, turn, target, old, faults>>
    BY <1>2 DEF Binds
  <2>2. status \in {"none", "waiting", "selecting", "delivered", "cancelled", "failed"}
    BY <1>1 DEF Job
  <2>3. pc \in {"turn", "choose"} /\ target.ready \in BOOLEAN
    BY <1>1 DEF Shown
  <2> HIDE DEF status, pc
  <2>4. b \in Job /\ b.bound
    BY <1>1, <2>2 DEF Job
  <2> HIDE DEF b
  <2>5. s \in RelayState /\ s.pc = pc /\ s.mine = b
    BY <1>1, <2>3, <2>4 DEF RelayState
  <2> HIDE DEF s
  <2>6. CopyIsCovered'
    BY <2>1, <2>3, <2>5, NobodyTypes
  <2> QED
    BY <1>1, <2>1, <2>3, <2>4, <2>5, <2>6, RelayMoves
<1>3. CASE Chooses(r) /\ ~IsCurrent(r)
  BY <1>1, <1>3, RelayReleases DEF Chooses
<1>4. CASE Chooses(r) /\ IsCurrent(r)
  <2> DEFINE c == [Mine(r) EXCEPT !.chosen = TRUE, !.status = "waiting"]
             s == [relay[r] EXCEPT !.mine = c, !.pc = "turn"]
  <2>1. /\ job' = c
        /\ relay' = [relay EXCEPT ![r] = s]
        /\ UNCHANGED <<lock, turn, target, old, faults>>
        /\ relay[r].pc = "choose"
    BY <1>4 DEF Chooses, At
  <2>2. c \in Job /\ c.bound = Mine(r).bound
    BY <1>1 DEF Job
  <2>3. Mine(r).bound
    BY <1>1, <2>1 DEF AutoInOrder, DeliversBound
  <2> HIDE DEF c
  <2>4. s \in RelayState /\ s.pc = "turn" /\ s.mine = c
    BY <1>1, <2>2 DEF RelayState
  <2> HIDE DEF s
  <2>5. CopyIsCovered'
    BY <2>1, <2>4, NobodyTypes
  <2> QED
    BY <1>1, <2>1, <2>2, <2>3, <2>4, <2>5, RelayMoves
<1> QED
  BY <1>2, <1>3, <1>4

\* The turn is taken, the settings go in, the prompt is typed, and seen or not.
LEMMA TypingInTurn ==
    ASSUME AutoInOrder, NEW r \in Relays,
           Dispatches(r) \/ Applies(r) \/ Types(r) \/ TypesUnseen(r)
    PROVE  AutoInOrder'
<1>1. /\ relay[r] \in RelayState /\ Mine(r) = relay[r].mine
      /\ job \in Job /\ turn \in Relays \cup {"none"}
      /\ target \in Shown /\ old \in BOOLEAN /\ faults \in Nat
      /\ lock \in [owner : Relays \cup {"none"}, life : Nat, dispatching : BOOLEAN]
  BY DEF AutoInOrder, AutoTypeOK, RelayState, Mine
<1> DEFINE Going(pc) == [relay[r] EXCEPT !.pc = pc]
<1>2. \A pc \in {"apply", "type", "typed"} :
        Going(pc) \in RelayState /\ Going(pc).pc = pc /\ Going(pc).mine = relay[r].mine
  BY <1>1 DEF RelayState
<1>3. relay[r].pc \in {"turn", "apply", "type"} /\ relay[r].mine.bound
  <2>1. relay[r].pc \in {"turn", "apply", "type"}
    BY DEF Dispatches, Applies, Types, TypesUnseen, At
  <2> QED
    BY <2>1 DEF AutoInOrder, DeliversBound
<1>4. CASE Dispatches(r)
  <2>1. /\ relay[r].pc = "turn" /\ turn = "none" /\ turn' = r
        /\ relay' = [relay EXCEPT ![r] = Going("apply")]
        /\ lock' = [owner |-> r, life |-> relay[r].life, dispatching |-> TRUE]
        /\ UNCHANGED <<job, target, old, faults>>
    BY <1>4 DEF Dispatches, At, Clear, Looks, Goes
  <2>2. lock' \in [owner : Relays \cup {"none"}, life : Nat, dispatching : BOOLEAN]
    BY <1>1, <2>1 DEF RelayState
  <2>3. Going("apply") \in RelayState /\ Going("apply").pc = "apply" /\ Going("apply").mine.bound
    BY <1>2, <1>3
  <2> HIDE DEF Going
  <2>4. CopyIsCovered'
    BY <2>1, <2>3, NobodyTypes
  <2>5. \A q \in Relays : ~(q # r /\ turn = q)
    BY <2>1, AutoAssumption
  <2> QED
    BY <1>1, <2>1, <2>2, <2>3, <2>4, <2>5, RelayMoves
<1>5. CASE Applies(r)
  <2>1. /\ relay[r].pc = "apply" /\ Overtaken(r) = "none"
        /\ relay' = [relay EXCEPT ![r] = Going("type")]
        /\ UNCHANGED <<job, lock, turn, target, old, faults>>
    BY <1>5 DEF Applies, At, Clear, Goes
  <2>2. ~target.seen
    BY <1>1, <1>3, <2>1 DEF Overtaken, Received
  <2>3. turn = r
    BY <2>1 DEF AutoInOrder, ActsInTurn
  <2>4. CopyIsCovered'
    BY <2>1, <2>2 DEF AutoInOrder, CopyIsCovered
  <2>5. Going("type") \in RelayState /\ Going("type").pc = "type" /\ Going("type").mine.bound
    BY <1>2, <1>3
  <2> HIDE DEF Going
  <2> QED
    BY <1>1, <2>1, <2>3, <2>4, <2>5, RelayMoves
<1> DEFINE typed == target.typed
           unseen == target.unseen
           late == target.late
           more == typed + 1
           hidden == unseen + 1
           rest == late + 1
<1>6. CASE Types(r) \/ TypesUnseen(r)
  <2>1. relay[r].pc = "type" /\ turn = r
    BY <1>6 DEF Types, TypesUnseen, At, AutoInOrder, ActsInTurn
  <2>2. typed <= unseen /\ typed \in Nat /\ unseen \in Nat /\ late \in Nat
    BY <1>1, <2>1 DEF AutoInOrder, CopyIsCovered, Shown
  <2>3. /\ more \in Nat /\ hidden \in Nat /\ rest \in Nat
        /\ more <= 1 + unseen /\ more <= hidden /\ more <= 1 + hidden
    BY <2>2
  <2>4. \A q \in Relays : q # r => relay[q].pc # "type"
    BY <2>1 DEF AutoInOrder, ActsInTurn
  <2>5. CASE Types(r)
    <3> DEFINE t == [target EXCEPT !.typed = more, !.seen = TRUE]
    <3>1. /\ target' = t
          /\ relay' = [relay EXCEPT ![r] = Going("typed")]
          /\ UNCHANGED <<job, lock, turn, old, faults>>
      BY <2>5 DEF Types, Goes
    <3> HIDE DEF typed, more
    <3>2. t \in Shown /\ t.typed = more /\ t.unseen = unseen /\ t.seen
      BY <1>1, <2>3 DEF Shown
    <3>3. Going("typed") \in RelayState /\ Going("typed").pc = "typed" /\ Going("typed").mine.bound
      BY <1>2, <1>3
    <3> HIDE DEF t, Going
    <3>4. \A q \in Relays : relay'[q].pc # "type"
      <4>1. relay \in [Relays -> RelayState]
        BY DEF AutoInOrder, AutoTypeOK
      <4> QED
        BY <2>4, <3>1, <3>3, <4>1
    <3>5. CopyIsCovered'
      BY <2>3, <3>1, <3>2, <3>4 DEF CopyIsCovered
    <3> QED
      BY <1>1, <2>1, <3>1, <3>2, <3>3, <3>5, RelayMoves
  <2>6. CASE TypesUnseen(r)
    <3> DEFINE t == [target EXCEPT !.typed = more, !.unseen = hidden, !.late = rest]
               s == [relay[r] EXCEPT !.pc = "idle", !.mine = NoJob]
    <3>1. target' = t /\ Results(r, "error") /\ faults' = faults + 1
      BY <2>6 DEF TypesUnseen, Fault
    <3>2. faults' \in Nat
      BY <1>1, <3>1
    <3> HIDE DEF typed, unseen, late, more, hidden, rest
    <3>3. t \in Shown /\ t.typed = more /\ t.unseen = hidden
      BY <1>1, <2>3 DEF Shown
    <3>4. /\ Releases(r) /\ old' \in BOOLEAN /\ job' \in Job
      <4>1. AfterDelivery(r, "error") \in Job
        BY DeliveriesGiveJobs
      <4> QED
        BY <1>1, <3>1, <4>1 DEF Results, SavesAndReleases
    <3>5. /\ relay' = [relay EXCEPT ![r] = s]
          /\ lock' = Free
          /\ turn' = "none"
      BY <2>1, <3>4 DEF Releases
    <3>6. s \in RelayState /\ s.pc = "idle"
      BY <1>1 DEF RelayState, NoJob, Job
    <3>7. lock' \in [owner : Relays \cup {"none"}, life : Nat, dispatching : BOOLEAN]
      BY <3>5 DEF Free
    <3> HIDE DEF t, s
    <3>8. CopyIsCovered'
      BY <2>3, <3>1, <3>3 DEF CopyIsCovered
    <3>9. turn' \in Relays \cup {"none"} /\ \A q \in Relays : ~(q # r /\ turn = q)
      BY <2>1, <3>5
    <3> QED
      BY <3>1, <3>2, <3>3, <3>4, <3>5, <3>6, <3>7, <3>8, <3>9, RelayMoves
  <2> QED
    BY <1>6, <2>5, <2>6
<1> QED
  BY <1>4, <1>5, <1>6

\* Nobody moves: the phone, the person, Conductor and the screen.
LEMMA RelaysStand ==
    ASSUME AutoInOrder, UNCHANGED <<relay, turn>>,
           job' \in Job, lock' \in [owner : Relays \cup {"none"}, life : Nat, dispatching : BOOLEAN],
           target' \in Shown, old' \in BOOLEAN, faults' \in Nat,
           target'.typed = target.typed, target'.unseen = target.unseen,
           target.typed <= target.unseen \/ (target'.seen <=> target.seen)
    PROVE  AutoInOrder'
<1>1. AutoTypeOK' /\ ActsInTurn' /\ DeliversBound'
  BY DEF AutoInOrder, AutoTypeOK, ActsInTurn, DeliversBound
<1>2. CopyIsCovered'
  <2>1. target.typed \in Nat /\ target.unseen \in Nat
    BY DEF AutoInOrder, AutoTypeOK, Shown
  <2> QED
    BY <2>1 DEF AutoInOrder, CopyIsCovered
<1> QED
  BY <1>1, <1>2 DEF AutoInOrder

LEMMA OutsideKeepsOrder ==
    ASSUME AutoInOrder,
           \/ Submits \/ Cancels \/ SetsUp \/ PersonWrites \/ RowShowsUp \/ Ages \/ Locks \/ Unlocks
    PROVE  AutoInOrder'
<1>1. /\ job \in Job /\ target \in Shown /\ old \in BOOLEAN /\ faults \in Nat
      /\ lock \in [owner : Relays \cup {"none"}, life : Nat, dispatching : BOOLEAN]
  BY DEF AutoInOrder, AutoTypeOK
<1>2. UNCHANGED <<relay, turn, lock>>
  BY DEF Submits, Cancels, SetsUp, PersonWrites, RowShowsUp, Ages, Locks, Unlocks
<1>3. old' \in BOOLEAN /\ faults' \in Nat
  <2>1. old' = old \/ old' = FALSE \/ old' = TRUE
    BY Zenon DEF Submits, Cancels, SetsUp, PersonWrites, RowShowsUp, Ages, Locks, Unlocks
  <2>2. faults' = faults \/ faults' = faults + 1
    BY DEF Submits, Cancels, SetsUp, PersonWrites, RowShowsUp, Ages, Locks, Unlocks, Fault
  <2>3. old' \in BOOLEAN
    BY <1>1, <2>1, Zenon
  <2>4. faults' \in Nat
    BY <1>1, <2>2
  <2> QED
    BY <2>3, <2>4
<1>4. job' \in Job
  <2>1. CASE Submits
    <3> DEFINE gen == job.gen + 1
    <3>1. gen \in Nat
      BY <1>1 DEF Job
    <3> HIDE DEF gen
    <3>2. NewJob(gen) \in Job
      BY <3>1 DEF NewJob, NoJob, Job
    <3>3. [job EXCEPT !.status = "waiting", !.attempts = 0, !.early = 0] \in Job
      BY <1>1 DEF Job
    <3> QED
      BY <2>1, <3>2, <3>3 DEF Submits, gen
  <2>2. CASE Cancels
    BY <1>1, <2>2, JobChanges DEF Cancels
  <2>3. CASE SetsUp \/ PersonWrites \/ RowShowsUp \/ Ages \/ Locks \/ Unlocks
    BY <1>1, <2>3 DEF SetsUp, PersonWrites, RowShowsUp, Ages, Locks, Unlocks
  <2> QED
    BY <2>1, <2>2, <2>3
<1>5. /\ target' \in Shown
      /\ target'.typed = target.typed /\ target'.unseen = target.unseen
      /\ target.typed <= target.unseen \/ (target'.seen <=> target.seen)
  <2>1. CASE RowShowsUp
    <3> DEFINE rest == target.late - 1
    <3>1. rest \in Nat
      BY <1>1, <2>1 DEF RowShowsUp, Shown
    <3>2. target' = [target EXCEPT !.late = rest, !.seen = TRUE]
      BY <2>1 DEF RowShowsUp
    <3> HIDE DEF rest
    <3>3. /\ target' \in Shown /\ target'.seen
          /\ target'.typed = target.typed /\ target'.unseen = target.unseen
      BY <1>1, <3>1, <3>2 DEF Shown
    <3>4. target.typed <= target.unseen \/ target.seen
      BY DEF AutoInOrder, CopyIsCovered
    <3> QED
      BY <3>3, <3>4
  <2>2. CASE SetsUp \/ PersonWrites \/ Locks \/ Unlocks
    <3>1. \/ target' = [target EXCEPT !.session = TRUE]
          \/ target' = [target EXCEPT !.ready = TRUE]
          \/ target' = [target EXCEPT !.other = TRUE]
          \/ target' = [target EXCEPT !.locked = TRUE]
          \/ target' = [target EXCEPT !.locked = FALSE]
      BY <2>2 DEF SetsUp, PersonWrites, Locks, Unlocks
    <3> QED
      BY <1>1, <3>1 DEF Shown
  <2>3. CASE Submits \/ Cancels \/ Ages
    BY <1>1, <2>3 DEF Submits, Cancels, Ages
  <2> QED
    BY <2>1, <2>2, <2>3
<1> QED
  BY <1>1, <1>2, <1>3, <1>4, <1>5, RelaysStand

\* A relay dies and another one takes its place.
LEMMA LifeKeepsOrder ==
    ASSUME AutoInOrder, NEW r \in Relays, Dies(r) \/ Starts(r)
    PROVE  AutoInOrder'
<1>1. /\ relay[r] \in RelayState /\ relay[r].life \in Nat
      /\ job \in Job /\ turn \in Relays \cup {"none"}
      /\ target \in Shown /\ old \in BOOLEAN /\ faults \in Nat
      /\ lock \in [owner : Relays \cup {"none"}, life : Nat, dispatching : BOOLEAN]
  BY DEF AutoInOrder, AutoTypeOK, RelayState
<1>2. \A n \in Nat : Asleep(n) \in RelayState /\ Asleep(n).pc = "idle"
  BY DEF Asleep, RelayState, NoJob, Job
<1>3. /\ UNCHANGED <<job, lock, target, old>>
      /\ faults' \in Nat
      /\ turn' \in Relays \cup {"none"}
      /\ \A q \in Relays : q # r /\ turn = q => turn' = q
  BY <1>1 DEF Dies, Starts, Fault
<1>4. \E s \in RelayState : s.pc = "idle" /\ relay' = [relay EXCEPT ![r] = s]
  <2>1. CASE Dies(r)
    <3> DEFINE a == Asleep(relay[r].life)
    <3>1. a \in RelayState /\ a.pc = "idle"
      BY <1>1, <1>2
    <3>2. relay' = [relay EXCEPT ![r] = [a EXCEPT !.up = FALSE]]
      BY <2>1 DEF Dies
    <3> HIDE DEF a
    <3>3. [a EXCEPT !.up = FALSE] \in RelayState /\ [a EXCEPT !.up = FALSE].pc = "idle"
      BY <3>1 DEF RelayState
    <3> QED
      BY <3>2, <3>3
  <2>2. CASE Starts(r)
    <3> DEFINE n == relay[r].life + 1
    <3>1. n \in Nat /\ relay' = [relay EXCEPT ![r] = Asleep(n)]
      BY <1>1, <2>2 DEF Starts
    <3> QED
      BY <1>2, <3>1
  <2> QED
    BY <2>1, <2>2
<1>5. PICK s \in RelayState : s.pc = "idle" /\ relay' = [relay EXCEPT ![r] = s]
  BY <1>4
<1>6. CopyIsCovered'
  BY <1>3, <1>5, NobodyTypes
<1> QED
  BY <1>1, <1>3, <1>5, <1>6, RelayMoves

LEMMA AutoSteps ==
    ASSUME AutoInOrder, [AutoNext]_autoVars
    PROVE  AutoInOrder'
<1>1. CASE UNCHANGED autoVars
  <2>1. UNCHANGED <<job, lock, relay, turn, target, old, faults>>
    BY <1>1 DEF autoVars
  <2>2. /\ job \in Job /\ target \in Shown /\ old \in BOOLEAN /\ faults \in Nat
        /\ lock \in [owner : Relays \cup {"none"}, life : Nat, dispatching : BOOLEAN]
    BY DEF AutoInOrder, AutoTypeOK
  <2> QED
    BY <2>1, <2>2, RelaysStand
<1>2. ASSUME NEW r \in Relays, Step(r)
      PROVE  AutoInOrder'
  BY <1>2, LockKeepsOrder, EndsKeepOrder, BindingKeepsOrder, TypingInTurn DEF Step
<1> QED
  BY <1>1, <1>2, LifeKeepsOrder, OutsideKeepsOrder DEF AutoNext

\* The inductive invariant of the Auto queue: one relay acts on the window, after
\* it has looked again inside its turn (queue.ts, auto-model.ts).
THEOREM AutoQueueIsInOrder == AutoSpec => []AutoInOrder
<1> QED
  BY AutoStarts, AutoSteps, PTL DEF AutoSpec

\* However the lock file is stolen and overwritten, the prompt is typed once, but
\* for copies that stayed out of sight (auto-model.ts, the looks inside the UI
\* turn), for any number of relays and faults.
THEOREM AutoPromptsAreSentOnce == AutoSpec => []AutoPromptIsSentOnce
<1>1. AutoInOrder => AutoPromptIsSentOnce
  BY DEF AutoInOrder, CopyIsCovered, AutoPromptIsSentOnce
<1> QED
  BY <1>1, AutoQueueIsInOrder, PTL
=============================================================================
