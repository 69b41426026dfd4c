---------------------------- MODULE BackgroundProofs ----------------------------
(* Proofs about what a relay does without being asked: the notices of finished   *)
(* turns (TurnNotices), the forwards of dev servers (DevForwards) and the        *)
(* delegations (DelegationQueue).                                                *)
EXTENDS DelegationQueue, TurnNotices, DevForwards, SequenceTheorems, TLAPS

-----------------------------------------------------------------------------
(* Notices. *)

Statuses == {"null", "idle", "working", "error", "gone"}

\* Type invariant of the notices.
NoticeTypeOK ==
    /\ chat \in [Chats -> [status : Statuses, asked : Nat]]
    /\ devices \in BOOLEAN
    /\ previous \in [Chats -> Statuses \cup {"unseen"}]
    /\ armed \in [Chats -> {"none", "done", "error"}]
    /\ notified \in [Chats -> Nat]
    /\ due \subseteq [chat : Chats, kind : {"none", "done", "error"}]
    /\ told \in [Chats -> Nat]
    /\ moves \in Nat

\* A message that was answered by a "done" is the last one the watcher notified of.
DoneIsNoted ==
    \A c \in Chats :
        chat[c].asked # 0 => told[c] = 0 \/ (told[c] = 1 /\ notified[c] = chat[c].asked)

NoticesInOrder == NoticeTypeOK /\ DoneIsNoted

LEMMA NoticesStart == NoticeInit => NoticesInOrder
  BY DEF NoticeInit, NoticesInOrder, NoticeTypeOK, DoneIsNoted, Statuses

\* What a chat does beside the watcher.
LEMMA ChatsMove ==
    ASSUME NoticesInOrder, NEW c \in Chats, NEW state \in [status : Statuses, asked : Nat],
           chat' = [chat EXCEPT ![c] = state],
           state.asked = chat[c].asked, UNCHANGED <<devices, watcher>>, moves' \in Nat
    PROVE  NoticesInOrder'
<1>1. UNCHANGED <<devices, previous, armed, notified, due, told>>
  BY DEF watcher
<1>2. /\ chat' \in [Chats -> [status : Statuses, asked : Nat]]
      /\ \A d \in Chats : chat'[d].asked = chat[d].asked
  BY DEF NoticesInOrder, NoticeTypeOK
<1>3. NoticeTypeOK'
  BY <1>1, <1>2 DEF NoticesInOrder, NoticeTypeOK
<1>4. DoneIsNoted'
  BY <1>1, <1>2 DEF NoticesInOrder, DoneIsNoted
<1> QED
  BY <1>3, <1>4 DEF NoticesInOrder

LEMMA NoticeMovesKeepOrder ==
    ASSUME NoticesInOrder, NEW c \in Chats, Cycles(c) \/ Archives(c)
    PROVE  NoticesInOrder'
<1>1. chat[c] \in [status : Statuses, asked : Nat] /\ moves \in Nat
  BY DEF NoticesInOrder, NoticeTypeOK
<1>2. UNCHANGED <<devices, watcher>> /\ moves' \in Nat
  BY <1>1 DEF Cycles, Archives, Moves
<1>3. PICK s \in Statuses : chat' = [chat EXCEPT ![c].status = s]
  <2>1. CASE Cycles(c)
    BY <2>1 DEF Cycles, Statuses
  <2>2. CASE Archives(c)
    BY <2>2 DEF Archives, Statuses
  <2> QED
    BY <2>1, <2>2
<1> DEFINE state == [chat[c] EXCEPT !.status = s]
<1>4. state \in [status : Statuses, asked : Nat] /\ state.asked = chat[c].asked
  BY <1>1
<1>5. chat' = [chat EXCEPT ![c] = state]
  BY <1>3
<1> HIDE DEF state
<1> QED
  BY <1>2, <1>4, <1>5, ChatsMove

\* A message may be answered again.
LEMMA AskKeepsOrder ==
    ASSUME NoticesInOrder, NEW c \in Chats, Asks(c)
    PROVE  NoticesInOrder'
<1>1. /\ chat \in [Chats -> [status : Statuses, asked : Nat]]
      /\ chat[c].asked \in Nat
      /\ told \in [Chats -> Nat]
  BY DEF NoticesInOrder, NoticeTypeOK
<1> DEFINE asked == IF chat[c].asked = 0 THEN 0 ELSE chat[c].asked + 1
           state == [chat[c] EXCEPT !.status = "working", !.asked = asked]
           tells == IF chat[c].asked = 0 THEN told[c] ELSE 0
<1>2. /\ chat' = [chat EXCEPT ![c] = state]
      /\ told' = [told EXCEPT ![c] = tells]
      /\ UNCHANGED <<devices, previous, armed, notified, due, moves>>
  BY DEF Asks
<1>3. /\ asked \in Nat /\ tells \in Nat
      /\ asked # 0 => tells = 0
  BY <1>1
<1> HIDE DEF asked, tells
<1>4. state \in [status : Statuses, asked : Nat] /\ state.asked = asked
  BY <1>1, <1>3 DEF Statuses
<1> HIDE DEF state
<1>5. /\ chat' \in [Chats -> [status : Statuses, asked : Nat]]
      /\ told' \in [Chats -> Nat]
      /\ \A d \in Chats : /\ chat'[d] = IF d = c THEN state ELSE chat[d]
                          /\ told'[d] = IF d = c THEN tells ELSE told[d]
  BY <1>1, <1>2, <1>3, <1>4
<1>6. NoticeTypeOK'
  BY <1>2, <1>5 DEF NoticesInOrder, NoticeTypeOK
<1>7. DoneIsNoted'
  BY <1>2, <1>3, <1>4, <1>5 DEF NoticesInOrder, DoneIsNoted
<1> QED
  BY <1>6, <1>7 DEF NoticesInOrder

\* A poll tells a "done" only of a message it has not told of.
LEMMA PollKeepsOrder ==
    ASSUME NoticesInOrder, Polls
    PROVE  NoticesInOrder'
<1>1. UNCHANGED <<chat, devices, moves>>
  BY DEF Polls
<1>2. \A c \in Chats : /\ chat[c].asked \in Nat /\ notified[c] \in Nat /\ told[c] \in Nat
                       /\ chat[c].status \in Statuses /\ armed[c] \in {"none", "done", "error"}
  BY DEF NoticesInOrder, NoticeTypeOK
<1>3. CASE Forgets
  <2>1. NoticeTypeOK'
    BY <1>1, <1>3 DEF NoticesInOrder, NoticeTypeOK, Forgets
  <2>2. DoneIsNoted'
    BY <1>3 DEF DoneIsNoted, Forgets
  <2> QED
    BY <2>1, <2>2 DEF NoticesInOrder
<1>4. CASE Steps
  <2>1. ASSUME NEW c \in Chats
        PROVE  /\ notified'[c] \in Nat /\ told'[c] \in Nat
               /\ chat[c].asked # 0 => told'[c] = 0 \/ (told'[c] = 1 /\ notified'[c] = chat[c].asked)
    <3>1. /\ notified'[c] = IF ~Live(c) THEN 0
                            ELSE IF TellsDone(c) /\ chat[c].asked # 0 THEN chat[c].asked ELSE notified[c]
          /\ told'[c] = IF ~Live(c) THEN 0 ELSE IF TellsDone(c) THEN told[c] + 1 ELSE told[c]
      BY <1>4 DEF Steps
    <3>2. CASE ~Live(c)
      BY <3>1, <3>2
    <3>3. CASE Live(c) /\ ~TellsDone(c)
      <4>1. notified'[c] = notified[c] /\ told'[c] = told[c]
        BY <3>1, <3>3
      <4> QED
        BY <1>2, <4>1 DEF NoticesInOrder, DoneIsNoted
    <3>4. CASE Live(c) /\ TellsDone(c)
      <4>1. /\ notified'[c] = IF chat[c].asked # 0 THEN chat[c].asked ELSE notified[c]
            /\ told'[c] = told[c] + 1
        BY <3>1, <3>4
      <4>2. chat[c].asked # 0 => notified[c] # chat[c].asked
        BY <3>4 DEF TellsDone, Fires, SelfScheduled
      <4>3. chat[c].asked # 0 => told[c] = 0
        BY <4>2 DEF NoticesInOrder, DoneIsNoted
      <4> QED
        BY <1>2, <4>1, <4>3
    <3> QED
      BY <3>2, <3>3, <3>4
  <2>2. /\ notified' \in [Chats -> Nat] /\ told' \in [Chats -> Nat]
    <3>1. DOMAIN notified' = Chats /\ DOMAIN told' = Chats
          /\ notified' = [c \in Chats |-> notified'[c]] /\ told' = [c \in Chats |-> told'[c]]
      BY <1>4 DEF Steps
    <3> QED
      BY <2>1, <3>1
  <2>3. \A c \in Chats : Arms(c) \in {"none", "done", "error"}
    BY DEF Arms
  <2>4. /\ armed' \in [Chats -> {"none", "done", "error"}]
        /\ previous' \in [Chats -> Statuses \cup {"unseen"}]
        /\ due' \subseteq [chat : Chats, kind : {"none", "done", "error"}]
    BY <1>2, <1>4, <2>3 DEF Steps
  <2>5. NoticeTypeOK'
    BY <1>1, <2>2, <2>4 DEF NoticesInOrder, NoticeTypeOK
  <2>6. DoneIsNoted'
    BY <1>1, <2>1 DEF DoneIsNoted
  <2> QED
    BY <2>5, <2>6 DEF NoticesInOrder
<1> QED
  BY <1>3, <1>4 DEF Polls

\* The inductive invariant of the notices (notify.ts, notifiedTurn).
THEOREM NoticesAreInOrder == NoticeSpec => []NoticesInOrder
<1>1. NoticeInit => NoticesInOrder
  BY NoticesStart
<1>2. NoticesInOrder /\ [NoticeNext]_noticeVars => NoticesInOrder'
  <2> SUFFICES ASSUME NoticesInOrder, [NoticeNext]_noticeVars
               PROVE  NoticesInOrder'
    OBVIOUS
  <2>1. CASE UNCHANGED noticeVars
    BY <2>1 DEF noticeVars, watcher, NoticesInOrder, NoticeTypeOK, DoneIsNoted
  <2>2. CASE Subscribes
    <3>1. moves \in Nat /\ devices \in BOOLEAN
      BY DEF NoticesInOrder, NoticeTypeOK
    <3>2. moves' \in Nat /\ devices' \in BOOLEAN
      BY <2>2, <3>1 DEF Subscribes, Moves
    <3>3. UNCHANGED <<chat, previous, armed, notified, due, told>>
      BY <2>2 DEF Subscribes, Moves, watcher
    <3> QED
      BY <3>2, <3>3 DEF NoticesInOrder, NoticeTypeOK, DoneIsNoted
  <2> QED
    BY <2>1, <2>2, PollKeepsOrder, AskKeepsOrder, NoticeMovesKeepOrder DEF NoticeNext
<1> QED
  BY <1>1, <1>2, PTL DEF NoticeSpec

\* One message of the person is answered by one "done" at most (notify.ts,
\* selfScheduled), for any number of chats, messages and turns between two polls.
THEOREM LapsStayQuiet == NoticeSpec => []LapsAreQuiet
<1>1. NoticesInOrder => LapsAreQuiet
  BY DEF NoticesInOrder, NoticeTypeOK, DoneIsNoted, LapsAreQuiet
<1> QED
  BY <1>1, NoticesAreInOrder, PTL

-----------------------------------------------------------------------------
(* Forwards. *)

Receipt == [port : Ports \cup {0}, bridge : Nat]

\* What a relay remembers, and a request or restore() it works on.
Memory == [record : Receipt, own : Nat, mixed : BOOLEAN, spoiled : BOOLEAN]

Stages == {"done", "look", "release", "unset", "off", "close", "choose", "serve", "record",
          "restore", "owned"}

Work == [pc : Stages, mine : Receipt, held : Nat, port : Ports \cup {0}, bridge : Nat,
         failed : BOOLEAN, start : BOOLEAN]

\* Type invariant of the forwards.
ForwardTypeOK ==
    /\ file \in Receipt
    /\ serve \in [Ports -> Nat]
    /\ opened \in Seq(Relays)
    /\ open \subseteq 1..Len(opened)
    /\ relay \in [Relays -> Memory]
    /\ thread \in [Relays -> [Threads -> Work]]
    /\ taps \in Nat /\ faults \in Nat

\* A bridge that is named was opened; one is in hand only between serve and the
\* receipt; restore() was not begun by Start.
BridgesAreKnown(mem, work, n) ==
    /\ mem.record.bridge <= n
    /\ \A t \in Threads : /\ work[t].bridge <= n
                          /\ work[t].pc \notin {"serve", "record"} => work[t].bridge = 0
    /\ ~work["boot"].start

\* The bridge of the receipt is this relay's own, and answers.
Holds(r, mem, log, live) == mem.record.bridge \in live /\ log[mem.record.bridge] = r

\* Where a relay has nothing that answers, or is about to make a new forward.
Empty == {"choose", "serve", "record", "restore", "owned"}

\* A relay that is neither mixed nor spoiled does one thing at a time, closes the
\* bridge its receipt names, makes a new one only when it has none, and knows of
\* every bridge of its own that answers.
RelayInOrder(r, mem, work, log, live) ==
    ~mem.mixed /\ ~mem.spoiled =>
        /\ work["tap"].pc = "done" \/ work["boot"].pc = "done"
        /\ \A t \in Threads : work[t].pc \in {"unset", "off", "close"} => work[t].held = mem.own
        /\ Holds(r, mem, log, live) => mem.own = mem.record.bridge
        /\ \A t \in Threads : work[t].pc \in Empty => ~Holds(r, mem, log, live)
        /\ \A b \in live : log[b] = r =>
              mem.record.bridge = b \/ \E t \in Threads : work[t].bridge = b

ForwardsInOrder ==
    /\ ForwardTypeOK
    /\ file.bridge <= Len(opened)
    /\ \A r \in Relays : /\ BridgesAreKnown(relay[r], thread[r], Len(opened))
                         /\ RelayInOrder(r, relay[r], thread[r], opened, open)

\* The log of bridges is the same, or has one more of this relay.
Grows(r, live) ==
    \/ opened' = opened /\ live \subseteq open
    \/ opened' = Append(opened, r) /\ live \subseteq open \cup {Len(opened) + 1}

LEMMA LogGrows ==
    ASSUME ForwardTypeOK, NEW r \in Relays, NEW live, Grows(r, live)
    PROVE  /\ opened' \in Seq(Relays)
           /\ Len(opened) \in Nat /\ Len(opened') \in Nat
           /\ Len(opened) <= Len(opened')
           /\ live \subseteq 1..Len(opened')
           /\ \A b \in 1..Len(opened) : opened'[b] = opened[b]
           /\ \A b \in live : b \in open \/ (b = Len(opened) + 1 /\ opened'[b] = r)
<1> DEFINE n == Len(opened)
<1>1. opened \in Seq(Relays) /\ open \subseteq 1..n /\ n \in Nat
  BY LenProperties DEF ForwardTypeOK
<1>2. CASE opened' = opened /\ live \subseteq open
  BY <1>1, <1>2
<1>3. CASE opened' = Append(opened, r) /\ live \subseteq open \cup {n + 1}
  <2>1. /\ opened' \in Seq(Relays) /\ Len(opened') = n + 1 /\ opened'[n + 1] = r
        /\ \A b \in 1..n : opened'[b] = opened[b]
    BY <1>1, <1>3, AppendProperties
  <2> HIDE DEF n
  <2>2. /\ live \subseteq 1..(n + 1)
        /\ \A b \in live : b \in open \/ (b = n + 1 /\ opened'[b] = r)
    BY <1>1, <1>3, <2>1
  <2>3. n <= Len(opened') /\ Len(opened') \in Nat
    BY <1>1, <2>1
  <2> QED
    BY <1>1, <2>1, <2>2, <2>3 DEF n
<1> QED
  BY <1>2, <1>3 DEF Grows

\* What the others know stands when a relay opens a bridge of its own or closes one.
LEMMA OthersStand ==
    ASSUME ForwardsInOrder, NEW r \in Relays, NEW q \in Relays, q # r, NEW live, Grows(r, live)
    PROVE  /\ BridgesAreKnown(relay[q], thread[q], Len(opened'))
           /\ RelayInOrder(q, relay[q], thread[q], opened', live)
<1> DEFINE mem == relay[q]
           work == thread[q]
           n == Len(opened)
           m == Len(opened')
<1>1. /\ n \in Nat /\ m \in Nat /\ n <= m
      /\ \A b \in 1..n : opened'[b] = opened[b]
      /\ \A b \in live : b \in open \/ (b = n + 1 /\ opened'[b] = r)
      /\ open \subseteq 1..n
  BY LogGrows DEF ForwardsInOrder, ForwardTypeOK
<1>2. BridgesAreKnown(mem, work, n) /\ RelayInOrder(q, mem, work, opened, open)
  BY DEF ForwardsInOrder
<1>3. mem \in Memory /\ work \in [Threads -> Work]
  BY DEF ForwardsInOrder, ForwardTypeOK
<1>4. mem.record.bridge \in Nat /\ \A t \in Threads : work[t].bridge \in Nat
  BY <1>3 DEF Memory, Work, Receipt
<1> HIDE DEF mem, work, n, m
<1>5. BridgesAreKnown(mem, work, m)
  BY <1>1, <1>2, <1>4 DEF BridgesAreKnown
<1>6. \A b \in live : opened'[b] = q => b \in open /\ opened[b] = q
  BY <1>1
<1>7. Holds(q, mem, opened', live) => Holds(q, mem, opened, open)
  BY <1>6 DEF Holds
<1>8. RelayInOrder(q, mem, work, opened', live)
  BY <1>2, <1>6, <1>7 DEF RelayInOrder
<1> QED
  BY <1>5, <1>8 DEF mem, work, m

\* A step of one relay: what has to be shown is what it knows afterwards.
LEMMA OneRelayMoves ==
    ASSUME ForwardsInOrder, NEW r \in Relays,
           NEW mem \in Memory, NEW work \in [Threads -> Work],
           relay' = [relay EXCEPT ![r] = mem], thread' = [thread EXCEPT ![r] = work],
           Grows(r, open'),
           file' = file \/ file' = mem.record,
           serve' \in [Ports -> Nat], taps' \in Nat, faults' \in Nat,
           BridgesAreKnown(mem, work, Len(opened')),
           RelayInOrder(r, mem, work, opened', open')
    PROVE  ForwardsInOrder'
<1> USE DEF ForwardsInOrder
<1>1. /\ opened' \in Seq(Relays) /\ open' \subseteq 1..Len(opened')
      /\ Len(opened) \in Nat /\ Len(opened') \in Nat /\ Len(opened) <= Len(opened')
  BY LogGrows
<1>2. /\ relay' \in [Relays -> Memory] /\ thread' \in [Relays -> [Threads -> Work]]
      /\ file' \in Receipt
  BY DEF ForwardTypeOK, Memory
<1>3. ForwardTypeOK'
  BY <1>1, <1>2 DEF ForwardTypeOK
<1>4. file'.bridge <= Len(opened')
  <2>1. file.bridge \in Nat
    BY DEF ForwardTypeOK, Receipt
  <2> QED
    BY <1>1, <2>1 DEF BridgesAreKnown
<1>5. ASSUME NEW q \in Relays
      PROVE  /\ BridgesAreKnown(relay'[q], thread'[q], Len(opened'))
             /\ RelayInOrder(q, relay'[q], thread'[q], opened', open')
  <2>1. CASE q = r
    <3>1. relay'[q] = mem /\ thread'[q] = work
      BY <2>1 DEF ForwardTypeOK
    <3> QED
      BY <2>1, <3>1
  <2>2. CASE q # r
    <3>1. relay'[q] = relay[q] /\ thread'[q] = thread[q]
      BY <2>2 DEF ForwardTypeOK
    <3>2. /\ BridgesAreKnown(relay[q], thread[q], Len(opened'))
          /\ RelayInOrder(q, relay[q], thread[q], opened', open')
      BY <2>2, OthersStand
    <3> QED
      BY <3>1, <3>2
  <2> QED
    BY <2>1, <2>2
<1> QED
  BY <1>3, <1>4, <1>5

\* A step of one request that makes and closes nothing.
LEMMA ThreadMoves ==
    ASSUME ForwardsInOrder, NEW r \in Relays, NEW t \in Threads, NEW th \in Work,
           thread' = [thread EXCEPT ![r][t] = th],
           UNCHANGED <<opened, open, relay>>,
           file' = file \/ file' = relay[r].record,
           serve' \in [Ports -> Nat], taps' \in Nat, faults' \in Nat,
           th.bridge = thread[r][t].bridge,
           th.pc \notin {"serve", "record"} => th.bridge = 0,
           t = "boot" => ~th.start,
           th.pc # "done" => thread[r][t].pc # "done",
           ~relay[r].mixed /\ ~relay[r].spoiled /\ th.pc \in {"unset", "off", "close"} =>
               th.held = relay[r].own,
           th.pc \in Empty => ~Holds(r, relay[r], opened, open) \/ thread[r][t].pc \in Empty
    PROVE  ForwardsInOrder'
<1> DEFINE mem == relay[r]
           old == thread[r]
           work == [thread[r] EXCEPT ![t] = th]
           n == Len(opened)
<1>1. /\ mem \in Memory /\ old \in [Threads -> Work]
      /\ relay \in [Relays -> Memory] /\ thread \in [Relays -> [Threads -> Work]]
  BY DEF ForwardsInOrder, ForwardTypeOK
<1>2. /\ work \in [Threads -> Work]
      /\ \A u \in Threads : work[u] = IF u = t THEN th ELSE old[u]
  BY <1>1
<1>3. relay' = [relay EXCEPT ![r] = mem]
  BY <1>1
<1>4. thread' = [thread EXCEPT ![r] = work]
  BY <1>1
<1>5. BridgesAreKnown(mem, old, n) /\ RelayInOrder(r, mem, old, opened, open)
  BY DEF ForwardsInOrder
<1>6. /\ th.bridge = old[t].bridge
      /\ th.pc # "done" => old[t].pc # "done"
      /\ ~mem.mixed /\ ~mem.spoiled /\ th.pc \in {"unset", "off", "close"} => th.held = mem.own
      /\ th.pc \in Empty => ~Holds(r, mem, opened, open) \/ old[t].pc \in Empty
  OBVIOUS
<1>7. \A u \in Threads : work[u].bridge = old[u].bridge
  BY <1>2, <1>6
<1> HIDE DEF mem, old, work, n
<1>8. BridgesAreKnown(mem, work, n)
  BY <1>2, <1>5, <1>7 DEF BridgesAreKnown, Threads
<1>9. RelayInOrder(r, mem, work, opened, open)
  <2> SUFFICES ASSUME ~mem.mixed, ~mem.spoiled
               PROVE  /\ work["tap"].pc = "done" \/ work["boot"].pc = "done"
                      /\ \A u \in Threads : work[u].pc \in {"unset", "off", "close"} => work[u].held = mem.own
                      /\ Holds(r, mem, opened, open) => mem.own = mem.record.bridge
                      /\ \A u \in Threads : work[u].pc \in Empty => ~Holds(r, mem, opened, open)
                      /\ \A b \in open : opened[b] = r =>
                            mem.record.bridge = b \/ \E u \in Threads : work[u].bridge = b
    BY DEF RelayInOrder
  <2>1. /\ old["tap"].pc = "done" \/ old["boot"].pc = "done"
        /\ \A u \in Threads : old[u].pc \in {"unset", "off", "close"} => old[u].held = mem.own
        /\ Holds(r, mem, opened, open) => mem.own = mem.record.bridge
        /\ \A u \in Threads : old[u].pc \in Empty => ~Holds(r, mem, opened, open)
        /\ \A b \in open : opened[b] = r =>
              mem.record.bridge = b \/ \E u \in Threads : old[u].bridge = b
    BY <1>5 DEF RelayInOrder
  <2>2. work["tap"].pc = "done" \/ work["boot"].pc = "done"
    BY <1>2, <1>6, <2>1 DEF Threads
  <2>3. \A u \in Threads : work[u].pc \in {"unset", "off", "close"} => work[u].held = mem.own
    BY <1>2, <1>6, <2>1
  <2>4. \A u \in Threads : work[u].pc \in Empty => ~Holds(r, mem, opened, open)
    BY <1>2, <1>6, <2>1
  <2>5. \A b \in open : opened[b] = r =>
            mem.record.bridge = b \/ \E u \in Threads : work[u].bridge = b
    BY <1>7, <2>1
  <2> QED
    BY <2>1, <2>2, <2>3, <2>4, <2>5
<1>10. Grows(r, open')
  BY DEF Grows
<1>11. file' = file \/ file' = mem.record
  BY DEF mem
<1>12. BridgesAreKnown(mem, work, Len(opened')) /\ RelayInOrder(r, mem, work, opened', open')
  BY <1>8, <1>9 DEF n
<1> QED
  BY <1>1, <1>2, <1>3, <1>4, <1>10, <1>11, <1>12, OneRelayMoves

\* What is known of a request.
LEMMA WorkIsTyped ==
    ASSUME ForwardsInOrder, NEW r \in Relays, NEW t \in Threads
    PROVE  /\ thread[r][t] \in Work /\ relay[r] \in Memory
           /\ thread[r][t].mine \in Receipt /\ relay[r].record \in Receipt /\ relay[r].own \in Nat
           /\ thread[r][t].port \in Ports \cup {0} /\ thread[r][t].bridge \in Nat
           /\ thread[r][t].held \in Nat /\ thread[r][t].failed \in BOOLEAN
           /\ thread[r][t].start \in BOOLEAN /\ thread[r][t].pc \in Stages
           /\ serve \in [Ports -> Nat] /\ taps \in Nat /\ faults \in Nat
           /\ thread \in [Relays -> [Threads -> Work]] /\ relay \in [Relays -> Memory]
           /\ thread[r] \in [Threads -> Work]
           /\ BridgesAreKnown(relay[r], thread[r], Len(opened))
           /\ RelayInOrder(r, relay[r], thread[r], opened, open)
           /\ thread[r][t].pc \notin {"serve", "record"} => thread[r][t].bridge = 0
           /\ t = "boot" => ~thread[r][t].start
<1>1. /\ thread[r][t] \in Work /\ relay[r] \in Memory
      /\ serve \in [Ports -> Nat] /\ taps \in Nat /\ faults \in Nat
      /\ thread \in [Relays -> [Threads -> Work]] /\ relay \in [Relays -> Memory]
      /\ thread[r] \in [Threads -> Work]
      /\ BridgesAreKnown(relay[r], thread[r], Len(opened))
      /\ RelayInOrder(r, relay[r], thread[r], opened, open)
  BY DEF ForwardsInOrder, ForwardTypeOK
<1>2. /\ thread[r][t].mine \in Receipt
      /\ thread[r][t].port \in Ports \cup {0} /\ thread[r][t].bridge \in Nat
      /\ thread[r][t].held \in Nat /\ thread[r][t].failed \in BOOLEAN
      /\ thread[r][t].start \in BOOLEAN /\ thread[r][t].pc \in Stages
  BY <1>1 DEF Work
<1>3. relay[r].record \in Receipt /\ relay[r].own \in Nat
  BY <1>1 DEF Memory
<1>4. /\ thread[r][t].pc \notin {"serve", "record"} => thread[r][t].bridge = 0
      /\ t = "boot" => ~thread[r][t].start
  BY <1>1 DEF BridgesAreKnown
<1> QED
  BY <1>1, <1>2, <1>3, <1>4

LEMMA DoneIsWork ==
    /\ Done \in Work /\ NoRecord \in Receipt
    /\ [Done EXCEPT !.pc = "release"] \in Work
    /\ \A s \in BOOLEAN, pc \in {"look", "release", "choose"} : [Done EXCEPT !.pc = pc, !.start = s] \in Work
    /\ \A rec \in Receipt : [Done EXCEPT !.pc = "restore", !.mine = rec] \in Work
  BY DEF Done, NoRecord, Work, Receipt, Stages

\* Bridge 0 is none.
LEMMA NothingIsHeld ==
    ASSUME ForwardsInOrder, NEW r, NEW mem, mem.record = NoRecord, NEW live, Grows(r, live), r \in Relays
    PROVE  ~Holds(r, mem, opened', live)
<1>1. 0 \notin live
  BY LogGrows DEF ForwardsInOrder
<1> QED
  BY <1>1 DEF Holds, NoRecord

LEMMA LooksKeepsOrder ==
    ASSUME ForwardsInOrder, NEW r \in Relays, Looks(r)
    PROVE  ForwardsInOrder'
<1> DEFINE old == thread[r]["tap"]
           rec == relay[r].record
<1>1. "tap" \in Threads
  BY DEF Threads
<1>2. /\ old \in Work /\ old.pc = "look" /\ old.bridge = 0 /\ old.start \in BOOLEAN
      /\ serve' \in [Ports -> Nat] /\ taps' \in Nat /\ faults' \in Nat
      /\ thread \in [Relays -> [Threads -> Work]]
  BY <1>1, WorkIsTyped DEF Looks, At
<1>3. UNCHANGED <<opened, open, relay>> /\ (file' = file \/ file' = rec)
  BY DEF Looks
<1>4. PICK th \in Work :
        /\ thread' = [thread EXCEPT ![r]["tap"] = th]
        /\ th.bridge = 0
        /\ th.pc \in {"choose", "done", "release"}
        /\ th.pc = "choose" => rec = NoRecord
  <2>1. CASE rec = NoRecord /\ Goes(r, "tap", "choose")
    <3> DEFINE th == [old EXCEPT !.pc = "choose"]
    <3>1. th \in Work /\ th.bridge = 0 /\ th.pc = "choose"
      BY <1>2 DEF Work, Stages
    <3>2. thread' = [thread EXCEPT ![r]["tap"] = th]
      BY <2>1 DEF Goes
    <3> QED
      BY <2>1, <3>1, <3>2
  <2>2. CASE Ends(r, "tap")
    BY <2>2, DoneIsWork DEF Ends, Done
  <2>3. CASE Goes(r, "tap", "release")
    <3> DEFINE th == [old EXCEPT !.pc = "release"]
    <3>1. th \in Work /\ th.bridge = 0 /\ th.pc = "release"
      BY <1>2 DEF Work, Stages
    <3>2. thread' = [thread EXCEPT ![r]["tap"] = th]
      BY <2>3 DEF Goes
    <3> QED
      BY <3>1, <3>2
  <2> QED
    BY <2>1, <2>2, <2>3 DEF Looks
<1>5. th.pc = "choose" => ~Holds(r, relay[r], opened, open)
  <2>1. Grows(r, open) /\ opened' = opened
    BY <1>3 DEF Grows
  <2> QED
    BY <1>4, <2>1, NothingIsHeld
<1> HIDE DEF old, rec
<1>6. /\ th.bridge = old.bridge
      /\ th.pc # "done" => old.pc # "done"
      /\ th.pc \notin {"serve", "record", "unset", "off", "close"}
      /\ th.pc \in Empty => th.pc = "choose"
  BY <1>2, <1>4 DEF Empty
<1> QED
  BY <1>1, <1>2, <1>3, <1>4, <1>5, <1>6, ThreadMoves DEF old, rec

LEMMA BeginsReleaseKeepsOrder ==
    ASSUME ForwardsInOrder, NEW r \in Relays, NEW t \in Threads, BeginsRelease(r, t)
    PROVE  ForwardsInOrder'
<1> DEFINE old == thread[r][t]
<1>1. /\ old \in Work /\ old.pc = "release" /\ old.bridge = 0
      /\ old.start \in BOOLEAN /\ (t = "boot" => ~old.start)
      /\ relay[r].record \in Receipt /\ relay[r].own \in Nat
      /\ thread \in [Relays -> [Threads -> Work]]
      /\ serve' \in [Ports -> Nat] /\ taps' \in Nat /\ faults' \in Nat
  BY WorkIsTyped DEF BeginsRelease, At
<1>2. UNCHANGED <<opened, open, relay, file>>
  BY DEF BeginsRelease
<1>3. CASE t = "tap" /\ relay[r].record = NoRecord
  <2>1. thread' = [thread EXCEPT ![r][t] = Done]
    BY <1>3 DEF BeginsRelease, Ends
  <2>2. Done \in Work /\ Done.bridge = 0 /\ Done.pc = "done" /\ ~Done.start
    BY DoneIsWork DEF Done
  <2> QED
    BY <1>1, <1>2, <2>1, <2>2, ThreadMoves DEF Empty
<1>4. CASE ~(t = "tap" /\ relay[r].record = NoRecord)
  <2> DEFINE rec == relay[r].record
             own == relay[r].own
             th == [old EXCEPT !.mine = rec, !.held = own, !.pc = "unset"]
  <2>0. thread' = [thread EXCEPT ![r][t].mine = rec, ![r][t].held = own, ![r][t].pc = "unset"]
    BY <1>4 DEF BeginsRelease
  <2>1. thread' = [thread EXCEPT ![r][t] = th]
    <3> HIDE DEF rec, own
    <3>1. [thread EXCEPT ![r][t].mine = rec, ![r][t].held = own, ![r][t].pc = "unset"]
            = [thread EXCEPT ![r][t] = th]
      BY <1>1
    <3> QED
      BY <2>0, <3>1
  <2>2. rec \in Receipt /\ own \in Nat
    BY <1>1
  <2> HIDE DEF rec, own, old
  <2>3. /\ th \in Work /\ th.bridge = old.bridge /\ th.pc = "unset" /\ th.start = old.start
        /\ th.held = own
    BY <1>1, <2>2 DEF Work, Stages
  <2> HIDE DEF th
  <2>4. /\ th.bridge = 0 /\ th.pc \notin Empty /\ (t = "boot" => ~th.start)
        /\ th.held = relay[r].own /\ th.bridge = thread[r][t].bridge /\ thread[r][t].pc # "done"
    BY <1>1, <2>3 DEF Empty, own, old
  <2> QED
    BY <1>1, <1>2, <2>1, <2>3, <2>4, ThreadMoves
<1> QED
  BY <1>3, <1>4

\* The rest of a release changes where the request is, and whether it failed.
LEMMA UnsettingKeepsOrder ==
    ASSUME ForwardsInOrder, NEW r \in Relays, NEW t \in Threads,
           thread[r][t].pc \in {"unset", "off"}, NEW pc \in {"off", "close"}, NEW failed \in BOOLEAN,
           thread' = [thread EXCEPT ![r][t].failed = failed, ![r][t].pc = pc],
           UNCHANGED <<opened, open, relay, file>>,
           serve' \in [Ports -> Nat], taps' \in Nat, faults' \in Nat
    PROVE  ForwardsInOrder'
<1> DEFINE old == thread[r][t]
           th == [old EXCEPT !.failed = failed, !.pc = pc]
<1>1. /\ old \in Work /\ old.bridge = 0 /\ (t = "boot" => ~old.start)
      /\ thread \in [Relays -> [Threads -> Work]]
  BY WorkIsTyped
<1>2. thread' = [thread EXCEPT ![r][t] = th]
  BY <1>1
<1>3. /\ th \in Work /\ th.bridge = old.bridge /\ th.held = old.held /\ th.start = old.start
      /\ th.pc = pc
  BY <1>1 DEF Work, Stages
<1>4. ~relay[r].mixed /\ ~relay[r].spoiled => old.held = relay[r].own
  BY WorkIsTyped DEF RelayInOrder
<1> HIDE DEF th
<1>5. /\ ~relay[r].mixed /\ ~relay[r].spoiled => th.held = relay[r].own
      /\ th.pc \notin Empty /\ th.bridge = thread[r][t].bridge
      /\ th.bridge = 0 /\ (t = "boot" => ~th.start) /\ thread[r][t].pc # "done"
  BY <1>1, <1>3, <1>4 DEF Empty
<1> QED
  BY <1>2, <1>3, <1>5, ThreadMoves

LEMMA UnsetsKeepOrder ==
    ASSUME ForwardsInOrder, NEW r \in Relays, NEW t \in Threads,
           Checks(r, t) \/ SwitchesOff(r, t) \/ FailsToUnset(r, t)
    PROVE  ForwardsInOrder'
<1> DEFINE port == Mine(r, t).port
<1>1. /\ thread[r][t] \in Work /\ thread \in [Relays -> [Threads -> Work]]
      /\ thread[r][t].failed \in BOOLEAN
      /\ serve \in [Ports -> Nat] /\ taps \in Nat /\ faults \in Nat
  BY WorkIsTyped
<1>2. [serve EXCEPT ![port] = 0] \in [Ports -> Nat]
  BY <1>1
<1> HIDE DEF port
<1>3. /\ thread[r][t].pc \in {"unset", "off"} /\ UNCHANGED <<opened, open, relay, file>>
      /\ serve' \in [Ports -> Nat] /\ taps' \in Nat /\ faults' \in Nat
  <2>1. CASE Checks(r, t)
    BY <1>1, <2>1 DEF Checks, At
  <2>2. CASE SwitchesOff(r, t)
    BY <1>1, <1>2, <2>2 DEF SwitchesOff, At, port
  <2>3. CASE FailsToUnset(r, t)
    BY <1>1, <1>2, <2>3 DEF FailsToUnset, Fault, port
  <2> QED
    BY <2>1, <2>2, <2>3
<1>4. \E pc \in {"off", "close"}, failed \in BOOLEAN :
        thread' = [thread EXCEPT ![r][t].failed = failed, ![r][t].pc = pc]
  <2>1. CASE FailsToUnset(r, t)
    BY <2>1 DEF FailsToUnset
  <2>2. CASE Checks(r, t) \/ SwitchesOff(r, t)
    <3>1. PICK pc \in {"off", "close"} : thread' = [thread EXCEPT ![r][t].pc = pc]
      BY <2>2 DEF Checks, SwitchesOff, Goes
    <3> DEFINE failed == thread[r][t].failed
               th == [thread[r][t] EXCEPT !.pc = pc]
               th2 == [thread[r][t] EXCEPT !.failed = failed, !.pc = pc]
    <3>2. th2 = th
      BY <1>1 DEF Work
    <3>3. thread' = [thread EXCEPT ![r][t] = th]
      BY <1>1, <3>1
    <3>4. thread' = [thread EXCEPT ![r][t].failed = failed, ![r][t].pc = pc]
      BY <1>1, <3>2, <3>3
    <3> QED
      BY <1>1, <3>4
  <2> QED
    BY <2>1, <2>2
<1> QED
  BY <1>3, <1>4, UnsettingKeepsOrder

LEMMA GivingUp ==
    ASSUME NEW r \in Relays, GivesUp(r)
    PROVE  \E th \in Work : /\ thread' = [thread EXCEPT ![r]["tap"] = th]
                            /\ th.bridge = 0 /\ ~th.start /\ th.pc \in {"done", "release"}
<1>1. /\ Done \in Work /\ Done.bridge = 0 /\ ~Done.start /\ Done.pc = "done"
  BY DoneIsWork DEF Done
<1> DEFINE th == [Done EXCEPT !.pc = "release"]
<1>2. th \in Work /\ th.bridge = 0 /\ ~th.start /\ th.pc = "release"
  BY DoneIsWork DEF Done
<1> QED
  BY <1>1, <1>2 DEF GivesUp

LEMMA FailsToAskKeepsOrder ==
    ASSUME ForwardsInOrder, NEW r \in Relays, FailsToAsk(r)
    PROVE  ForwardsInOrder'
<1>1. "tap" \in Threads
  BY DEF Threads
<1>2. PICK th \in Work : /\ thread' = [thread EXCEPT ![r]["tap"] = th]
                         /\ th.bridge = 0 /\ ~th.start /\ th.pc \in {"done", "release"}
  BY GivingUp DEF FailsToAsk
<1>3. /\ thread[r]["tap"].pc \in {"look", "choose"} /\ thread[r]["tap"].bridge = 0
      /\ serve' \in [Ports -> Nat] /\ taps' \in Nat /\ faults' \in Nat
  BY <1>1, WorkIsTyped DEF FailsToAsk, Fault
<1>4. UNCHANGED <<opened, open, relay, file>>
  BY DEF FailsToAsk
<1>5. th.pc \notin Empty /\ thread[r]["tap"].pc # "done"
  BY <1>2, <1>3 DEF Empty
<1> QED
  BY <1>1, <1>2, <1>3, <1>4, <1>5, ThreadMoves

LEMMA ServesKeepsOrder ==
    ASSUME ForwardsInOrder, NEW r \in Relays, NEW t \in Threads, Serves(r, t)
    PROVE  ForwardsInOrder'
<1> DEFINE old == thread[r][t]
           th == [old EXCEPT !.pc = "record"]
<1>1. /\ old \in Work /\ old.pc = "serve" /\ old.bridge \in Nat /\ (t = "boot" => ~old.start)
      /\ thread \in [Relays -> [Threads -> Work]]
      /\ serve \in [Ports -> Nat] /\ taps' \in Nat /\ faults' \in Nat
  BY WorkIsTyped DEF Serves, At
<1>2. thread' = [thread EXCEPT ![r][t] = th]
  BY <1>1 DEF Serves, Goes
<1>3. th \in Work /\ th.bridge = old.bridge /\ th.start = old.start /\ th.pc = "record"
  BY <1>1 DEF Work, Stages
<1>4. UNCHANGED <<opened, open, relay, file>>
  BY DEF Serves
<1>5. serve' \in [Ports -> Nat]
  BY <1>1 DEF Serves
<1> HIDE DEF th
<1>6. /\ th.bridge = thread[r][t].bridge /\ (t = "boot" => ~th.start) /\ thread[r][t].pc \in Empty
      /\ thread[r][t].pc # "done"
  BY <1>1, <1>3 DEF Empty
<1> QED
  BY <1>1, <1>2, <1>3, <1>4, <1>5, <1>6, ThreadMoves

LEMMA SkipsKeepsOrder ==
    ASSUME ForwardsInOrder, NEW r \in Relays, Skips(r)
    PROVE  ForwardsInOrder'
<1> DEFINE old == thread[r]["boot"]
           th == [old EXCEPT !.pc = "owned"]
<1>1. "boot" \in Threads
  BY DEF Threads
<1>2. /\ old \in Work /\ old.pc = "restore" /\ old.bridge = 0 /\ ~old.start
      /\ thread \in [Relays -> [Threads -> Work]]
      /\ serve' \in [Ports -> Nat] /\ taps' \in Nat /\ faults' \in Nat
  BY <1>1, WorkIsTyped DEF Skips, At
<1>3. UNCHANGED <<opened, open, relay>> /\ old.pc \in Empty
  BY <1>2 DEF Skips, Empty
<1>4. CASE EndsRestore(r)
  <2>1. thread' = [thread EXCEPT ![r]["boot"] = Done] /\ file' = relay[r].record
    BY <1>3, <1>4 DEF EndsRestore, Ends, Saves
  <2>2. Done \in Work /\ Done.bridge = 0 /\ Done.pc = "done" /\ ~Done.start /\ Done.pc \notin Empty
    BY DoneIsWork DEF Done, Empty
  <2> QED
    BY <1>1, <1>2, <1>3, <2>1, <2>2, ThreadMoves
<1>5. CASE Goes(r, "boot", "owned") /\ UNCHANGED file
  <2>1. thread' = [thread EXCEPT ![r]["boot"] = th]
    BY <1>2, <1>5 DEF Goes
  <2>2. th \in Work /\ th.bridge = 0 /\ ~th.start /\ th.pc = "owned"
    BY <1>2 DEF Work, Stages
  <2> HIDE DEF th
  <2> QED
    BY <1>1, <1>2, <1>3, <1>5, <2>1, <2>2, ThreadMoves
<1> QED
  BY <1>4, <1>5 DEF Skips

\* A new bridge, in the hands of the request that opened it.
LEMMA OpeningKeepsOrder ==
    ASSUME ForwardsInOrder, NEW r \in Relays, NEW t \in Threads, NEW port \in Ports \cup {0},
           thread[r][t].pc \in {"choose", "owned"}, Opens(r),
           thread' = [thread EXCEPT ![r][t].pc = "serve", ![r][t].bridge = Len(opened) + 1,
                        ![r][t].port = port],
           UNCHANGED <<file, relay, serve, taps, faults>>
    PROVE  ForwardsInOrder'
<1> DEFINE mem == relay[r]
           old == thread[r]
           n == Len(opened)
           new == n + 1
           th == [old[t] EXCEPT !.pc = "serve", !.bridge = new, !.port = port]
           work == [old EXCEPT ![t] = th]
<1>1. /\ mem \in Memory /\ old \in [Threads -> Work] /\ old[t] \in Work
      /\ relay \in [Relays -> Memory] /\ thread \in [Relays -> [Threads -> Work]]
      /\ serve' \in [Ports -> Nat] /\ taps' \in Nat /\ faults' \in Nat
      /\ BridgesAreKnown(mem, old, n) /\ RelayInOrder(r, mem, old, opened, open)
      /\ mem.record \in Receipt /\ old[t].bridge = 0 /\ (t = "boot" => ~old[t].start)
  BY WorkIsTyped
<1>2. old[t].pc \in {"choose", "owned"} /\ old[t].pc \in Empty
  BY DEF Empty
<1>3. Grows(r, open') /\ open' = open \cup {new} /\ opened' = Append(opened, r)
  BY DEF Opens, Grows
<1>4. /\ n \in Nat /\ new \in Nat /\ Len(opened') = new /\ opened'[new] = r
      /\ \A b \in 1..n : opened'[b] = opened[b]
      /\ open \subseteq 1..n
  BY <1>3, AppendProperties, LenProperties DEF ForwardsInOrder, ForwardTypeOK
<1>5. thread' = [thread EXCEPT ![r] = work]
  <2> DEFINE full == [thread EXCEPT ![r][t].pc = "serve", ![r][t].bridge = new, ![r][t].port = port]
  <2>1. thread' = full
    OBVIOUS
  <2> HIDE DEF n, new
  <2>2. full = [thread EXCEPT ![r] = work]
    BY <1>1
  <2> QED
    BY <2>1, <2>2
<1> HIDE DEF new, n
<1>6. th \in Work /\ th.bridge = new /\ th.start = old[t].start /\ th.pc = "serve"
  BY <1>1, <1>4 DEF Work, Stages
<1> HIDE DEF th
<1>7. /\ work \in [Threads -> Work]
      /\ \A u \in Threads : work[u] = IF u = t THEN th ELSE old[u]
  BY <1>1, <1>6
<1>8. relay' = [relay EXCEPT ![r] = mem] /\ file' = file
  BY <1>1
<1>9. mem.record.bridge \in Nat /\ \A u \in Threads : old[u].bridge \in Nat
  BY <1>1 DEF Receipt, Work
<1> HIDE DEF work, mem, old
<1>10. BridgesAreKnown(mem, work, new)
  <2>1. n <= new /\ mem.record.bridge <= n /\ new <= new
    BY <1>1, <1>4 DEF BridgesAreKnown, new
  <2>2. mem.record.bridge <= new
    BY <1>4, <1>9, <2>1
  <2>3. \A u \in Threads : work[u].bridge <= new
    BY <1>1, <1>4, <1>6, <1>7, <1>9, <2>1 DEF BridgesAreKnown
  <2>4. \A u \in Threads : work[u].pc \notin {"serve", "record"} => work[u].bridge = 0
    BY <1>1, <1>6, <1>7 DEF BridgesAreKnown
  <2>5. ~work["boot"].start
    BY <1>1, <1>6, <1>7 DEF BridgesAreKnown, Threads
  <2> QED
    BY <2>2, <2>3, <2>4, <2>5 DEF BridgesAreKnown
<1>11. RelayInOrder(r, mem, work, opened', open')
  <2> SUFFICES ASSUME ~mem.mixed, ~mem.spoiled
               PROVE  /\ work["tap"].pc = "done" \/ work["boot"].pc = "done"
                      /\ \A u \in Threads : work[u].pc \in {"unset", "off", "close"} => work[u].held = mem.own
                      /\ ~Holds(r, mem, opened', open')
                      /\ \A b \in open' : opened'[b] = r =>
                            mem.record.bridge = b \/ \E u \in Threads : work[u].bridge = b
    BY DEF RelayInOrder
  <2>1. /\ old["tap"].pc = "done" \/ old["boot"].pc = "done"
        /\ \A u \in Threads : old[u].pc \in {"unset", "off", "close"} => old[u].held = mem.own
        /\ ~Holds(r, mem, opened, open)
        /\ \A b \in open : opened[b] = r =>
              mem.record.bridge = b \/ \E u \in Threads : old[u].bridge = b
    BY <1>1, <1>2 DEF RelayInOrder
  <2>2. work["tap"].pc = "done" \/ work["boot"].pc = "done"
    BY <1>2, <1>6, <1>7, <2>1 DEF Threads
  <2>3. \A u \in Threads : work[u].pc \in {"unset", "off", "close"} => work[u].held = mem.own
    BY <1>6, <1>7, <2>1
  <2>4. ~Holds(r, mem, opened', open')
    <3>1. mem.record.bridge # new
      <4>1. mem.record.bridge <= n
        BY <1>1 DEF BridgesAreKnown
      <4> QED
        BY <1>4, <1>9, <4>1 DEF new
    <3>2. mem.record.bridge \in open => opened[mem.record.bridge] # r
      BY <2>1 DEF Holds
    <3>3. mem.record.bridge \in open => opened'[mem.record.bridge] # r
      BY <1>4, <3>2
    <3> QED
      BY <1>3, <3>1, <3>3 DEF Holds
  <2>5. ASSUME NEW b \in open', opened'[b] = r
        PROVE  mem.record.bridge = b \/ \E u \in Threads : work[u].bridge = b
    <3>1. CASE b = new
      BY <1>6, <1>7, <3>1
    <3>2. CASE b \in open
      <4>1. opened[b] = r /\ b # 0
        BY <1>4, <2>5, <3>2
      <4>2. mem.record.bridge = b \/ \E u \in Threads : old[u].bridge = b
        BY <2>1, <3>2, <4>1
      <4> QED
        BY <1>1, <1>7, <4>1, <4>2
    <3> QED
      BY <1>3, <3>1, <3>2
  <2> QED
    BY <2>2, <2>3, <2>4, <2>5
<1> QED
  BY <1>1, <1>3, <1>4, <1>5, <1>7, <1>8, <1>10, <1>11, OneRelayMoves

LEMMA ChoosesKeepsOrder ==
    ASSUME ForwardsInOrder, NEW r \in Relays, Chooses(r)
    PROVE  ForwardsInOrder'
<1>1. "tap" \in Threads
  BY DEF Threads
<1>2. /\ thread[r]["tap"].pc = "choose" /\ thread[r]["tap"].bridge = 0
      /\ UNCHANGED <<file, serve, relay, taps, faults>>
      /\ serve' \in [Ports -> Nat] /\ taps' \in Nat /\ faults' \in Nat
  BY <1>1, WorkIsTyped DEF Chooses, At
<1>3. CASE GivesUp(r) /\ UNCHANGED <<opened, open>>
  <2>1. PICK th \in Work : /\ thread' = [thread EXCEPT ![r]["tap"] = th]
                           /\ th.bridge = 0 /\ ~th.start /\ th.pc \in {"done", "release"}
    BY <1>3, GivingUp
  <2>2. th.pc \notin Empty /\ thread[r]["tap"].pc # "done"
    BY <1>2, <2>1 DEF Empty
  <2> QED
    BY <1>1, <1>2, <1>3, <2>1, <2>2, ThreadMoves
<1>4. CASE /\ Opens(r)
           /\ \E p \in Ports : thread' = [thread EXCEPT ![r]["tap"].pc = "serve",
                                   ![r]["tap"].bridge = Len(opened) + 1, ![r]["tap"].port = p]
  BY <1>1, <1>2, <1>4, OpeningKeepsOrder
<1> QED
  BY <1>3, <1>4 DEF Chooses

\* Its bridge is closed before a request fails.
LEMMA FailsToServeKeepsOrder ==
    ASSUME ForwardsInOrder, NEW r \in Relays, FailsToServe(r)
    PROVE  ForwardsInOrder'
<1> DEFINE mem == relay[r]
           old == thread[r]
           n == Len(opened)
           b0 == old["tap"].bridge
<1>1. "tap" \in Threads
  BY DEF Threads
<1>2. /\ mem \in Memory /\ old \in [Threads -> Work]
      /\ relay \in [Relays -> Memory] /\ thread \in [Relays -> [Threads -> Work]]
      /\ serve \in [Ports -> Nat] /\ taps' \in Nat /\ faults' \in Nat
      /\ BridgesAreKnown(mem, old, n) /\ RelayInOrder(r, mem, old, opened, open)
      /\ b0 \in Nat /\ old["tap"].pc = "serve"
  BY <1>1, WorkIsTyped DEF FailsToServe, Fault, At
<1>3. serve' \in [Ports -> Nat]
  <2> DEFINE port == old["tap"].port
  <2>1. serve' \in {serve, [serve EXCEPT ![port] = b0], [serve EXCEPT ![port] = 0]}
    BY DEF FailsToServe
  <2> HIDE DEF port, b0
  <2> QED
    BY <1>2, <2>1
<1>4. PICK th \in Work : /\ thread' = [thread EXCEPT ![r]["tap"] = th]
                         /\ th.bridge = 0 /\ ~th.start /\ th.pc \in {"done", "release"}
  BY GivingUp DEF FailsToServe
<1>5. open' = open \ {b0} /\ UNCHANGED <<file, opened, relay>>
  BY DEF FailsToServe, WithoutBridge
<1> DEFINE work == [old EXCEPT !["tap"] = th]
<1>6. /\ work \in [Threads -> Work] /\ thread' = [thread EXCEPT ![r] = work]
      /\ \A u \in Threads : work[u] = IF u = "tap" THEN th ELSE old[u]
      /\ relay' = [relay EXCEPT ![r] = mem] /\ file' = file
  BY <1>1, <1>2, <1>4, <1>5
<1>7. n \in Nat
  BY LenProperties DEF ForwardsInOrder, ForwardTypeOK
<1> HIDE DEF work, old, mem, b0, n
<1>8. BridgesAreKnown(mem, work, n)
  BY <1>2, <1>4, <1>6, <1>7 DEF BridgesAreKnown, Threads
<1>9. RelayInOrder(r, mem, work, opened, open')
  <2>1. old["tap"].pc # "done" /\ old["tap"].pc \in Empty
    BY <1>2 DEF Empty
  <2> SUFFICES ASSUME ~mem.mixed, ~mem.spoiled
               PROVE  /\ work["tap"].pc = "done" \/ work["boot"].pc = "done"
                      /\ \A u \in Threads : work[u].pc \in {"unset", "off", "close"} => work[u].held = mem.own
                      /\ ~Holds(r, mem, opened, open')
                      /\ \A b \in open' : opened[b] = r =>
                            mem.record.bridge = b \/ \E u \in Threads : work[u].bridge = b
    BY DEF RelayInOrder
  <2>2. /\ old["boot"].pc = "done"
        /\ \A u \in Threads : old[u].pc \in {"unset", "off", "close"} => old[u].held = mem.own
        /\ ~Holds(r, mem, opened, open)
        /\ \A b \in open : opened[b] = r =>
              mem.record.bridge = b \/ \E u \in Threads : old[u].bridge = b
    BY <1>1, <1>2, <2>1 DEF RelayInOrder
  <2>3. work["boot"].pc = "done"
    BY <1>6, <2>2 DEF Threads
  <2>4. \A u \in Threads : work[u].pc \in {"unset", "off", "close"} => work[u].held = mem.own
    BY <1>4, <1>6, <2>2
  <2>5. ~Holds(r, mem, opened, open')
    BY <1>5, <2>2 DEF Holds
  <2>6. ASSUME NEW b \in open', opened[b] = r
        PROVE  mem.record.bridge = b \/ \E u \in Threads : work[u].bridge = b
    <3>1. b \in open /\ b # b0
      BY <1>5, <2>6
    <3>2. mem.record.bridge = b \/ \E u \in Threads : old[u].bridge = b
      BY <2>2, <2>6, <3>1
    <3> QED
      BY <1>6, <3>1, <3>2 DEF b0
  <2> QED
    BY <2>3, <2>4, <2>5, <2>6
<1>10. Grows(r, open')
  BY <1>5 DEF Grows
<1>11. BridgesAreKnown(mem, work, Len(opened')) /\ RelayInOrder(r, mem, work, opened', open')
  BY <1>5, <1>8, <1>9 DEF n
<1> QED
  BY <1>2, <1>3, <1>6, <1>10, <1>11, OneRelayMoves

\* A step of restore() that is over: what it leaves of the receipt, and whether its
\* own command failed.
LEMMA RestoreEnds ==
    ASSUME ForwardsInOrder, NEW r \in Relays, thread[r]["boot"].pc \in Empty,
           NEW mem \in Memory, relay' = [relay EXCEPT ![r] = mem],
           mem.record = relay[r].record \/ mem.record = NoRecord,
           mem.own = relay[r].own,
           mem.spoiled \/ (thread[r]["boot"].bridge = 0 /\ mem.spoiled = relay[r].spoiled
                             /\ mem.mixed = relay[r].mixed),
           EndsRestore(r), UNCHANGED <<opened, open>>,
           serve' \in [Ports -> Nat], taps' \in Nat, faults' \in Nat
    PROVE  ForwardsInOrder'
<1> DEFINE was == relay[r]
           old == thread[r]
           n == Len(opened)
           work == [old EXCEPT !["boot"] = Done]
<1>1. "boot" \in Threads /\ Done \in Work /\ Done.pc = "done" /\ Done.bridge = 0 /\ ~Done.start
  BY DoneIsWork DEF Threads, Done
<1>2. /\ was \in Memory /\ old \in [Threads -> Work]
      /\ relay \in [Relays -> Memory] /\ thread \in [Relays -> [Threads -> Work]]
      /\ BridgesAreKnown(was, old, n) /\ RelayInOrder(r, was, old, opened, open)
  BY <1>1, WorkIsTyped
<1>3. thread' = [thread EXCEPT ![r] = work] /\ file' = mem.record
  BY <1>2 DEF EndsRestore, Ends, Saves
<1>4. /\ work \in [Threads -> Work]
      /\ \A u \in Threads : work[u] = IF u = "boot" THEN Done ELSE old[u]
  BY <1>1, <1>2
<1>5. n \in Nat /\ NoRecord.bridge = 0 /\ Grows(r, open)
  BY LenProperties DEF ForwardsInOrder, ForwardTypeOK, NoRecord, Grows
<1>6. ~Holds(r, was, opened, open) => ~Holds(r, mem, opened, open)
  BY <1>5, NothingIsHeld DEF Holds
<1>7. /\ old["boot"].pc \in Empty
      /\ mem.spoiled \/ (old["boot"].bridge = 0 /\ mem.spoiled = was.spoiled /\ mem.mixed = was.mixed)
      /\ mem.record = was.record \/ mem.record = NoRecord
      /\ mem.own = was.own
  OBVIOUS
<1> HIDE DEF work, old, was, n
<1>8. BridgesAreKnown(mem, work, n)
  BY <1>1, <1>2, <1>4, <1>5, <1>7 DEF BridgesAreKnown, Threads
<1>9. RelayInOrder(r, mem, work, opened, open)
  <2> SUFFICES ASSUME ~mem.mixed, ~mem.spoiled
               PROVE  /\ work["tap"].pc = "done" \/ work["boot"].pc = "done"
                      /\ \A u \in Threads : work[u].pc \in {"unset", "off", "close"} => work[u].held = mem.own
                      /\ ~Holds(r, mem, opened, open)
                      /\ \A b \in open : opened[b] = r =>
                            mem.record.bridge = b \/ \E u \in Threads : work[u].bridge = b
    BY DEF RelayInOrder
  <2>1. ~was.mixed /\ ~was.spoiled /\ old["boot"].bridge = 0
    BY <1>7
  <2>2. /\ \A u \in Threads : old[u].pc \in {"unset", "off", "close"} => old[u].held = was.own
        /\ ~Holds(r, was, opened, open)
        /\ \A b \in open : opened[b] = r =>
              was.record.bridge = b \/ \E u \in Threads : old[u].bridge = b
    BY <1>1, <1>2, <1>7, <2>1 DEF RelayInOrder
  <2>3. work["boot"].pc = "done"
    BY <1>1, <1>4
  <2>4. \A u \in Threads : work[u].pc \in {"unset", "off", "close"} => work[u].held = mem.own
    BY <1>1, <1>4, <1>7, <2>2
  <2>5. ASSUME NEW b \in open, opened[b] = r
        PROVE  mem.record.bridge = b \/ \E u \in Threads : work[u].bridge = b
    <3>1. b # 0
      BY <2>5 DEF ForwardsInOrder, ForwardTypeOK
    <3>2. was.record.bridge # b
      BY <2>2, <2>5 DEF Holds
    <3> QED
      BY <1>4, <2>1, <2>2, <2>5, <3>1, <3>2
  <2> QED
    BY <1>6, <2>2, <2>3, <2>4, <2>5
<1>10. BridgesAreKnown(mem, work, Len(opened')) /\ RelayInOrder(r, mem, work, opened', open')
  BY <1>8, <1>9 DEF n
<1>11. Grows(r, open')
  BY DEF Grows
<1> QED
  BY <1>3, <1>4, <1>10, <1>11, OneRelayMoves

LEMMA RestoresKeepsOrder ==
    ASSUME ForwardsInOrder, NEW r \in Relays, Restores(r)
    PROVE  ForwardsInOrder'
<1> DEFINE old == thread[r]["boot"]
           was == relay[r]
<1>1. "boot" \in Threads
  BY DEF Threads
<1>2. /\ old \in Work /\ old.pc = "owned" /\ old.pc \in Empty /\ old.bridge = 0 /\ ~old.start
      /\ Mine(r, "boot").port \in Ports \cup {0} /\ Mine(r, "boot") \in Receipt
      /\ was \in Memory /\ was.own \in Nat
      /\ thread \in [Relays -> [Threads -> Work]] /\ relay \in [Relays -> Memory]
      /\ serve' \in [Ports -> Nat] /\ taps' \in Nat /\ faults' \in Nat
  BY <1>1, WorkIsTyped DEF Restores, At, Mine, Empty, Receipt
<1>3. CASE /\ Remembers(r, NoRecord, relay[r].own) /\ EndsRestore(r)
           /\ UNCHANGED <<opened, open>>
  <2> DEFINE own == was.own
             mem == [was EXCEPT !.record = NoRecord, !.own = own]
             full == [relay EXCEPT ![r].record = NoRecord, ![r].own = own]
  <2>1. relay' = full
    BY <1>3 DEF Remembers
  <2> HIDE DEF own
  <2>2. full = [relay EXCEPT ![r] = mem]
    BY <1>2
  <2>3. mem \in Memory
    BY <1>2, DoneIsWork DEF Memory, own
  <2>4. /\ mem.record = NoRecord /\ mem.own = was.own /\ mem.spoiled = was.spoiled
        /\ mem.mixed = was.mixed
    BY <1>2 DEF Memory, own
  <2> HIDE DEF mem, full
  <2> QED
    BY <1>2, <1>3, <2>1, <2>2, <2>3, <2>4, RestoreEnds
<1>4. CASE Goes(r, "boot", "release") /\ UNCHANGED <<file, relay, opened, open>>
  <2> DEFINE th == [old EXCEPT !.pc = "release"]
  <2>1. thread' = [thread EXCEPT ![r]["boot"] = th]
    BY <1>2, <1>4 DEF Goes
  <2>2. th \in Work /\ th.bridge = 0 /\ ~th.start /\ th.pc = "release"
    BY <1>2 DEF Work, Stages
  <2> HIDE DEF th
  <2>3. th.pc \notin Empty /\ old.pc # "done"
    BY <1>2, <2>2 DEF Empty
  <2> QED
    BY <1>1, <1>2, <1>4, <2>1, <2>2, <2>3, ThreadMoves
<1>5. CASE /\ Opens(r)
           /\ thread' = [thread EXCEPT ![r]["boot"].pc = "serve",
                          ![r]["boot"].port = Mine(r, "boot").port,
                          ![r]["boot"].bridge = Len(opened) + 1]
           /\ UNCHANGED <<file, relay>>
  <2> DEFINE port == Mine(r, "boot").port
             new == Len(opened) + 1
             full == [thread EXCEPT ![r]["boot"].pc = "serve", ![r]["boot"].port = port,
                                    ![r]["boot"].bridge = new]
             same == [thread EXCEPT ![r]["boot"].pc = "serve", ![r]["boot"].bridge = new,
                                    ![r]["boot"].port = port]
  <2>1. thread' = full
    BY <1>5
  <2>2. full = same
    <3> DEFINE one == [old EXCEPT !.pc = "serve", !.port = port, !.bridge = new]
               two == [old EXCEPT !.pc = "serve", !.bridge = new, !.port = port]
    <3> HIDE DEF port, new
    <3>1. one = two
      BY <1>2 DEF Work
    <3>2. full = [thread EXCEPT ![r]["boot"] = one]
      BY <1>2
    <3>3. same = [thread EXCEPT ![r]["boot"] = two]
      BY <1>2
    <3> HIDE DEF one, two, full, same
    <3> QED
      BY <3>1, <3>2, <3>3
  <2>3. UNCHANGED <<file, relay, serve, taps, faults>>
    BY <1>5 DEF Restores
  <2>4. thread' = same
    BY <2>1, <2>2
  <2>5. port \in Ports \cup {0}
    BY <1>2
  <2> HIDE DEF full, port
  <2> QED
    BY <1>1, <1>2, <1>5, <2>3, <2>4, <2>5, OpeningKeepsOrder
<1> QED
  BY <1>3, <1>4, <1>5 DEF Restores

LEMMA FailsToRestoreKeepsOrder ==
    ASSUME ForwardsInOrder, NEW r \in Relays, FailsToRestore(r)
    PROVE  ForwardsInOrder'
<1> DEFINE old == thread[r]["boot"]
           was == relay[r]
           spoilt == was.spoiled \/ old.pc = "serve"
           mem == [was EXCEPT !.spoiled = spoilt]
<1>1. "boot" \in Threads
  BY DEF Threads
<1>2. /\ was \in Memory /\ relay \in [Relays -> Memory]
      /\ old.pc \in {"owned", "serve"} /\ old.pc \in Empty /\ old.bridge \in Nat
      /\ old.pc = "owned" => old.bridge = 0
      /\ serve \in [Ports -> Nat] /\ taps' \in Nat /\ faults' \in Nat
  BY <1>1, WorkIsTyped DEF FailsToRestore, Fault, Empty
<1>3. serve' \in [Ports -> Nat]
  BY <1>2 DEF FailsToRestore
<1>4. relay' = [relay EXCEPT ![r] = mem]
  BY <1>2 DEF FailsToRestore, At
<1>5. spoilt \in BOOLEAN
  BY <1>2 DEF Memory
<1>6. spoilt \/ (old.bridge = 0 /\ spoilt = was.spoiled)
  <2>1. CASE old.pc = "serve"
    BY <2>1
  <2>2. CASE old.pc = "owned"
    BY <1>2, <2>2 DEF Memory
  <2> QED
    BY <1>2, <2>1, <2>2
<1> HIDE DEF spoilt
<1>7. /\ mem \in Memory /\ mem.record = was.record /\ mem.own = was.own /\ mem.mixed = was.mixed
      /\ mem.spoiled = spoilt
  BY <1>2, <1>5 DEF Memory
<1>8. EndsRestore(r) /\ UNCHANGED <<opened, open>>
  BY DEF FailsToRestore
<1> HIDE DEF mem
<1> QED
  BY <1>2, <1>3, <1>4, <1>6, <1>7, <1>8, RestoreEnds

\* A release closes the one bridge the relay knows of.
LEMMA ClosesKeepsOrder ==
    ASSUME ForwardsInOrder, NEW r \in Relays, NEW t \in Threads, Closes(r, t)
    PROVE  ForwardsInOrder'
<1> DEFINE was == relay[r]
           old == thread[r]
           n == Len(opened)
           held == old[t].held
           rec == IF old[t].failed THEN was.record ELSE NoRecord
           mem == [was EXCEPT !.record = rec, !.own = 0]
<1>1. /\ was \in Memory /\ old \in [Threads -> Work]
      /\ relay \in [Relays -> Memory] /\ thread \in [Relays -> [Threads -> Work]]
      /\ BridgesAreKnown(was, old, n) /\ RelayInOrder(r, was, old, opened, open)
      /\ old[t].failed \in BOOLEAN /\ old[t].start \in BOOLEAN /\ was.record \in Receipt
      /\ old[t].pc = "close" /\ old[t].bridge = 0 /\ (t = "boot" => ~old[t].start)
      /\ serve' \in [Ports -> Nat] /\ taps' \in Nat /\ faults' \in Nat
  BY WorkIsTyped DEF Closes, At
<1>2. PICK th \in Work : /\ thread' = [thread EXCEPT ![r][t] = th]
                         /\ th.bridge = 0 /\ (t = "boot" => ~th.start)
                         /\ th.pc \in {"done", "release", "choose"}
                         /\ th.pc = "choose" => ~old[t].failed
  <2>1. CASE old[t].start /\ ~old[t].failed
    <3> DEFINE th == [Done EXCEPT !.pc = "choose", !.start = TRUE]
    <3>1. th \in Work /\ th.bridge = 0 /\ th.pc = "choose"
      BY DoneIsWork DEF Done
    <3>2. thread' = [thread EXCEPT ![r][t] = th]
      BY <2>1 DEF Closes
    <3> QED
      BY <1>1, <2>1, <3>1, <3>2
  <2>2. CASE old[t].start /\ old[t].failed
    <3>1. t = "tap"
      BY <1>1, <2>2 DEF Threads
    <3>2. GivesUp(r)
      BY <2>2 DEF Closes
    <3>3. PICK th \in Work : /\ thread' = [thread EXCEPT ![r]["tap"] = th]
                             /\ th.bridge = 0 /\ ~th.start /\ th.pc \in {"done", "release"}
      BY <3>2, GivingUp
    <3> QED
      BY <3>1, <3>3
  <2>3. CASE ~old[t].start
    <3>1. thread' = [thread EXCEPT ![r][t] = Done]
      BY <2>3 DEF Closes, Ends
    <3> QED
      BY <3>1, DoneIsWork DEF Done
  <2> QED
    BY <2>1, <2>2, <2>3
<1> DEFINE work == [old EXCEPT ![t] = th]
<1>3. /\ work \in [Threads -> Work] /\ thread' = [thread EXCEPT ![r] = work]
      /\ \A u \in Threads : work[u] = IF u = t THEN th ELSE old[u]
  BY <1>1, <1>2
<1>4. rec \in Receipt /\ (rec = was.record \/ rec = NoRecord) /\ (~old[t].failed => rec = NoRecord)
  BY <1>1, DoneIsWork
<1>5. relay' = [relay EXCEPT ![r].record = rec, ![r].own = 0]
  BY DEF Closes, Remembers
<1> HIDE DEF rec
<1>6. relay' = [relay EXCEPT ![r] = mem]
  BY <1>1, <1>5
<1>7. /\ mem \in Memory /\ mem.record = rec /\ mem.own = 0
      /\ mem.mixed = was.mixed /\ mem.spoiled = was.spoiled
  BY <1>1, <1>4 DEF Memory
<1>8. file' = mem.record
  BY <1>1, <1>6 DEF Closes, Saves
<1>9. open' = open \ {held} /\ opened' = opened
  BY DEF Closes
<1>10. n \in Nat /\ NoRecord.bridge = 0 /\ Grows(r, open') /\ 0 \notin open
  BY <1>9, LenProperties DEF ForwardsInOrder, ForwardTypeOK, NoRecord, Grows
<1> HIDE DEF work, old, was, n, mem, held
<1>11. BridgesAreKnown(mem, work, n)
  BY <1>1, <1>2, <1>3, <1>4, <1>7, <1>10 DEF BridgesAreKnown, Threads
<1>12. RelayInOrder(r, mem, work, opened, open')
  <2> SUFFICES ASSUME ~mem.mixed, ~mem.spoiled
               PROVE  /\ work["tap"].pc = "done" \/ work["boot"].pc = "done"
                      /\ \A u \in Threads : work[u].pc \in {"unset", "off", "close"} => work[u].held = mem.own
                      /\ ~Holds(r, mem, opened, open')
                      /\ \A b \in open' : opened[b] # r
    BY DEF RelayInOrder
  <2>1. /\ old["tap"].pc = "done" \/ old["boot"].pc = "done"
        /\ held = was.own
        /\ Holds(r, was, opened, open) => was.own = was.record.bridge
        /\ \A b \in open : opened[b] = r =>
              was.record.bridge = b \/ \E u \in Threads : old[u].bridge = b
    BY <1>1, <1>7 DEF RelayInOrder, held
  <2>2. \A u \in Threads : u # t => old[u].pc = "done"
    BY <1>1, <2>1 DEF Threads
  <2>3. work["tap"].pc = "done" \/ work["boot"].pc = "done"
    BY <1>3, <2>2 DEF Threads
  <2>4. \A u \in Threads : work[u].pc \notin {"unset", "off", "close"}
    BY <1>2, <1>3, <2>2
  <2>5. \A u \in Threads : old[u].bridge = 0
    BY <1>1, <2>2 DEF BridgesAreKnown
  <2>6. ASSUME NEW b \in open', opened[b] = r
        PROVE  FALSE
    <3>1. b \in open /\ b # held /\ b # 0
      BY <1>9, <1>10
    <3>2. was.record.bridge = b
      BY <2>1, <2>5, <2>6, <3>1
    <3>3. Holds(r, was, opened, open)
      BY <2>6, <3>1, <3>2 DEF Holds
    <3> QED
      BY <2>1, <3>1, <3>2, <3>3
  <2>7. ~Holds(r, mem, opened, open')
    BY <2>6 DEF Holds
  <2> QED
    BY <2>3, <2>4, <2>6, <2>7
<1>13. BridgesAreKnown(mem, work, Len(opened')) /\ RelayInOrder(r, mem, work, opened', open')
  BY <1>9, <1>11, <1>12 DEF n
<1> QED
  BY <1>1, <1>3, <1>6, <1>7, <1>8, <1>10, <1>13, OneRelayMoves

\* A receipt that the relay and the file know of names the bridge that was in hand.
LEMMA RecordsKeepsOrder ==
    ASSUME ForwardsInOrder, NEW r \in Relays, NEW t \in Threads, Records(r, t)
    PROVE  ForwardsInOrder'
<1> DEFINE was == relay[r]
           old == thread[r]
           n == Len(opened)
           rec == [port |-> old[t].port, bridge |-> old[t].bridge]
           own == rec.bridge
           mem == [was EXCEPT !.record = rec, !.own = own]
           work == [u \in Threads |->
                IF u = t THEN Done
                ELSE IF t = "boot" /\ old[u].mine = Mine(r, t)
                     THEN [old[u] EXCEPT !.mine = rec] ELSE old[u]]
<1>1. /\ was \in Memory /\ old \in [Threads -> Work]
      /\ relay \in [Relays -> Memory] /\ thread \in [Relays -> [Threads -> Work]]
      /\ BridgesAreKnown(was, old, n) /\ RelayInOrder(r, was, old, opened, open)
      /\ old[t].port \in Ports \cup {0} /\ old[t].bridge \in Nat /\ old[t].pc = "record"
      /\ serve' \in [Ports -> Nat] /\ taps' \in Nat /\ faults' \in Nat
  BY WorkIsTyped DEF Records, At
<1>2. relay' = [relay EXCEPT ![r].record = rec, ![r].own = own]
  BY DEF Records, Remembers
<1>3. thread' = [thread EXCEPT ![r] = work]
  BY DEF Records
<1>4. rec \in Receipt /\ rec.bridge = old[t].bridge /\ own = old[t].bridge
  BY <1>1 DEF Receipt
<1>5. UNCHANGED <<opened, open>> /\ file' = relay'[r].record
  BY DEF Records, Saves
<1>6. \A u \in Threads :
        /\ work[u] \in Work
        /\ u = t => work[u] = Done
        /\ u # t => /\ work[u].pc = old[u].pc /\ work[u].held = old[u].held
                    /\ work[u].bridge = old[u].bridge /\ work[u].start = old[u].start
  <2> SUFFICES ASSUME NEW u \in Threads
               PROVE  /\ work[u] \in Work
                      /\ u = t => work[u] = Done
                      /\ u # t => /\ work[u].pc = old[u].pc /\ work[u].held = old[u].held
                                  /\ work[u].bridge = old[u].bridge /\ work[u].start = old[u].start
    OBVIOUS
  <2> DEFINE moved == [old[u] EXCEPT !.mine = rec]
  <2>1. old[u] \in Work
    BY <1>1
  <2> HIDE DEF rec
  <2>2. /\ moved \in Work /\ moved.pc = old[u].pc /\ moved.held = old[u].held
        /\ moved.bridge = old[u].bridge /\ moved.start = old[u].start
    BY <1>4, <2>1 DEF Work
  <2>3. work[u] = IF u = t THEN Done
                  ELSE IF t = "boot" /\ old[u].mine = Mine(r, t) THEN moved ELSE old[u]
    OBVIOUS
  <2> HIDE DEF moved, work
  <2> QED
    BY <2>1, <2>2, <2>3, DoneIsWork
<1>7. work \in [Threads -> Work]
  BY <1>6
<1> HIDE DEF rec, own
<1>8. relay' = [relay EXCEPT ![r] = mem]
  BY <1>1, <1>2
<1>9. /\ mem \in Memory /\ mem.record = rec /\ mem.own = own
      /\ mem.mixed = was.mixed /\ mem.spoiled = was.spoiled
  BY <1>1, <1>4 DEF Memory
<1>10. file' = mem.record
  BY <1>1, <1>5, <1>8
<1>11. n \in Nat /\ Grows(r, open') /\ 0 \notin open /\ Done.bridge = 0 /\ Done.pc = "done" /\ ~Done.start
  BY <1>5, LenProperties DEF ForwardsInOrder, ForwardTypeOK, Grows, Done
<1> HIDE DEF work, old, was, n, mem
<1>12. BridgesAreKnown(mem, work, n)
  BY <1>1, <1>4, <1>6, <1>9, <1>11 DEF BridgesAreKnown, Threads
<1>13. RelayInOrder(r, mem, work, opened, open)
  <2> SUFFICES ASSUME ~mem.mixed, ~mem.spoiled
               PROVE  /\ work["tap"].pc = "done" \/ work["boot"].pc = "done"
                      /\ \A u \in Threads : work[u].pc \notin {"unset", "off", "close"}
                      /\ mem.own = mem.record.bridge
                      /\ \A u \in Threads : work[u].pc \notin Empty
                      /\ \A b \in open : opened[b] = r => mem.record.bridge = b
    BY DEF RelayInOrder
  <2>1. /\ old["tap"].pc = "done" \/ old["boot"].pc = "done"
        /\ old[t].pc \in Empty
        /\ \A u \in Threads : old[u].pc \in Empty => ~Holds(r, was, opened, open)
        /\ \A b \in open : opened[b] = r =>
              was.record.bridge = b \/ \E u \in Threads : old[u].bridge = b
    BY <1>1, <1>9 DEF RelayInOrder, Empty
  <2>2. \A u \in Threads : u # t => old[u].pc = "done"
    BY <1>1, <2>1 DEF Threads
  <2>3. \A u \in Threads : work[u].pc = "done"
    BY <1>6, <1>11, <2>2
  <2>4. \A u \in Threads : u # t => old[u].bridge = 0
    BY <1>1, <2>2 DEF BridgesAreKnown
  <2>5. ASSUME NEW b \in open, opened[b] = r
        PROVE  mem.record.bridge = b
    <3>1. was.record.bridge # b
      BY <2>1, <2>5 DEF Holds
    <3>2. b # 0
      BY <1>11
    <3>3. old[t].bridge = b
      BY <2>1, <2>4, <2>5, <3>1, <3>2
    <3> QED
      BY <1>4, <1>9, <3>3
  <2>6. mem.own = mem.record.bridge
    BY <1>4, <1>9
  <2> QED
    BY <2>3, <2>5, <2>6 DEF Empty, Threads
<1>14. BridgesAreKnown(mem, work, Len(opened')) /\ RelayInOrder(r, mem, work, opened', open')
  BY <1>5, <1>12, <1>13 DEF n
<1> QED
  BY <1>1, <1>3, <1>7, <1>8, <1>9, <1>10, <1>11, <1>14, OneRelayMoves

\* A request that comes while restore() runs is noted as mixed.
LEMMA TapsKeepsOrder ==
    ASSUME ForwardsInOrder, NEW r \in Relays, Taps(r)
    PROVE  ForwardsInOrder'
<1> DEFINE was == relay[r]
           old == thread[r]
           n == Len(opened)
           mixt == was.mixed \/ ~At(r, "boot", "done")
           mem == [was EXCEPT !.mixed = mixt]
<1>1. /\ was \in Memory /\ old \in [Threads -> Work] /\ "tap" \in Threads /\ "boot" \in Threads
      /\ relay \in [Relays -> Memory] /\ thread \in [Relays -> [Threads -> Work]]
      /\ BridgesAreKnown(was, old, n) /\ RelayInOrder(r, was, old, opened, open)
      /\ old["tap"].pc = "done" /\ old["tap"].bridge = 0
      /\ serve' \in [Ports -> Nat] /\ taps' \in Nat /\ faults' \in Nat
  BY WorkIsTyped DEF Taps, At, Threads
<1>2. PICK th \in Work : /\ thread' = [thread EXCEPT ![r]["tap"] = th]
                         /\ th.bridge = 0 /\ th.pc \in {"look", "release"}
  <2>1. PICK start \in BOOLEAN : thread' = [thread EXCEPT ![r]["tap"] =
            [Done EXCEPT !.pc = IF start THEN "look" ELSE "release", !.start = start]]
    BY DEF Taps
  <2> DEFINE pc == IF start THEN "look" ELSE "release"
             th == [Done EXCEPT !.pc = pc, !.start = start]
  <2>2. pc \in {"look", "release"} /\ thread' = [thread EXCEPT ![r]["tap"] = th]
    BY <2>1
  <2> HIDE DEF pc
  <2>3. th \in Work
    BY <2>2, DoneIsWork
  <2>4. th.bridge = 0 /\ th.pc = pc
    BY DEF Done
  <2> QED
    BY <2>2, <2>3, <2>4
<1> DEFINE work == [old EXCEPT !["tap"] = th]
<1>3. /\ work \in [Threads -> Work] /\ thread' = [thread EXCEPT ![r] = work]
      /\ \A u \in Threads : work[u] = IF u = "tap" THEN th ELSE old[u]
  BY <1>1, <1>2
<1>4. mixt \in BOOLEAN /\ relay' = [relay EXCEPT ![r] = mem]
  BY <1>1 DEF Taps, Memory
<1>5. mem \in Memory /\ mem.record = was.record /\ mem.own = was.own /\ mem.spoiled = was.spoiled
      /\ mem.mixed = mixt
  BY <1>1, <1>4 DEF Memory
<1>6. ~mixt => ~was.mixed /\ old["boot"].pc = "done"
  BY DEF At
<1>7. UNCHANGED <<file, opened, open>> /\ Grows(r, open')
  BY DEF Taps, Grows
<1> HIDE DEF work, mem, mixt, old, was, n
<1>8. BridgesAreKnown(mem, work, n)
  BY <1>1, <1>2, <1>3, <1>5 DEF BridgesAreKnown, Threads
<1>9. RelayInOrder(r, mem, work, opened, open)
  <2> SUFFICES ASSUME ~mem.mixed, ~mem.spoiled
               PROVE  /\ work["tap"].pc = "done" \/ work["boot"].pc = "done"
                      /\ \A u \in Threads : work[u].pc \notin {"unset", "off", "close"}
                      /\ Holds(r, mem, opened, open) => mem.own = mem.record.bridge
                      /\ \A u \in Threads : work[u].pc \notin Empty
                      /\ \A b \in open : opened[b] = r =>
                            mem.record.bridge = b \/ \E u \in Threads : work[u].bridge = b
    BY DEF RelayInOrder
  <2>1. /\ old["boot"].pc = "done"
        /\ Holds(r, was, opened, open) => was.own = was.record.bridge
        /\ \A b \in open : opened[b] = r =>
              was.record.bridge = b \/ \E u \in Threads : old[u].bridge = b
    BY <1>1, <1>5, <1>6 DEF RelayInOrder
  <2>2. /\ work["boot"].pc = "done" /\ work["tap"].pc \in {"look", "release"}
    BY <1>1, <1>2, <1>3, <2>1
  <2>3. \A u \in Threads : work[u].pc \in {"done", "look", "release"}
    BY <2>2 DEF Threads
  <2>4. Holds(r, mem, opened, open) => mem.own = mem.record.bridge
    BY <1>5, <2>1 DEF Holds
  <2>5. \A u \in Threads : work[u].bridge = old[u].bridge
    BY <1>1, <1>2, <1>3
  <2>6. \A b \in open : opened[b] = r =>
            mem.record.bridge = b \/ \E u \in Threads : work[u].bridge = b
    BY <1>5, <2>1, <2>5
  <2> QED
    BY <2>2, <2>3, <2>4, <2>6 DEF Empty
<1>10. BridgesAreKnown(mem, work, Len(opened')) /\ RelayInOrder(r, mem, work, opened', open')
  BY <1>7, <1>8, <1>9 DEF n
<1> QED
  BY <1>1, <1>3, <1>4, <1>5, <1>7, <1>10, OneRelayMoves

\* The bridges of a relay that dies are closed, whatever the receipt says.
LEMMA RestartsKeepOrder ==
    ASSUME ForwardsInOrder, NEW r \in Relays, Restarts(r)
    PROVE  ForwardsInOrder'
<1> DEFINE mem == [record |-> file, own |-> 0, mixed |-> FALSE, spoiled |-> FALSE]
           boot == [Done EXCEPT !.pc = "restore", !.mine = file]
           work == [t \in Threads |-> IF t = "boot" THEN boot ELSE Done]
           n == Len(opened)
<1>1. /\ file \in Receipt /\ file.bridge <= n /\ file.bridge \in Nat
      /\ relay \in [Relays -> Memory] /\ thread \in [Relays -> [Threads -> Work]]
      /\ serve' \in [Ports -> Nat] /\ taps' \in Nat /\ faults' \in Nat
      /\ n \in Nat
  BY LenProperties DEF ForwardsInOrder, ForwardTypeOK, Receipt, Restarts, Fault
<1>2. relay' = [relay EXCEPT ![r] = mem] /\ thread' = [thread EXCEPT ![r] = work]
  BY DEF Restarts, Started
<1>3. mem \in Memory
  BY <1>1 DEF Memory
<1>4. /\ boot \in Work /\ boot.pc = "restore" /\ boot.bridge = 0 /\ ~boot.start
      /\ Done \in Work /\ Done.pc = "done" /\ Done.bridge = 0
  BY <1>1, DoneIsWork DEF Done
<1>5. /\ work \in [Threads -> Work] /\ work["boot"] = boot /\ work["tap"] = Done
      /\ \A t \in Threads : work[t] = boot \/ work[t] = Done
  BY <1>4 DEF Threads
<1>6. /\ UNCHANGED <<file, opened>> /\ Grows(r, open')
      /\ \A b \in open' : opened[b] # r
  BY DEF Restarts, Grows
<1>7. mem.record = file
  OBVIOUS
<1> HIDE DEF boot, work, mem, n
<1>8. BridgesAreKnown(mem, work, n)
  BY <1>1, <1>4, <1>5, <1>7 DEF BridgesAreKnown
<1>9. RelayInOrder(r, mem, work, opened, open')
  <2>1. \A t \in Threads : work[t].pc \notin {"unset", "off", "close"}
    BY <1>4, <1>5
  <2>2. work["tap"].pc = "done"
    BY <1>4, <1>5
  <2>3. ~Holds(r, mem, opened, open')
    BY <1>6 DEF Holds
  <2> QED
    BY <1>6, <2>1, <2>2, <2>3 DEF RelayInOrder
<1>10. BridgesAreKnown(mem, work, Len(opened')) /\ RelayInOrder(r, mem, work, opened', open')
  BY <1>6, <1>8, <1>9 DEF n
<1> QED
  BY <1>1, <1>2, <1>3, <1>5, <1>6, <1>10, OneRelayMoves

LEMMA ForwardsStart == ForwardInit => ForwardsInOrder
<1> SUFFICES ASSUME ForwardInit PROVE ForwardsInOrder
  OBVIOUS
<1> DEFINE mem == [record |-> NoRecord, own |-> 0, mixed |-> FALSE, spoiled |-> FALSE]
           work == [t \in Threads |-> Done]
<1>1. /\ mem \in Memory /\ mem.record = NoRecord /\ work \in [Threads -> Work]
      /\ \A t \in Threads : work[t] = Done
  BY DoneIsWork DEF Memory
<1> HIDE DEF mem, work
<1>2. /\ relay = [r \in Relays |-> mem] /\ thread = [r \in Relays |-> work]
      /\ file = NoRecord /\ serve = [p \in Ports |-> 0] /\ opened = <<>> /\ open = {}
      /\ taps = 0 /\ faults = 0
  BY DEF ForwardInit, mem, work
<1>3. opened \in Seq(Relays) /\ Len(opened) = 0
  BY <1>2, EmptySeq
<1>4. ForwardTypeOK
  BY <1>1, <1>2, <1>3, DoneIsWork DEF ForwardTypeOK
<1>5. Done.bridge = 0 /\ ~Done.start /\ Done.pc = "done" /\ NoRecord.bridge = 0 /\ "boot" \in Threads
      /\ "tap" \in Threads
  BY DEF Done, NoRecord, Threads
<1>6. BridgesAreKnown(mem, work, 0)
  BY <1>1, <1>5 DEF BridgesAreKnown
<1>7. \A r \in Relays : RelayInOrder(r, mem, work, opened, {})
  BY <1>1, <1>5 DEF RelayInOrder, Holds, Empty
<1> QED
  BY <1>2, <1>3, <1>4, <1>5, <1>6, <1>7 DEF ForwardsInOrder

\* The inductive invariant of the forwards (controller.ts).
THEOREM ForwardsAreInOrder == ForwardSpec => []ForwardsInOrder
<1>1. ForwardsInOrder /\ [ForwardNext]_forwardVars => ForwardsInOrder'
  <2> SUFFICES ASSUME ForwardsInOrder, [ForwardNext]_forwardVars
               PROVE  ForwardsInOrder'
    OBVIOUS
  <2>1. CASE UNCHANGED forwardVars
    BY <2>1 DEF forwardVars, ForwardsInOrder, ForwardTypeOK
  <2>2. ASSUME NEW r \in Relays,
               Taps(r) \/ Looks(r) \/ FailsToAsk(r) \/ Chooses(r) \/ FailsToServe(r)
               \/ Skips(r) \/ Restores(r) \/ FailsToRestore(r) \/ Restarts(r)
        PROVE  ForwardsInOrder'
    BY <2>2, TapsKeepsOrder, LooksKeepsOrder, FailsToAskKeepsOrder, ChoosesKeepsOrder,
       FailsToServeKeepsOrder, SkipsKeepsOrder, RestoresKeepsOrder, FailsToRestoreKeepsOrder,
       RestartsKeepOrder
  <2>3. ASSUME NEW r \in Relays, NEW t \in Threads,
               BeginsRelease(r, t) \/ Checks(r, t) \/ SwitchesOff(r, t)
               \/ FailsToUnset(r, t) \/ Closes(r, t) \/ Serves(r, t) \/ Records(r, t)
        PROVE  ForwardsInOrder'
    BY <2>3, BeginsReleaseKeepsOrder, UnsetsKeepOrder, ClosesKeepsOrder, ServesKeepsOrder,
       RecordsKeepsOrder
  <2> QED
    BY <2>1, <2>2, <2>3 DEF ForwardNext
<1> QED
  BY <1>1, ForwardsStart, PTL DEF ForwardSpec

\* What nobody has a receipt for leads nowhere (createDevProxy, releaseRecord, save),
\* for any number of relays, ports and bridges, and commands that fail half done:
\* a relay closes the bridge it has before it loses sight of it.
THEOREM UntrackedStaysInert == ForwardSpec => []UntrackedIsInert
<1>1. ForwardsInOrder => UntrackedIsInert
  <2> SUFFICES ASSUME ForwardsInOrder, NEW p \in Ports, serve[p] \in open
               PROVE  \/ relay[opened[serve[p]]].mixed \/ relay[opened[serve[p]]].spoiled
                      \/ Tracked(opened[serve[p]], serve[p])
    BY DEF UntrackedIsInert
  <2> DEFINE b == serve[p]
             r == opened[b]
  <2>1. r \in Relays
    BY ElementOfSeq DEF ForwardsInOrder, ForwardTypeOK
  <2>2. RelayInOrder(r, relay[r], thread[r], opened, open)
    BY <2>1 DEF ForwardsInOrder
  <2> HIDE DEF r
  <2>3. b \in open /\ opened[b] = r
    BY DEF r
  <2> HIDE DEF b
  <2>4. relay[r].mixed \/ relay[r].spoiled \/ Tracked(r, b)
    BY <2>2, <2>3 DEF RelayInOrder, Tracked
  <2> QED
    BY <2>4 DEF r, b
<1> QED
  BY <1>1, ForwardsAreInOrder, PTL

-----------------------------------------------------------------------------
(* Delegations. *)

JobStates == {"none", "queued", "opening", "configuring", "sending", "running", "returning",
              "returned", "failed", "gone"}

Codes == {"none", "opening_failed", "configuration_failed", "send_failed", "return_failed",
          "delivery_altered"}

Job == [status : JobStates, attempts : Nat, send : Deliveries, return : Deliveries,
        queued : BOOLEAN, outcome : Int, code : Codes]

Places == {"idle", "list", "opening", "opened", "configuring", "sending", "returning", "turn"}

Copies == [seen : Nat, late : Nat, sight : {"none", "late", "outbox", "message", "removed"}]

Kid == [opened : Nat, lost : Nat, state : {"idle", "busy", "error"}, turns : Nat, answers : Nat]

\* Type invariant of the delegations.
DelegationTypeOK ==
    /\ job \in [Jobs -> Job]
    /\ walk \in [at : Places, d : Nat, list : [Jobs -> Job]]
    /\ candidate \in [Jobs -> [signature : Int, reads : Nat]]
    /\ child \in [Jobs -> Kid]
    /\ copy \in [Jobs -> [Ways -> Copies]]
    /\ deaths \in Nat

\* A job the producer works on is as it was listed: only the producer writes it. A
\* failed one may have been dismissed since.
ListIsCurrent ==
    walk.at # "idle" => \A d \in Jobs :
        /\ walk.list[d].status \notin {"none", "failed", "gone"} => job[d] = walk.list[d]
        /\ walk.list[d].status = "failed" => job[d].status \in {"failed", "gone"}

\* The await the producer is in is of the stage that was listed.
StageIsListed ==
    \A d \in Jobs : walk.d = d =>
        /\ walk.at \in {"opening", "configuring", "sending", "returning"} => walk.list[d].status = walk.at
        /\ walk.at = "opened" => walk.list[d].status = "opening"
        /\ walk.at = "turn" => walk.list[d].status \in {"sending", "returning"}

Unopened == {"none", "queued", "opening"}

\* Before the stage after the opening is saved, the id of every chat was lost, but
\* for the one the producer has just opened.
ChatsAreAccounted ==
    \A d \in Jobs :
        /\ child[d].opened <= 1 + child[d].lost
        /\ job[d].status \in Unopened /\ ~(walk.at = "opened" /\ walk.d = d) =>
              child[d].opened <= child[d].lost

\* A copy that was seen and not removed is found by the probe before another is
\* typed, and the producer that is about to type found none.
CopiesAreAccounted ==
    \A d \in Jobs :
        /\ \A w \in Ways : copy[d][w].seen = 0 \/ (copy[d][w].seen = 1 /\ Visible(d, w))
        /\ walk.at = "turn" /\ walk.d = d => copy[d][Way].seen = 0

ReadsAreCounted == \A d \in Jobs : candidate[d].signature # 0 => candidate[d].reads > 0

DelegationsInOrder ==
    /\ DelegationTypeOK /\ ListIsCurrent /\ StageIsListed
    /\ ChatsAreAccounted /\ CopiesAreAccounted /\ ReadsAreCounted

\* The claim of AnswerWasReadTwice about one step.
ReadTwice ==
    \A d \in Jobs : job[d].status = "running" /\ job'[d].status = "returning"
                        => candidate'[d].reads = 2

LEMMA JobsAreTyped ==
    ASSUME DelegationTypeOK, NEW d \in Jobs
    PROVE  /\ job[d] \in Job /\ job[d].status \in JobStates
           /\ walk \in [at : Places, d : Nat, list : [Jobs -> Job]]
           /\ walk.at \in Places /\ walk.d \in Nat /\ walk.list \in [Jobs -> Job]
           /\ walk.list[d] \in Job /\ walk.list[d].status \in JobStates
           /\ child[d] \in Kid /\ deaths \in Nat
           /\ copy[d] \in [Ways -> Copies]
<1>1. /\ job[d] \in Job /\ walk.list \in [Jobs -> Job] /\ walk.at \in Places /\ walk.d \in Nat
      /\ walk \in [at : Places, d : Nat, list : [Jobs -> Job]]
      /\ child[d] \in Kid /\ deaths \in Nat /\ copy[d] \in [Ways -> Copies]
  BY DEF DelegationTypeOK
<1>2. walk.list[d] \in Job
  BY <1>1
<1> QED
  BY <1>1, <1>2 DEF Job

\* What a step leaves of the chats that were opened, if it loses at most the id of the
\* one the producer has in its hands.
LEMMA LossIsCounted ==
    ASSUME DelegationsInOrder, IdIsLost \/ UNCHANGED child
    PROVE  /\ child' \in [Jobs -> Kid]
           /\ \A e \in Jobs :
                 /\ child'[e].opened <= 1 + child'[e].lost
                 /\ job[e].status \in Unopened
                      /\ (~(walk.at = "opened" /\ walk.d = e) \/ IdIsLost) =>
                        child'[e].opened <= child'[e].lost
<1>1. /\ child \in [Jobs -> Kid]
      /\ \A e \in Jobs :
            /\ child[e].opened <= 1 + child[e].lost
            /\ job[e].status \in Unopened /\ ~(walk.at = "opened" /\ walk.d = e) =>
                  child[e].opened <= child[e].lost
  BY DEF DelegationsInOrder, DelegationTypeOK, ChatsAreAccounted
<1>2. CASE IdIsLost
  <2>1. ASSUME NEW e \in Jobs, walk.at = "opened", walk.d = e
        PROVE  /\ child'[e] \in Kid /\ child'[e].opened <= child'[e].lost
               /\ child'[e].opened <= 1 + child'[e].lost
    <3> DEFINE lost1 == child[e].lost + 1
    <3>1. child[e] \in Kid /\ lost1 \in Nat /\ child[e].opened <= lost1
      BY <1>1 DEF Kid
    <3>2. child'[e] = [child[e] EXCEPT !.lost = lost1]
      BY <1>2, <2>1 DEF IdIsLost
    <3> HIDE DEF lost1
    <3>3. child'[e] \in Kid /\ child'[e].opened = child[e].opened /\ child'[e].lost = lost1
      BY <3>1, <3>2 DEF Kid
    <3>4. child[e].opened \in Nat
      BY <3>1 DEF Kid
    <3> QED
      BY <3>1, <3>3, <3>4
  <2>2. ASSUME NEW e \in Jobs, ~(walk.at = "opened" /\ walk.d = e)
        PROVE  child'[e] = child[e]
    BY <1>2, <2>2 DEF IdIsLost
  <2>3. \A e \in Jobs : child'[e] \in Kid
    BY <1>1, <2>1, <2>2
  <2>4. DOMAIN child' = Jobs /\ child' = [e \in Jobs |-> child'[e]]
    BY <1>2 DEF IdIsLost
  <2>5. child' \in [Jobs -> Kid]
    BY <2>3, <2>4
  <2> QED
    BY <1>1, <2>1, <2>2, <2>5
<1>3. CASE UNCHANGED child
  <2>1. IdIsLost => \A e \in Jobs : ~(walk.at = "opened" /\ walk.d = e)
    <3> SUFFICES ASSUME IdIsLost, NEW e \in Jobs, walk.at = "opened", walk.d = e PROVE FALSE
      OBVIOUS
    <3>1. child[e] \in Kid
      BY <1>1
    <3>2. child[e] = [child[e] EXCEPT !.lost = @ + 1]
      BY <1>3 DEF IdIsLost
    <3>3. child[e].lost = child[e].lost + 1 /\ child[e].lost \in Nat
      BY <3>1, <3>2 DEF Kid
    <3> QED
      BY <3>3
  <2> QED
    BY <1>1, <1>3, <2>1
<1> QED
  BY <1>2, <1>3

\* The producer writes a job and lists again.
LEMMA PutKeepsOrder ==
    ASSUME DelegationsInOrder, NEW d \in Jobs, walk.d = d, NEW changed \in Job,
           Put(changed), Again, IdIsLost \/ UNCHANGED child, UNCHANGED <<copy, deaths>>,
           candidate' \in [Jobs -> [signature : Int, reads : Nat]], ReadsAreCounted',
           changed.status \in Unopened =>
               job[d].status \in Unopened /\ (walk.at # "opened" \/ IdIsLost),
           changed.status = "returning" =>
               job[d].status # "running" \/ candidate'[d].reads = 2
    PROVE  DelegationsInOrder' /\ ReadTwice
<1> USE DEF DelegationsInOrder
<1>1. /\ job' \in [Jobs -> Job]
      /\ \A e \in Jobs : job'[e] = IF e = d THEN changed ELSE job[e]
  BY DEF Put, DelegationTypeOK
<1>2. /\ walk'.at = "list" /\ walk'.d = 1 /\ walk'.list = job'
      /\ walk' \in [at : Places, d : Nat, list : [Jobs -> Job]]
  BY <1>1 DEF Again, Places
<1>3. DelegationTypeOK'
  BY <1>1, <1>2, LossIsCounted DEF DelegationTypeOK
<1>4. ListIsCurrent'
  BY <1>1, <1>2 DEF ListIsCurrent
<1>5. StageIsListed'
  BY <1>2 DEF StageIsListed
<1>6. ChatsAreAccounted'
  <2> SUFFICES ASSUME NEW e \in Jobs
               PROVE  /\ child'[e].opened <= 1 + child'[e].lost
                      /\ job'[e].status \in Unopened => child'[e].opened <= child'[e].lost
    BY DEF ChatsAreAccounted
  <2>1. /\ child'[e].opened <= 1 + child'[e].lost
        /\ job[e].status \in Unopened
             /\ (~(walk.at = "opened" /\ walk.d = e) \/ IdIsLost) =>
               child'[e].opened <= child'[e].lost
    BY LossIsCounted
  <2>2. job'[e].status \in Unopened =>
            /\ job[e].status \in Unopened
            /\ ~(walk.at = "opened" /\ walk.d = e) \/ IdIsLost
    BY <1>1
  <2> QED
    BY <2>1, <2>2
<1>7. CopiesAreAccounted'
  BY <1>2 DEF CopiesAreAccounted, Visible
<1>8. ReadTwice
  BY <1>1 DEF ReadTwice
<1> QED
  BY <1>3, <1>4, <1>5, <1>6, <1>7, <1>8

\* The producer goes on to the next job.
LEMMA OnwardKeepsOrder ==
    ASSUME DelegationsInOrder, Onward, walk.at \notin {"idle", "opened"},
           UNCHANGED <<child, copy, deaths>>,
           candidate' \in [Jobs -> [signature : Int, reads : Nat]], ReadsAreCounted'
    PROVE  DelegationsInOrder' /\ ReadTwice
<1> USE DEF DelegationsInOrder
<1>1. UNCHANGED job /\ walk \in [at : Places, d : Nat, list : [Jobs -> Job]]
  BY DEF Onward, DelegationTypeOK
<1>2. CASE walk.d + 1 \in Jobs
  <2> DEFINE next == walk.d + 1
  <2>1. next \in Nat /\ walk' = [walk EXCEPT !.at = "list", !.d = next]
    BY <1>1, <1>2 DEF Onward
  <2> HIDE DEF next
  <2>2. /\ walk'.at = "list" /\ walk'.list = walk.list
        /\ walk' \in [at : Places, d : Nat, list : [Jobs -> Job]]
    BY <1>1, <2>1 DEF Places
  <2>3. DelegationTypeOK'
    BY <1>1, <2>2 DEF DelegationTypeOK
  <2>4. ListIsCurrent' /\ StageIsListed'
    BY <1>1, <2>2 DEF ListIsCurrent, StageIsListed
  <2>5. ChatsAreAccounted' /\ CopiesAreAccounted'
    BY <1>1, <2>2 DEF ChatsAreAccounted, CopiesAreAccounted, Visible
  <2> QED
    BY <1>1, <2>3, <2>4, <2>5 DEF ReadTwice
<1>3. CASE walk.d + 1 \notin Jobs
  <2>1. /\ NoJob \in Job
        /\ walk' = Resting
    BY <1>3 DEF Onward, NoJob, Job, JobStates, Deliveries, Codes
  <2>2. /\ walk'.at = "idle"
        /\ walk' \in [at : Places, d : Nat, list : [Jobs -> Job]]
    BY <2>1 DEF Resting, Places
  <2>3. DelegationTypeOK'
    BY <1>1, <2>2 DEF DelegationTypeOK
  <2>4. ListIsCurrent' /\ StageIsListed'
    BY <2>2 DEF ListIsCurrent, StageIsListed
  <2>5. ChatsAreAccounted' /\ CopiesAreAccounted'
    BY <1>1, <2>2 DEF ChatsAreAccounted, CopiesAreAccounted, Visible
  <2> QED
    BY <1>1, <2>3, <2>4, <2>5 DEF ReadTwice
<1> QED
  BY <1>2, <1>3

\* The producer begins an await, or ends one, for a job that stays as it is.
LEMMA AwaitKeepsOrder ==
    ASSUME DelegationsInOrder, NEW d \in Jobs, walk.d = d, NEW place \in Places \ {"idle", "opened"},
           walk.at \notin {"idle", "opened"}, walk' = [walk EXCEPT !.at = place],
           place \in {"opening", "configuring", "sending", "returning"} =>
               walk.list[d].status = place,
           place = "turn" => walk.list[d].status \in {"sending", "returning"} /\ copy'[d][Way].seen = 0,
           UNCHANGED <<job, candidate, child, deaths>>,
           copy' \in [Jobs -> [Ways -> Copies]],
           \A e \in Jobs, w \in Ways :
               copy'[e][w].seen = 0 \/ (copy'[e][w].seen = 1 /\ Visible(e, w)')
    PROVE  DelegationsInOrder' /\ ReadTwice
<1> USE DEF DelegationsInOrder
<1>1. walk \in [at : Places, d : Nat, list : [Jobs -> Job]]
  BY DEF DelegationTypeOK
<1>2. /\ walk'.at = place /\ walk'.d = d /\ walk'.list = walk.list
      /\ walk' \in [at : Places, d : Nat, list : [Jobs -> Job]]
  BY <1>1
<1>3. DelegationTypeOK'
  BY <1>2 DEF DelegationTypeOK
<1>4. ListIsCurrent'
  BY <1>2 DEF ListIsCurrent
<1>5. StageIsListed'
  BY <1>2 DEF StageIsListed
<1>6. ChatsAreAccounted' /\ ReadsAreCounted'
  BY <1>2 DEF ChatsAreAccounted, ReadsAreCounted
<1>7. Way' = Way
  BY <1>2 DEF Way, Listed
<1>8. CopiesAreAccounted'
  BY <1>2, <1>7 DEF CopiesAreAccounted
<1>9. ReadTwice
  BY DEF ReadTwice, DelegationTypeOK, Job
<1> QED
  BY <1>3, <1>4, <1>5, <1>6, <1>8, <1>9

LEMMA CandidatesStay ==
    ASSUME DelegationsInOrder, UNCHANGED candidate
    PROVE  candidate' \in [Jobs -> [signature : Int, reads : Nat]] /\ ReadsAreCounted'
  BY DEF DelegationsInOrder, DelegationTypeOK, ReadsAreCounted

\* A job that is worked on is what was listed.
LEMMA ListedIsJob ==
    ASSUME DelegationsInOrder, NEW d \in Jobs, walk.d = d, walk.at # "idle",
           Listed.status \notin {"none", "failed", "gone"}
    PROVE  job[d] = Listed
  BY DEF DelegationsInOrder, ListIsCurrent, Listed

LEMMA FailsKeepsOrder ==
    ASSUME DelegationsInOrder, NEW d \in Jobs, walk.d = d, walk.at # "idle",
           NEW code \in Codes, NEW retryable \in BOOLEAN, Fails(code, retryable),
           Listed.status \notin {"none", "failed", "gone"},
           walk.at = "opened" => ~retryable \/ IdIsLost,
           IdIsLost \/ UNCHANGED child, UNCHANGED <<candidate, copy, deaths>>
    PROVE  DelegationsInOrder' /\ ReadTwice
<1>1. Listed \in Job /\ job[d] = Listed
  BY JobsAreTyped, ListedIsJob DEF DelegationsInOrder, Listed
<1> DEFINE attempts == Listed.attempts + 1
           gone == [Listed EXCEPT !.status = "failed", !.attempts = attempts, !.code = code]
           kept == [Listed EXCEPT !.attempts = attempts]
           changed == IF Listed.attempts + 1 >= maxAttempts \/ ~retryable THEN gone ELSE kept
<1>2. Put(changed) /\ Again
  BY DEF Fails
<1>3. attempts \in Nat
  BY <1>1 DEF Job
<1> HIDE DEF attempts
<1>4. /\ gone \in Job /\ gone.status = "failed"
      /\ kept \in Job /\ kept.status = Listed.status
  BY <1>1, <1>3 DEF Job, JobStates
<1>5. changed = gone \/ (changed = kept /\ retryable)
  OBVIOUS
<1> HIDE DEF gone, kept, changed
<1>6. /\ changed \in Job
      /\ \/ changed.status = "failed"
         \/ changed.status = job[d].status /\ (walk.at # "opened" \/ IdIsLost)
  BY <1>1, <1>4, <1>5
<1>7. /\ changed.status \in Unopened =>
            job[d].status \in Unopened /\ (walk.at # "opened" \/ IdIsLost)
      /\ changed.status = "returning" => job[d].status # "running" \/ candidate'[d].reads = 2
  BY <1>6 DEF Unopened
<1> QED
  BY <1>2, <1>6, <1>7, CandidatesStay, PutKeepsOrder

\* Steps of the producer before the delivery.
LEMMA OpeningStagesKeepOrder ==
    ASSUME DelegationsInOrder, NEW d \in Jobs,
           StartsOpening(d) \/ RemovesReturned(d) \/ OpenReturns(d) \/ ConfigureReturns(d)
    PROVE  DelegationsInOrder' /\ ReadTwice
<1>1. /\ walk.d = d /\ UNCHANGED <<candidate, copy, deaths>>
      /\ IdIsLost \/ UNCHANGED child
  BY DEF StartsOpening, RemovesReturned, OpenReturns, ConfigureReturns, ListedAt
<1>2. Listed \in Job
  BY <1>1, JobsAreTyped DEF DelegationsInOrder, Listed
<1>3. ASSUME NEW status \in JobStates \ {"returning"}, Put([Listed EXCEPT !.status = status]), Again,
             status \in Unopened => job[d].status \in Unopened /\ walk.at # "opened"
      PROVE  DelegationsInOrder' /\ ReadTwice
  <2> DEFINE changed == [Listed EXCEPT !.status = status]
  <2>1. changed \in Job /\ changed.status = status
    BY <1>2 DEF Job
  <2> HIDE DEF changed
  <2> QED
    BY <1>1, <1>3, <2>1, CandidatesStay, PutKeepsOrder DEF changed
<1>4. CASE StartsOpening(d)
  <2>1. walk.at = "list" /\ Listed.status = "queued"
    BY <1>4 DEF StartsOpening, ListedAt
  <2>2. job[d].status = "queued"
    BY <1>1, <2>1, ListedIsJob
  <2>3. Put([Listed EXCEPT !.status = "opening"]) /\ Again
    BY <1>4 DEF StartsOpening
  <2> QED
    BY <1>3, <2>1, <2>2, <2>3 DEF JobStates, Unopened
<1>5. CASE RemovesReturned(d)
  <2> DEFINE changed == [NoJob EXCEPT !.status = "gone"]
  <2>1. changed \in Job /\ changed.status = "gone"
    <3>1. NoJob \in Job
      BY DEF NoJob, Job, JobStates, Deliveries, Codes
    <3> QED
      BY <3>1 DEF Job, JobStates
  <2>2. Put(changed) /\ Again
    BY <1>5 DEF RemovesReturned
  <2> HIDE DEF changed
  <2> QED
    BY <1>1, <2>1, <2>2, CandidatesStay, PutKeepsOrder DEF Unopened
<1>6. CASE OpenReturns(d)
  <2>1. walk.at \in {"opening", "opened"}
    BY <1>6 DEF OpenReturns
  <2>2. Listed.status = "opening"
    BY <1>1, <2>1 DEF DelegationsInOrder, StageIsListed, Listed
  <2>3. CASE Put([Listed EXCEPT !.status = "configuring"]) /\ Again
    BY <1>3, <2>3 DEF JobStates, Unopened
  <2>4. CASE Fails("opening_failed", FALSE)
    BY <1>1, <2>1, <2>2, <2>4, FailsKeepsOrder DEF Codes
  <2>5. CASE Fails("opening_failed", TRUE) /\ IdIsLost
    BY <1>1, <2>1, <2>2, <2>5, FailsKeepsOrder DEF Codes
  <2> QED
    BY <1>6, <2>3, <2>4, <2>5 DEF OpenReturns, Unconfirmed
<1>7. CASE ConfigureReturns(d)
  <2>1. walk.at = "configuring"
    BY <1>7 DEF ConfigureReturns
  <2>2. Listed.status = "configuring"
    BY <1>1, <2>1 DEF DelegationsInOrder, StageIsListed, Listed
  <2>3. CASE Put([Listed EXCEPT !.status = "sending"]) /\ Again
    BY <1>3, <2>3 DEF JobStates, Unopened
  <2>4. CASE \E retryable \in BOOLEAN : Fails("configuration_failed", retryable)
    BY <1>1, <2>1, <2>2, <2>4, FailsKeepsOrder DEF Codes
  <2> QED
    BY <1>7, <2>3, <2>4 DEF ConfigureReturns
<1> QED
  BY <1>4, <1>5, <1>6, <1>7

LEMMA TrackedIsListed ==
    ASSUME DelegationsInOrder, NEW d \in Jobs, NEW delivery, Tracks(d, delivery)
    PROVE  /\ walk.d = d /\ walk.at \in {"sending", "returning"} /\ Listed.status = walk.at
           /\ Listed \in Job /\ job[d] = Listed /\ Way \in Ways
<1>1. walk.d = d /\ walk.at \in {"sending", "returning"}
  BY DEF Tracks
<1>2. Listed.status = walk.at
  BY <1>1 DEF DelegationsInOrder, StageIsListed, Listed
<1>3. Listed \in Job
  BY <1>1, JobsAreTyped DEF DelegationsInOrder, Listed
<1> QED
  BY <1>1, <1>2, <1>3, ListedIsJob DEF Way, Ways

\* Steps that note how far the delivery has come.
LEMMA NotesKeepOrder ==
    ASSUME DelegationsInOrder, NEW d \in Jobs,
           SavesBaseline(d) \/ AcceptedUnseen(d) \/ Identifies(d)
    PROVE  DelegationsInOrder' /\ ReadTwice
<1>1. PICK delivery : Tracks(d, delivery)
  BY DEF SavesBaseline, AcceptedUnseen, Identifies
<1>2. /\ walk.d = d /\ walk.at \in {"sending", "returning"} /\ Listed.status = walk.at
      /\ Listed \in Job /\ job[d] = Listed /\ Way \in Ways
  BY <1>1, TrackedIsListed
<1>3. /\ UNCHANGED <<candidate, child, copy, deaths>> /\ Again
      /\ \E far \in Deliveries : Put([Listed EXCEPT ![Way] = far])
  BY DEF SavesBaseline, AcceptedUnseen, Identifies, Deliveries
<1>4. PICK far \in Deliveries : Put([Listed EXCEPT ![Way] = far])
  BY <1>3
<1> DEFINE changed == [Listed EXCEPT ![Way] = far]
<1>5. changed \in Job /\ changed.status = Listed.status
  <2>1. CASE Way = "send"
    <3>1. [Listed EXCEPT !.send = far] \in Job /\ [Listed EXCEPT !.send = far].status = Listed.status
      BY <1>2 DEF Job
    <3> QED
      BY <2>1, <3>1
  <2>2. CASE Way = "return"
    <3>1. [Listed EXCEPT !.return = far] \in Job /\ [Listed EXCEPT !.return = far].status = Listed.status
      BY <1>2 DEF Job
    <3> QED
      BY <2>2, <3>1
  <2> QED
    BY <1>2, <2>1, <2>2 DEF Ways
<1>6. Put(changed)
  BY <1>4
<1> HIDE DEF changed
<1>7. /\ changed.status \in Unopened => job[d].status \in Unopened /\ walk.at # "opened"
      /\ changed.status = "returning" => job[d].status # "running" \/ candidate'[d].reads = 2
  BY <1>2, <1>5
<1> QED
  BY <1>2, <1>3, <1>5, <1>6, <1>7, CandidatesStay, PutKeepsOrder

LEMMA DeliveryEndsKeepOrder ==
    ASSUME DelegationsInOrder, NEW d \in Jobs, SendFails(d) \/ Follows(d) \/ StillUnseen(d)
    PROVE  DelegationsInOrder' /\ ReadTwice
<1>1. PICK delivery : Tracks(d, delivery)
  BY DEF SendFails, Follows, StillUnseen
<1>2. /\ walk.d = d /\ walk.at \in {"sending", "returning"} /\ Listed.status = walk.at
      /\ Listed \in Job /\ job[d] = Listed /\ Way \in Ways
  BY <1>1, TrackedIsListed
<1>3. UNCHANGED <<candidate, child, copy, deaths>>
  BY DEF SendFails, Follows, StillUnseen
<1>4. ASSUME NEW code \in Codes, NEW retryable \in BOOLEAN, Fails(code, retryable)
      PROVE  DelegationsInOrder' /\ ReadTwice
  BY <1>2, <1>3, <1>4, FailsKeepsOrder
<1>5. Failure(Way) \in Codes
  BY DEF Failure, Codes
<1>6. CASE Onward
  BY <1>2, <1>3, <1>6, CandidatesStay, OnwardKeepsOrder
<1>7. CASE /\ Put([Listed EXCEPT !.status = IF Way = "send" THEN "running" ELSE "returned"])
           /\ Again
  <2> DEFINE status == IF Way = "send" THEN "running" ELSE "returned"
             changed == [Listed EXCEPT !.status = status]
  <2>1. status \in {"running", "returned"} /\ Put(changed)
    BY <1>7
  <2> HIDE DEF status
  <2>2. changed \in Job /\ changed.status = status
    BY <1>2, <2>1 DEF Job, JobStates
  <2> HIDE DEF changed
  <2> QED
    BY <1>2, <1>3, <1>7, <2>1, <2>2, CandidatesStay, PutKeepsOrder DEF Unopened
<1>8. CASE SendFails(d)
  BY <1>4, <1>5, <1>8 DEF SendFails
<1>9. CASE Follows(d)
  <2>1. CASE Fails(Failure(Way), FALSE) \/ Fails("delivery_altered", FALSE)
    BY <1>4, <1>5, <2>1 DEF Codes
  <2> QED
    BY <1>6, <1>7, <1>9, <2>1 DEF Follows
<1> QED
  BY <1>6, <1>8, <1>9 DEF StillUnseen

\* The producer looks at a job and leaves it, or takes a failed one up again.
LEMMA LookingOnKeepsOrder ==
    ASSUME DelegationsInOrder, NEW d \in Jobs, Passes(d) \/ Blocked(d) \/ Reconciles(d) \/ ReadFails(d)
    PROVE  DelegationsInOrder' /\ ReadTwice
<1>1. /\ walk.d = d /\ walk.at \notin {"idle", "opened"}
      /\ UNCHANGED <<candidate, child, copy, deaths>>
  BY DEF Passes, Blocked, Reconciles, ReadFails, ListedAt
<1>2. CASE Onward
  BY <1>1, <1>2, CandidatesStay, OnwardKeepsOrder
<1>3. CASE Reconciles(d) /\ ~Onward
  <2>1. walk.at = "list" /\ Listed.status = "failed"
    BY <1>3 DEF Reconciles, ListedAt
  <2>2. job[d].status \in {"failed", "gone"}
    BY <1>1, <2>1 DEF DelegationsInOrder, ListIsCurrent, Listed
  <2>3. Listed \in Job
    BY <1>1, JobsAreTyped DEF DelegationsInOrder, Listed
  <2>4. PICK w \in Ways : Put([Listed EXCEPT !.status = IF w = "send" THEN "sending" ELSE "returning",
                                             ![w] = "known", !.code = "none"]) /\ Again
    BY <1>3 DEF Reconciles
  <2>5. PICK changed \in Job : Put(changed) /\ changed.status \in {"sending", "returning"}
    <3>1. CASE w = "send"
      <4> DEFINE one == [Listed EXCEPT !.status = "sending", !.send = "known", !.code = "none"]
      <4>1. one \in Job /\ one.status = "sending"
        BY <2>3 DEF Job, JobStates, Deliveries, Codes
      <4>2. Put(one)
        BY <2>4, <3>1
      <4> QED
        BY <4>1, <4>2
    <3>2. CASE w = "return"
      <4> DEFINE one == [Listed EXCEPT !.status = "returning", !.return = "known", !.code = "none"]
      <4>1. one \in Job /\ one.status = "returning"
        BY <2>3 DEF Job, JobStates, Deliveries, Codes
      <4>2. Put(one)
        BY <2>4, <3>2
      <4> QED
        BY <4>1, <4>2
    <3> QED
      BY <3>1, <3>2 DEF Ways
  <2>6. /\ changed.status \notin Unopened
        /\ job[d].status # "running"
    BY <2>2, <2>5 DEF Unopened
  <2> QED
    BY <1>1, <2>1, <2>4, <2>5, <2>6, CandidatesStay, PutKeepsOrder
<1> QED
  BY <1>2, <1>3 DEF Passes, Blocked, ReadFails

\* An answer is taken from the second read that found it.
LEMMA ObservesKeepsOrder ==
    ASSUME DelegationsInOrder, NEW d \in Jobs, Observes(d)
    PROVE  DelegationsInOrder' /\ ReadTwice
<1> DEFINE seen == Completion(d)
           again == candidate[d].signature = seen
           reads == IF candidate[d].reads > 0 /\ again THEN 2 ELSE 1
<1>1. /\ walk.d = d /\ walk.at = "list" /\ Listed.status = "running" /\ Listed \in Job
      /\ UNCHANGED <<child, copy, deaths>>
  BY JobsAreTyped DEF Observes, ListedAt, DelegationsInOrder, Listed
<1>2. /\ candidate \in [Jobs -> [signature : Int, reads : Nat]]
      /\ candidate[d].reads \in Nat
      /\ candidate[d].signature # 0 => candidate[d].reads > 0
      /\ ReadsAreCounted
  BY DEF DelegationsInOrder, DelegationTypeOK, ReadsAreCounted
<1>3. seen \in Int
  <2>1. child[d].answers \in Nat
    BY DEF DelegationsInOrder, DelegationTypeOK, Kid
  <2> QED
    BY <2>1 DEF Completion
<1>4. ASSUME NEW now \in [signature : Int, reads : Nat], candidate' = [candidate EXCEPT ![d] = now],
             now.signature # 0 => now.reads > 0
      PROVE  candidate' \in [Jobs -> [signature : Int, reads : Nat]] /\ ReadsAreCounted'
  BY <1>2, <1>4 DEF ReadsAreCounted
<1> HIDE DEF seen
<1>5. CASE /\ candidate' = [candidate EXCEPT ![d] = [signature |-> NoCompletion(d), reads |-> 0]]
           /\ Onward
  <2>1. [signature |-> NoCompletion(d), reads |-> 0] \in [signature : Int, reads : Nat]
    BY DEF NoCompletion
  <2>2. candidate' \in [Jobs -> [signature : Int, reads : Nat]] /\ ReadsAreCounted'
    BY <1>4, <1>5, <2>1 DEF NoCompletion
  <2> QED
    BY <1>1, <1>5, <2>2, OnwardKeepsOrder
<1>6. CASE /\ candidate' = [candidate EXCEPT ![d] = [signature |-> seen, reads |-> 1]]
           /\ Onward
  <2> DEFINE now == [signature |-> seen, reads |-> 1]
  <2>1. now \in [signature : Int, reads : Nat] /\ now.reads > 0
    BY <1>3
  <2> HIDE DEF now
  <2>2. candidate' \in [Jobs -> [signature : Int, reads : Nat]] /\ ReadsAreCounted'
    BY <1>4, <1>6, <2>1 DEF now
  <2> QED
    BY <1>1, <1>6, <2>2, OnwardKeepsOrder
<1>7. CASE /\ seen # 0 /\ again
           /\ candidate' = [candidate EXCEPT ![d] = [signature |-> 0, reads |-> reads]]
           /\ Put([Listed EXCEPT !.status = "returning", !.outcome = seen]) /\ Again
  <2>1. reads = 2
    BY <1>2, <1>7
  <2> HIDE DEF reads
  <2> DEFINE changed == [Listed EXCEPT !.status = "returning", !.outcome = seen]
  <2>2. changed \in Job /\ changed.status = "returning"
    BY <1>1, <1>3 DEF Job, JobStates
  <2> HIDE DEF changed
  <2>3. [signature |-> 0, reads |-> reads] \in [signature : Int, reads : Nat]
    BY <2>1
  <2>4. candidate' \in [Jobs -> [signature : Int, reads : Nat]] /\ ReadsAreCounted'
    BY <1>4, <1>7, <2>3
  <2>5. candidate'[d].reads = 2
    BY <1>2, <1>7, <2>1
  <2> QED
    BY <1>1, <1>7, <2>2, <2>4, <2>5, PutKeepsOrder DEF Unopened, changed
<1> QED
  BY <1>5, <1>6, <1>7 DEF Observes, seen

\* Awaits. A chat that appears is counted; what is typed was not there.
LEMMA AwaitsKeepOrder ==
    ASSUME DelegationsInOrder, NEW d \in Jobs, Attempts(d) \/ WaitsForTurn(d) \/ Types(d)
    PROVE  DelegationsInOrder' /\ ReadTwice
<1>1. /\ copy \in [Jobs -> [Ways -> Copies]]
      /\ \A e \in Jobs, w \in Ways :
            copy[e][w].seen = 0 \/ (copy[e][w].seen = 1 /\ Visible(e, w))
  BY DEF DelegationsInOrder, DelegationTypeOK, CopiesAreAccounted
<1>2. CASE Attempts(d) \/ WaitsForTurn(d)
  <2>0. UNCHANGED copy
    BY <1>2 DEF Attempts, WaitsForTurn
  <2>1. \A e \in Jobs, w \in Ways :
            copy'[e][w].seen = 0 \/ (copy'[e][w].seen = 1 /\ Visible(e, w)')
    BY <1>1, <2>0 DEF Visible
  <2>2. CASE Attempts(d)
    <3>1. PICK status \in {"opening", "configuring", "sending", "returning"} :
            ListedAt(d, status) /\ walk' = [walk EXCEPT !.at = status]
      BY <2>2 DEF Attempts
    <3>2. status \in Places \ {"idle", "opened", "turn"} /\ walk.list[d].status = status
      BY <3>1 DEF Places, ListedAt, Listed
    <3>3. walk.d = d /\ walk.at = "list" /\ UNCHANGED <<job, candidate, child, deaths>>
      BY <2>2, <3>1 DEF Attempts, ListedAt
    <3>4. status # "turn" /\ copy' \in [Jobs -> [Ways -> Copies]]
      BY <1>1, <2>0, <3>1
    <3> QED
      BY <2>1, <3>1, <3>2, <3>3, <3>4, AwaitKeepsOrder
  <2>3. CASE WaitsForTurn(d)
    <3>1. Tracks(d, "prepared") /\ ~Visible(d, Way)
      BY <2>3 DEF WaitsForTurn, Received
    <3>2. /\ walk.d = d /\ walk.at \in {"sending", "returning"} /\ Listed.status = walk.at
          /\ Way \in Ways
      BY <3>1, TrackedIsListed
    <3>3. copy'[d][Way].seen = 0
      BY <1>1, <2>0, <3>1, <3>2
    <3>4. /\ walk' = [walk EXCEPT !.at = "turn"] /\ UNCHANGED <<job, candidate, child, deaths>>
          /\ walk.list[d].status \in {"sending", "returning"} /\ "turn" \in Places \ {"idle", "opened"}
          /\ copy' \in [Jobs -> [Ways -> Copies]]
      BY <1>1, <2>0, <2>3, <3>2 DEF WaitsForTurn, Listed, Places
    <3> QED
      BY <2>1, <3>2, <3>3, <3>4, AwaitKeepsOrder
  <2> QED
    BY <1>2, <2>2, <2>3
<1>3. CASE Types(d)
  <2> DEFINE way == Way
             old == copy[d][way]
  <2>1. walk.d = d /\ walk.at = "turn" /\ way \in Ways
    BY <1>3 DEF Types, Way, Ways
  <2>2. /\ Listed.status \in {"sending", "returning"}
        /\ old.seen = 0 /\ old \in Copies
    BY <1>1, <2>1 DEF DelegationsInOrder, StageIsListed, CopiesAreAccounted, Listed
  <2>3. PICK new \in Copies : /\ copy' = [copy EXCEPT ![d][way] = new]
                              /\ new.seen = 0 \/ (new.seen = 1 /\ new.sight = "outbox")
    <3>1. CASE copy' = [copy EXCEPT ![d][way].seen = @ + 1, ![d][way].sight = "outbox"]
      <4> DEFINE new == [old EXCEPT !.seen = 1, !.sight = "outbox"]
      <4>1. new \in Copies /\ new.seen = 1 /\ new.sight = "outbox"
        BY <2>2 DEF Copies
      <4>2. copy' = [copy EXCEPT ![d][way].seen = 1, ![d][way].sight = "outbox"]
        BY <1>1, <2>1, <2>2, <3>1
      <4> HIDE DEF way
      <4>3. copy' = [copy EXCEPT ![d][way] = new]
        BY <1>1, <2>1, <4>2
      <4> QED
        BY <4>1, <4>3
    <3>2. CASE copy' = [copy EXCEPT ![d][way].late = @ + 1,
                                    ![d][way].sight = IF Visible(d, way) THEN @ ELSE "late"]
      <4> DEFINE late == old.late + 1
                 sight == IF Visible(d, way) THEN old.sight ELSE "late"
                 new == [old EXCEPT !.late = late, !.sight = sight]
      <4>1. late \in Nat /\ sight \in {"none", "late", "outbox", "message", "removed"}
        BY <2>2 DEF Copies
      <4>2. copy' = [copy EXCEPT ![d][way].late = late, ![d][way].sight = sight]
        BY <1>1, <2>1, <3>2
      <4> HIDE DEF way, late, sight
      <4>3. new \in Copies /\ new.seen = 0
        BY <2>2, <4>1 DEF Copies
      <4>4. copy' = [copy EXCEPT ![d][way] = new]
        BY <1>1, <2>1, <4>2
      <4> QED
        BY <4>3, <4>4
    <3> QED
      BY <1>3, <3>1, <3>2 DEF Types
  <2> HIDE DEF way
  <2>4. /\ copy' \in [Jobs -> [Ways -> Copies]]
        /\ \A e \in Jobs, w \in Ways :
              copy'[e][w] = IF e = d /\ w = way THEN new ELSE copy[e][w]
    BY <1>1, <2>1, <2>3
  <2>5. \A e \in Jobs, w \in Ways :
            copy'[e][w].seen = 0 \/ (copy'[e][w].seen = 1 /\ Visible(e, w)')
    BY <1>1, <2>3, <2>4 DEF Visible
  <2>6. PICK place \in {"sending", "returning"} :
            walk' = [walk EXCEPT !.at = place] /\ walk.list[d].status = place
    BY <1>3, <2>1, <2>2 DEF Types, Listed
  <2>7. place \in Places \ {"idle", "opened"} /\ place # "turn" /\ UNCHANGED <<job, candidate, child, deaths>>
    BY <1>3, <2>6 DEF Types, Places
  <2> QED
    BY <2>1, <2>4, <2>5, <2>6, <2>7, AwaitKeepsOrder
<1> QED
  BY <1>2, <1>3

\* A chat that appears is the first, or the ids of the earlier ones were lost.
LEMMA ChatAppearsKeepsOrder ==
    ASSUME DelegationsInOrder, NEW d \in Jobs, ChatAppears(d)
    PROVE  DelegationsInOrder' /\ ReadTwice
<1> USE DEF DelegationsInOrder
<1>1. /\ walk.d = d /\ walk.at = "opening" /\ walk' = [walk EXCEPT !.at = "opened"]
      /\ walk \in [at : Places, d : Nat, list : [Jobs -> Job]]
      /\ UNCHANGED <<job, candidate, copy, deaths>>
  BY DEF ChatAppears, DelegationTypeOK
<1>2. /\ walk'.at = "opened" /\ walk'.d = d /\ walk'.list = walk.list
      /\ walk' \in [at : Places, d : Nat, list : [Jobs -> Job]]
  BY <1>1 DEF Places
<1>3. walk.list[d].status = "opening"
  BY <1>1 DEF StageIsListed
<1>4. job[d].status = "opening"
  BY <1>1, <1>3 DEF ListIsCurrent
<1>5. /\ child[d] \in Kid /\ child[d].opened \in Nat /\ child[d].lost \in Nat
      /\ child[d].opened <= child[d].lost
  BY <1>1, <1>4, JobsAreTyped DEF ChatsAreAccounted, Unopened, Kid
<1> DEFINE opened1 == child[d].opened + 1
           kid == [child[d] EXCEPT !.opened = opened1]
<1>6. child' = [child EXCEPT ![d] = kid]
  BY DEF ChatAppears, DelegationTypeOK
<1>7. opened1 \in Nat /\ opened1 <= 1 + child[d].lost
  BY <1>5
<1> HIDE DEF opened1
<1>8. kid.opened = opened1 /\ kid.lost = child[d].lost /\ kid \in Kid
  BY <1>5, <1>7 DEF Kid
<1> HIDE DEF kid
<1>9. DelegationTypeOK'
  BY <1>1, <1>2, <1>6, <1>8 DEF DelegationTypeOK
<1>10. ListIsCurrent' /\ StageIsListed'
  BY <1>1, <1>2, <1>3 DEF ListIsCurrent, StageIsListed
<1>11. \A e \in Jobs : /\ child'[e].opened = IF e = d THEN opened1 ELSE child[e].opened
                       /\ child'[e].lost = child[e].lost
  BY <1>6, <1>8 DEF DelegationTypeOK
<1>12. ChatsAreAccounted'
  BY <1>1, <1>2, <1>7, <1>11 DEF ChatsAreAccounted
<1>13. CopiesAreAccounted' /\ ReadsAreCounted'
  BY <1>1, <1>2 DEF CopiesAreAccounted, ReadsAreCounted, Visible
<1>14. ReadTwice
  BY <1>1 DEF ReadTwice
<1> QED
  BY <1>9, <1>10, <1>12, <1>13, <1>14

\* The producer lists the jobs ...
LEMMA WakingKeepsOrder ==
    ASSUME DelegationsInOrder, WakeQueue
    PROVE  DelegationsInOrder' /\ ReadTwice
<1> USE DEF DelegationsInOrder
<1>1. /\ UNCHANGED <<job, candidate, child, copy, deaths>> /\ job \in [Jobs -> Job]
      /\ walk.at = "idle" /\ walk'.at = "list" /\ walk'.list = job
      /\ walk' \in [at : Places, d : Nat, list : [Jobs -> Job]]
  BY DEF WakeQueue, DelegationTypeOK, Places
<1>2. DelegationTypeOK'
  BY <1>1 DEF DelegationTypeOK
<1>3. ListIsCurrent' /\ StageIsListed'
  BY <1>1 DEF ListIsCurrent, StageIsListed
<1>4. ChatsAreAccounted' /\ CopiesAreAccounted' /\ ReadsAreCounted'
  BY <1>1 DEF ChatsAreAccounted, CopiesAreAccounted, ReadsAreCounted, Visible
<1>5. ReadTwice
  BY <1>1 DEF ReadTwice
<1> QED
  BY <1>2, <1>3, <1>4, <1>5

\* ... or is lost with its relay, or ended by a write.
LEMMA StoppingKeepsOrder ==
    ASSUME DelegationsInOrder, Dies \/ \E d \in Jobs : Throws(d)
    PROVE  DelegationsInOrder' /\ ReadTwice
<1> USE DEF DelegationsInOrder
<1>1. /\ UNCHANGED <<job, copy>> /\ IdIsLost /\ walk' = Resting
      /\ job \in [Jobs -> Job] /\ deaths' \in Nat
  BY DEF Dies, Throws, DelegationTypeOK
<1>2. candidate' \in [Jobs -> [signature : Int, reads : Nat]] /\ ReadsAreCounted'
  <2>1. Unread \in [signature : Int, reads : Nat] /\ Unread.signature = 0
    BY DEF Unread
  <2>2. CASE Dies
    BY <2>1, <2>2 DEF Dies, ReadsAreCounted
  <2>3. CASE \E d \in Jobs : Throws(d)
    BY <2>1, <2>3 DEF Throws, ReadsAreCounted, DelegationTypeOK
  <2> QED
    BY <2>2, <2>3
<1>3. walk'.at = "idle" /\ walk' \in [at : Places, d : Nat, list : [Jobs -> Job]]
  <2>1. NoJob \in Job
    BY DEF NoJob, Job, JobStates, Deliveries, Codes
  <2> QED
    BY <1>1, <2>1 DEF Resting, Places
<1>4. DelegationTypeOK'
  BY <1>1, <1>2, <1>3, LossIsCounted DEF DelegationTypeOK
<1>5. ListIsCurrent' /\ StageIsListed'
  BY <1>3 DEF ListIsCurrent, StageIsListed
<1>6. ChatsAreAccounted'
  BY <1>1, LossIsCounted DEF ChatsAreAccounted
<1>7. CopiesAreAccounted'
  BY <1>1, <1>3 DEF CopiesAreAccounted, Visible
<1>8. ReadTwice
  BY <1>1 DEF ReadTwice
<1> QED
  BY <1>2, <1>4, <1>5, <1>6, <1>7, <1>8

\* Requests write jobs the producer does not work on.
LEMMA RequestsKeepOrder ==
    ASSUME DelegationsInOrder, NEW d \in Jobs, Enqueue(d) \/ Dismiss(d)
    PROVE  DelegationsInOrder' /\ ReadTwice
<1> USE DEF DelegationsInOrder
<1>1. /\ UNCHANGED <<walk, candidate, child, copy, deaths>>
      /\ job \in [Jobs -> Job] /\ walk.list \in [Jobs -> Job]
  BY DEF Enqueue, Dismiss, DelegationTypeOK
<1>2. NoJob \in Job
  BY DEF NoJob, Job, JobStates, Deliveries, Codes
<1>3. PICK new \in Job :
        /\ job' = [job EXCEPT ![d] = new]
        /\ \/ job[d].status = "none" /\ new.status = "queued"
           \/ job[d].status = "failed" /\ new.status = "gone"
  <2>1. CASE Enqueue(d)
    <3>1. PICK queued \in BOOLEAN :
            job' = [job EXCEPT ![d] = [NoJob EXCEPT !.status = "queued", !.queued = queued]]
      BY <2>1 DEF Enqueue
    <3> DEFINE new == [NoJob EXCEPT !.status = "queued", !.queued = queued]
    <3>2. new \in Job /\ new.status = "queued"
      BY <1>2 DEF Job, JobStates
    <3> QED
      BY <2>1, <3>1, <3>2 DEF Enqueue
  <2>2. CASE Dismiss(d)
    <3> DEFINE new == [NoJob EXCEPT !.status = "gone"]
    <3>1. new \in Job /\ new.status = "gone"
      BY <1>2 DEF Job, JobStates
    <3> QED
      BY <2>2, <3>1 DEF Dismiss
  <2> QED
    BY <2>1, <2>2
<1>4. /\ job' \in [Jobs -> Job]
      /\ \A e \in Jobs : job'[e] = IF e = d THEN new ELSE job[e]
  BY <1>1, <1>3
<1>5. DelegationTypeOK'
  BY <1>1, <1>4 DEF DelegationTypeOK
<1>6. ListIsCurrent'
  <2> SUFFICES ASSUME walk.at # "idle", NEW e \in Jobs
               PROVE  /\ walk.list[e].status \notin {"none", "failed", "gone"} => job'[e] = walk.list[e]
                      /\ walk.list[e].status = "failed" => job'[e].status \in {"failed", "gone"}
    BY <1>1 DEF ListIsCurrent
  <2>1. /\ walk.list[e].status \notin {"none", "failed", "gone"} => job[e] = walk.list[e]
        /\ walk.list[e].status = "failed" => job[e].status \in {"failed", "gone"}
    BY DEF ListIsCurrent
  <2>2. CASE e # d
    BY <1>4, <2>1, <2>2
  <2>3. CASE e = d
    <3>1. job'[e] = new /\ job[e].status \in {"none", "failed"}
      BY <1>3, <1>4, <2>3
    <3>2. walk.list[e].status \in {"none", "failed", "gone"}
      BY <2>1, <3>1
    <3>3. walk.list[e].status = "failed" => new.status = "gone"
      BY <1>3, <2>1, <2>3
    <3> QED
      BY <3>1, <3>2, <3>3
  <2> QED
    BY <2>2, <2>3
<1>7. StageIsListed' /\ ReadsAreCounted'
  BY <1>1 DEF StageIsListed, ReadsAreCounted
<1>8. \A e \in Jobs : job'[e].status \in Unopened => job[e].status \in Unopened
  BY <1>3, <1>4 DEF Unopened
<1>9. ChatsAreAccounted'
  BY <1>1, <1>8 DEF ChatsAreAccounted
<1>10. Way' = Way
  BY <1>1 DEF Way, Listed
<1>11. CopiesAreAccounted'
  BY <1>1, <1>10 DEF CopiesAreAccounted, Visible
<1>12. ReadTwice
  BY <1>3, <1>4 DEF ReadTwice
<1> QED
  BY <1>5, <1>6, <1>7, <1>9, <1>11, <1>12

\* The agents and Conductor: copies come into sight and are removed.
LEMMA ChatsKeepOrder ==
    ASSUME DelegationsInOrder, NEW d \in Jobs,
           ChildActs(d) \/ \E w \in Ways : Surfaces(d, w) \/ Withdrawn(d, w)
    PROVE  DelegationsInOrder' /\ ReadTwice
<1> USE DEF DelegationsInOrder
<1>1. UNCHANGED <<job, walk, candidate, deaths>>
  BY DEF ChildActs, Surfaces, Withdrawn
<1>2. ListIsCurrent' /\ StageIsListed' /\ ReadsAreCounted' /\ ReadTwice
  <2>1. ReadTwice
    BY <1>1 DEF ReadTwice
  <2> QED
    BY <1>1, <2>1 DEF ListIsCurrent, StageIsListed, ReadsAreCounted
<1>3. Way' = Way
  BY <1>1 DEF Way, Listed
<1>4. CASE ChildActs(d)
  <2>1. child \in [Jobs -> Kid] /\ child[d] \in Kid /\ UNCHANGED copy
    BY <1>4 DEF ChildActs, DelegationTypeOK
  <2> DEFINE SameChats(kid) == kid.opened = child[d].opened /\ kid.lost = child[d].lost
  <2>2. PICK kid \in Kid : child' = [child EXCEPT ![d] = kid] /\ SameChats(kid)
    <3> DEFINE turns == child[d].turns + 1
               answers == child[d].answers + 1
    <3>1. turns \in Nat /\ answers \in Nat
      BY <2>1 DEF Kid
    <3>2. CASE child' = [child EXCEPT ![d].state = "busy", ![d].turns = @ + 1]
      <4> DEFINE kid == [child[d] EXCEPT !.state = "busy", !.turns = turns]
      <4>1. child' = [child EXCEPT ![d] = kid]
        BY <2>1, <3>2
      <4> HIDE DEF turns
      <4>2. kid \in Kid /\ SameChats(kid)
        BY <2>1, <3>1 DEF Kid
      <4> QED
        BY <4>1, <4>2
    <3>3. CASE child' = [child EXCEPT ![d].state = "idle", ![d].answers = @ + 1]
      <4> DEFINE kid == [child[d] EXCEPT !.state = "idle", !.answers = answers]
      <4>1. child' = [child EXCEPT ![d] = kid]
        BY <2>1, <3>3
      <4> HIDE DEF answers
      <4>2. kid \in Kid /\ SameChats(kid)
        BY <2>1, <3>1 DEF Kid
      <4> QED
        BY <4>1, <4>2
    <3>4. ASSUME NEW state \in {"idle", "error"}, child' = [child EXCEPT ![d].state = state]
          PROVE  \E kid \in Kid : child' = [child EXCEPT ![d] = kid] /\ SameChats(kid)
      <4> DEFINE kid == [child[d] EXCEPT !.state = state]
      <4>1. child' = [child EXCEPT ![d] = kid]
        BY <2>1, <3>4
      <4>2. kid \in Kid /\ SameChats(kid)
        BY <2>1 DEF Kid
      <4> QED
        BY <4>1, <4>2
    <3> QED
      BY <1>4, <3>2, <3>3, <3>4 DEF ChildActs
  <2>3. /\ child' \in [Jobs -> Kid]
        /\ \A e \in Jobs : child'[e].opened = child[e].opened /\ child'[e].lost = child[e].lost
    BY <2>1, <2>2
  <2>4. DelegationTypeOK'
    BY <1>1, <2>1, <2>3 DEF DelegationTypeOK
  <2>5. ChatsAreAccounted'
    BY <1>1, <2>3 DEF ChatsAreAccounted
  <2>6. CopiesAreAccounted'
    BY <1>1, <1>3, <2>1 DEF CopiesAreAccounted, Visible
  <2> QED
    BY <1>2, <2>4, <2>5, <2>6
<1>5. CASE \E w \in Ways : Surfaces(d, w) \/ Withdrawn(d, w)
  <2>1. PICK w \in Ways : Surfaces(d, w) \/ Withdrawn(d, w)
    BY <1>5
  <2>2. /\ copy \in [Jobs -> [Ways -> Copies]] /\ copy[d][w] \in Copies
        /\ UNCHANGED child
        /\ copy[d][w].seen = 0 \/ (copy[d][w].seen = 1 /\ Visible(d, w))
    BY <2>1 DEF DelegationTypeOK, CopiesAreAccounted, Surfaces, Withdrawn
  <2> DEFINE old == copy[d][w]
  <2>3. PICK new \in Copies :
            /\ copy' = [copy EXCEPT ![d][w] = new]
            /\ new.seen = 0 \/ (new.seen = 1 /\ new.sight \in {"outbox", "message"})
            /\ old.seen = 0 => new.seen = 0
    <3>1. ASSUME NEW sight \in {"outbox", "message"}, copy' = [copy EXCEPT ![d][w].sight = sight]
          PROVE  \E new \in Copies :
                    /\ copy' = [copy EXCEPT ![d][w] = new]
                    /\ new.seen = 0 \/ (new.seen = 1 /\ new.sight \in {"outbox", "message"})
                    /\ old.seen = 0 => new.seen = 0
      <4> DEFINE new == [old EXCEPT !.sight = sight]
      <4>1. new \in Copies /\ new.seen = old.seen /\ new.sight = sight
        BY <2>2 DEF Copies
      <4>2. copy' = [copy EXCEPT ![d][w] = new]
        BY <2>2, <3>1
      <4> QED
        BY <2>2, <4>1, <4>2
    <3>2. CASE Withdrawn(d, w)
      <4> DEFINE seen == IF old.seen = 0 THEN 0 ELSE old.seen - 1
                 new == [old EXCEPT !.sight = "removed", !.seen = seen]
      <4>1. seen = 0
        BY <2>2
      <4>2. copy' = [copy EXCEPT ![d][w].sight = "removed", ![d][w].seen = seen]
        BY <2>2, <3>2 DEF Withdrawn
      <4> HIDE DEF seen
      <4>3. new \in Copies /\ new.seen = 0
        BY <2>2, <4>1 DEF Copies
      <4>4. copy' = [copy EXCEPT ![d][w] = new]
        BY <2>2, <4>2
      <4> QED
        BY <4>3, <4>4
    <3> QED
      BY <2>1, <3>1, <3>2 DEF Surfaces
  <2>4. /\ copy' \in [Jobs -> [Ways -> Copies]]
        /\ \A e \in Jobs, v \in Ways :
              copy'[e][v] = IF e = d /\ v = w THEN new ELSE copy[e][v]
    BY <2>2, <2>3
  <2>5. DelegationTypeOK'
    BY <1>1, <2>2, <2>4 DEF DelegationTypeOK
  <2>6. ChatsAreAccounted'
    BY <1>1, <2>2 DEF ChatsAreAccounted
  <2>7. \A e \in Jobs, v \in Ways :
            copy'[e][v].seen = 0 \/ (copy'[e][v].seen = 1 /\ Visible(e, v)')
    BY <2>3, <2>4 DEF CopiesAreAccounted, Visible
  <2>8. \A e \in Jobs, v \in Ways : copy[e][v].seen = 0 => copy'[e][v].seen = 0
    BY <2>3, <2>4
  <2>9. Way \in Ways
    BY DEF Way, Ways
  <2>10. \A e \in Jobs : walk.at = "turn" /\ walk.d = e => copy'[e][Way].seen = 0
    BY <2>8, <2>9 DEF CopiesAreAccounted
  <2>11. CopiesAreAccounted'
    BY <1>1, <1>3, <2>7, <2>10 DEF CopiesAreAccounted
  <2> QED
    BY <1>2, <2>5, <2>6, <2>11
<1> QED
  BY <1>4, <1>5

LEMMA DelegationsStart == DelegationInit => DelegationsInOrder
<1> SUFFICES ASSUME DelegationInit PROVE DelegationsInOrder
  OBVIOUS
<1>1. NoJob \in Job /\ NoJob.status = "none"
  BY DEF NoJob, Job, JobStates, Deliveries, Codes
<1>2. /\ Untyped \in Copies /\ Untyped.seen = 0
      /\ Unread \in [signature : Int, reads : Nat] /\ Unread.signature = 0
  BY DEF Untyped, Copies, Unread
<1>3. Resting.at = "idle" /\ Resting \in [at : Places, d : Nat, list : [Jobs -> Job]]
  BY <1>1 DEF Resting, Places
<1>4. /\ job = [d \in Jobs |-> NoJob] /\ walk = Resting /\ candidate = [d \in Jobs |-> Unread]
      /\ child = [d \in Jobs |-> [opened |-> 0, lost |-> 0, state |-> "idle", turns |-> 0, answers |-> 0]]
      /\ copy = [d \in Jobs |-> [w \in Ways |-> Untyped]] /\ deaths = 0
  BY DEF DelegationInit
<1>5. DelegationTypeOK
  BY <1>1, <1>2, <1>3, <1>4 DEF DelegationTypeOK, Kid
<1>6. ListIsCurrent /\ StageIsListed
  BY <1>3, <1>4 DEF ListIsCurrent, StageIsListed
<1>7. ChatsAreAccounted /\ ReadsAreCounted
  BY <1>2, <1>4 DEF ChatsAreAccounted, ReadsAreCounted
<1>8. CopiesAreAccounted
  BY <1>2, <1>3, <1>4 DEF CopiesAreAccounted
<1> QED
  BY <1>5, <1>6, <1>7, <1>8 DEF DelegationsInOrder

LEMMA DelegationStep ==
    ASSUME DelegationsInOrder, DelegationNext
    PROVE  DelegationsInOrder' /\ ReadTwice
<1>1. ASSUME NEW d \in Jobs, Produces(d) \/ Blocked(d) \/ ReadFails(d)
      PROVE  DelegationsInOrder' /\ ReadTwice
  BY <1>1, LookingOnKeepsOrder, OpeningStagesKeepOrder, NotesKeepOrder, DeliveryEndsKeepOrder,
     ObservesKeepsOrder, AwaitsKeepOrder, ChatAppearsKeepsOrder DEF Produces
<1>2. ASSUME NEW d \in Jobs,
             Enqueue(d) \/ Dismiss(d) \/ ChildActs(d)
             \/ \E w \in Ways : Surfaces(d, w) \/ Withdrawn(d, w)
      PROVE  DelegationsInOrder' /\ ReadTwice
  BY <1>2, RequestsKeepOrder, ChatsKeepOrder
<1> QED
  BY <1>1, <1>2, WakingKeepsOrder, StoppingKeepsOrder DEF DelegationNext

\* The inductive invariant of the delegations (queue.ts, delegations.ts).
THEOREM DelegationsAreInOrder == DelegationSpec => []DelegationsInOrder
<1>1. DelegationsInOrder /\ UNCHANGED delegationVars => DelegationsInOrder'
  BY DEF delegationVars, DelegationsInOrder, DelegationTypeOK, ListIsCurrent, StageIsListed,
         ChatsAreAccounted, CopiesAreAccounted, ReadsAreCounted, Way, Listed, Visible
<1> QED
  BY <1>1, DelegationsStart, DelegationStep, PTL DEF DelegationSpec

\* One chat per delegation, but for those whose id was lost before it was saved
\* (queue.ts, the stage opening), and one copy of its task and of its result in sight
\* (delegations.ts, trackedPrompt), for any number of delegations, attempts, late
\* copies, writes that throw and restarts.
THEOREM ActsStayAccounted == DelegationSpec => []ActsAreAccounted
<1>1. DelegationsInOrder => ActsAreAccounted
  BY DEF DelegationsInOrder, ChatsAreAccounted, CopiesAreAccounted, ActsAreAccounted
<1> QED
  BY <1>1, DelegationsAreInOrder, PTL

\* The result of a delegation is taken from two reads in a row that agree
\* (queue.ts, the completion barrier), whatever the child does and whenever the
\* relay dies.
THEOREM AnswersAreReadTwice == DelegationSpec => AnswerWasReadTwice
<1>1. DelegationsInOrder /\ DelegationNext =>
        \A d \in Jobs : job[d].status = "running" /\ job'[d].status = "returning"
                            => candidate'[d].reads = 2
  BY DelegationStep DEF ReadTwice
<1>2. DelegationsInOrder /\ [DelegationNext]_delegationVars =>
        [\A d \in Jobs : job[d].status = "running" /\ job'[d].status = "returning"
                            => candidate'[d].reads = 2]_delegationVars
  BY <1>1
<1> QED
  BY <1>2, DelegationsAreInOrder, PTL DEF DelegationSpec, AnswerWasReadTwice
=============================================================================
