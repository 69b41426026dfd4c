----------------------------- MODULE TurnNotices -----------------------------
(* What makes a phone buzz (src/src/notifications/notify.ts). Every two       *)
(* seconds the relay reads the status of the live chats; a turn that was seen *)
(* working and then ended, or a chat that stopped with an error, is armed by  *)
(* one poll and told by the next one that still finds it so. A turn the agent *)
(* gave itself is not told twice. What a chat does between two polls nobody   *)
(* sees. "idle" stands for the three statuses that end a turn.                *)
EXTENDS Integers

CONSTANTS Chats,
          MaxAsks,     \* messages of the person to one chat
          MaxMoves     \* further changes: turns that start or end, archived chats,
                       \* phones that come and go

VARIABLES chat,      \* what Conductor records of a chat: status and who asked
          devices,   \* a phone is subscribed
          previous,  \* the status a chat had at the last poll, "unseen" without one
          armed,     \* the transition that waits for its confirmation
          notified,  \* who had asked at the last "done"; 0 for nobody
          due,       \* what the last poll told
          told,      \* history: "done" told of a chat since somebody asked
          moves

watcher == <<previous, armed, notified, due, told>>
noticeVars == <<chat, devices, watcher, moves>>

-----------------------------------------------------------------------------
\* asked is 0 in a chat that records nothing of who asked. A chat that was just
\* opened has no status.
NoticeInit ==
    /\ chat \in [Chats -> [status : {"null", "idle", "working"}, asked : {0, 1}]]
    /\ devices \in BOOLEAN
    /\ previous = [c \in Chats |-> "unseen"]
    /\ armed = [c \in Chats |-> "none"]
    /\ notified = [c \in Chats |-> 0]
    /\ due = {}
    /\ told = [c \in Chats |-> 0]
    /\ moves = 0

Live(c) == chat[c].status # "gone"

Ended(c) == chat[c].status = "idle"

-----------------------------------------------------------------------------
(* The chats and the phones. *)

Moves == moves < MaxMoves /\ moves' = moves + 1 /\ UNCHANGED watcher

\* A message starts a turn, or steers the one that runs. In an old chat it leaves
\* nothing to compare.
Asks(c) ==
    /\ Live(c) /\ chat[c].asked <= MaxAsks
    /\ chat' = [chat EXCEPT ![c].status = "working",
                            ![c].asked = IF @ = 0 THEN 0 ELSE @ + 1]
    /\ told' = [told EXCEPT ![c] = IF chat[c].asked = 0 THEN @ ELSE 0]
    /\ chat' # chat
    /\ UNCHANGED <<devices, previous, armed, notified, due, moves>>

\* The agent starts a turn of its own, and a turn ends well or badly.
Cycles(c) ==
    /\ Moves
    /\ \/ /\ chat[c].status \in {"idle", "error"}
          /\ chat' = [chat EXCEPT ![c].status = "working"]
       \/ /\ chat[c].status = "working"
          /\ \E end \in {"idle", "error"} : chat' = [chat EXCEPT ![c].status = end]
    /\ UNCHANGED devices

\* A workspace is archived in the middle of anything, and may be brought back.
Archives(c) ==
    /\ Moves
    /\ chat' = [chat EXCEPT ![c].status = IF Live(c) THEN "gone" ELSE "idle"]
    /\ UNCHANGED devices

\* The last phone subscribes or leaves; a phone that no longer answers its push
\* service is dropped.
Subscribes ==
    /\ Moves
    /\ devices' = ~devices /\ UNCHANGED chat

-----------------------------------------------------------------------------
(* One poll. *)

\* Deviation: every lap of a loop is told.
NeverSelfScheduled(c) == FALSE

\* Nothing was asked since "done" was last told.
SelfScheduled(c) == chat[c].asked # 0 /\ notified[c] = chat[c].asked

\* The transition that was armed still holds.
Held(c) ==
    \/ armed[c] = "done" /\ Ended(c)
    \/ armed[c] = "error" /\ chat[c].status = "error"

\* Deviation: a lap that breaks is as quiet as one that ends.
QuietBrokenLap(c) == Live(c) /\ Held(c) /\ ~SelfScheduled(c)

Fires(c) == Live(c) /\ Held(c) /\ ~(armed[c] = "done" /\ SelfScheduled(c))

TellsDone(c) == Fires(c) /\ armed[c] = "done"

\* A chat whose arm is looked at now arms nothing, whatever it did since.
Arms(c) ==
    IF ~Live(c) \/ armed[c] # "none" \/ previous[c] = "unseen" THEN "none"
    ELSE IF previous[c] = "working" /\ Ended(c) THEN "done"
    ELSE IF previous[c] # "error" /\ chat[c].status = "error" THEN "error"
    ELSE "none"

\* The steps of the watcher, and what it forgets of a chat that is gone.
Steps ==
    /\ devices
    /\ due' = {[chat |-> c, kind |-> armed[c]] : c \in {x \in Chats : Fires(x)}}
    /\ armed' = [c \in Chats |-> Arms(c)]
    /\ notified' = [c \in Chats |-> IF ~Live(c) THEN 0
                                    ELSE IF TellsDone(c) /\ chat[c].asked # 0
                                         THEN chat[c].asked
                                         ELSE notified[c]]
    /\ told' = [c \in Chats |-> IF ~Live(c) THEN 0
                                ELSE IF TellsDone(c) THEN told[c] + 1 ELSE told[c]]
    /\ previous' = [c \in Chats |-> IF Live(c) THEN chat[c].status ELSE "unseen"]

\* With nobody subscribed the watcher forgets everything.
Forgets ==
    /\ ~devices
    /\ due' = {}
    /\ armed' = [c \in Chats |-> "none"]
    /\ notified' = [c \in Chats |-> 0]
    /\ told' = [c \in Chats |-> 0]
    /\ previous' = [c \in Chats |-> "unseen"]

Polls == (Steps \/ Forgets) /\ UNCHANGED <<chat, devices, moves>>

NoticeNext ==
    \/ Polls \/ Subscribes
    \/ \E c \in Chats : Asks(c) \/ Cycles(c) \/ Archives(c)

NoticeSpec == NoticeInit /\ [][NoticeNext]_noticeVars

-----------------------------------------------------------------------------
(* Properties.                                                             *)

\* One message of the person is answered by at most one "done", however often
\* the chat works and rests after it, and whatever a poll misses in between
\* (notifiedTurn, selfScheduled).
LapsAreQuiet == \A c \in Chats : chat[c].asked # 0 => told[c] <= 1

\* Whoever saw a turn work, and sees it end and stay ended, tells it unless
\* nobody asked for it.
DoneIsTold ==
    \A c \in Chats :
        (previous[c] = "working" /\ Ended(c) /\ ~SelfScheduled(c))
            ~> ([chat |-> c, kind |-> "done"] \in due \/ ~Ended(c) \/ ~devices)

ErrorOf(c) == previous[c] \notin {"unseen", "error"} /\ chat[c].status = "error"

Answered(c) == [chat |-> c, kind |-> "error"] \in due \/ chat[c].status # "error" \/ ~devices

\* An end of a turn that lasts reaches the phone: a turn somebody asked for, and
\* an error whoever asked. Left out is the error that comes between the poll that
\* arms the end of a turn and the one that confirms it.
LastingEndIsTold ==
    /\ DoneIsTold
    /\ \A c \in Chats : (ErrorOf(c) /\ armed[c] # "done") ~> Answered(c)

\* Every error that lasts is told, as the header of notify.ts and its test have it.
\* The code does not keep this (an error that follows the end of a turn within two
\* polls only drops the arm, and is no transition any more); no run states it.
EveryErrorIsTold == \A c \in Chats : ErrorOf(c) ~> Answered(c)
=============================================================================
