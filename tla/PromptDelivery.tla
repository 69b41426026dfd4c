---------------------------- MODULE PromptDelivery ----------------------------
(***************************************************************************)
(* A prompt's way from the phone into a chat: the phone's bubbles          *)
(* (web/src/lib/prompts/pending.ts, hooks/send.ts), the relay's one run    *)
(* per tap (delivery/sendonce.ts, http/routes/prompts.ts), the prompts     *)
(* parked while the Mac is locked (delivery/parked.ts), and the delivery   *)
(* they share, which types and then watches the chat                       *)
(* (http/services/delivery.ts, deliverPrompt).                             *)
(*                                                                         *)
(* One chat.  A bubble is a tap's client id; two taps may say the same.    *)
(***************************************************************************)
EXTENDS Integers, FiniteSets, Sequences, SequencesExt

CONSTANTS
    Bubbles,       \* 1..n: taps, in the order of their first send
    Texts,         \* 1..n: what they say, in the order it first comes up
    MAX_ATTEMPTS,  \* parked.ts: failures of an entry with the Mac unlocked
    MaxPosts,      \* bound: requests of all bubbles
    MaxMishaps     \* bound: deliveries that find the Mac locked, copies that surface
                   \* after the confirm window, second runs of one delivery, deaths
                   \* of the relay or of its loop, expired memos

ASSUME PromptAssumption ==
    /\ IsFiniteSet(Bubbles) /\ Bubbles \subseteq Nat \ {0}
    /\ IsFiniteSet(Texts) /\ Texts \subseteq Nat \ {0}

VARIABLES
    bubble,        \* the phone's pending messages
    net,           \* requests on their way
    drive,         \* deliveries under way: of a tap, and of the parked queue
    memo,          \* SendOnce.settled
    parked,        \* the entries, as their file has them too
    pump,          \* the queue's loop: where it is, the list it took
    chat,          \* copies of each text: typed, late ones among them, in sight
    mishaps,       \* what has been spent of MaxMishaps ...
    forgets,       \* ... and how often the relay forgot something in it
    overtaken,     \* a parked copy and one sent by hand were under way at once
    since          \* history: what was heard of a tap's text since it was first
                   \* sent ("crossed": another delivery was looking at the chat already)

promptVars == <<bubble, net, drive, memo, parked, pump, chat, mishaps, forgets, overtaken, since>>

Pump == 0
Drivers == Bubbles \cup {Pump}

NoEntry == [status |-> "none", attempts |-> 0, era |-> 0]
Idle == [at |-> "idle", text |-> 0, cursor |-> 0, outcome |-> "none"]
Unsent == [state |-> "none", text |-> 0, interrupted |-> FALSE, again |-> FALSE, posts |-> 0]

PromptInit ==
    /\ bubble = [b \in Bubbles |-> Unsent]
    /\ net = {}
    /\ drive = [a \in Drivers |-> Idle]
    /\ memo = [b \in Bubbles |-> "none"]
    /\ parked = [t \in Texts |-> NoEntry]
    /\ pump = [at |-> "off", todo |-> <<>>]
    /\ chat = [t \in Texts |-> [typed |-> 0, late |-> 0, shown |-> 0]]
    /\ mishaps = 0 /\ forgets = 0 /\ overtaken = FALSE
    /\ since = [b \in Bubbles |-> "nothing"]

Mishap(is) == mishaps' = mishaps + (IF is THEN 1 ELSE 0) /\ mishaps' <= MaxMishaps

Forgets == Mishap(TRUE) /\ forgets' = forgets + 1

Waiting == {t \in Texts : parked[t].status = "waiting"}

-----------------------------------------------------------------------------
(* The phone *)

NextTap(b) == \A c \in Bubbles : c < b => bubble[c].state # "none"
KnownText(t) == t = 1 \/ \E c \in Bubbles : bubble[c].text >= t - 1

\* Another delivery of its text looks at the chat already as the tap is sent.
Crossed(t) == \E a \in Drivers : drive[a].at \in {"turn", "watching"} /\ drive[a].text = t

Posted(b, t, again) ==
    /\ MapThenSumSet(LAMBDA c : bubble[c].posts, Bubbles) < MaxPosts
    /\ b \notin net /\ net' = net \cup {b}
    /\ bubble' = [bubble EXCEPT ![b] = [state |-> "sending", text |-> t, interrupted |-> FALSE,
                                        again |-> again, posts |-> @.posts + 1]]
    /\ overtaken' = (overtaken \/ (again /\ drive[Pump].at # "idle" /\ drive[Pump].text = t))
    /\ since' = IF bubble[b].state = "none" /\ Crossed(t)
                THEN [since EXCEPT ![b] = "crossed"] ELSE since
    /\ UNCHANGED <<drive, memo, parked, pump, chat, mishaps, forgets>>

\* addPending, then the request.
Sends(b, t) == NextTap(b) /\ KnownText(t) /\ bubble[b].state = "none" /\ Posted(b, t, FALSE)

\* Retry of a bubble that failed has its id ...
Retries(b) == bubble[b].state = "error" /\ Posted(b, bubble[b].text, bubble[b].again)

\* ... and Retry of what the relay has parked, shown while no bubble says the same,
\* one of the entry.
RetriesParked(b, t) ==
    /\ parked[t].status # "none"
    /\ \A c \in Bubbles : bubble[c].text = t => bubble[c].state \notin {"sending", "error"}
    /\ \/ bubble[b].again /\ bubble[b].text = t
       \/ /\ NextTap(b) /\ bubble[b].state = "none"
          /\ \A c \in Bubbles : bubble[c].again => bubble[c].text # t
    /\ Posted(b, t, TRUE)

\* The request, or its answer, is lost or comes too late.
GivesUp(b) ==
    /\ bubble[b].state = "sending"
    /\ bubble' = [bubble EXCEPT ![b].state = "error"]
    /\ \/ UNCHANGED net
       \/ b \in net /\ net' = net \ {b}
    /\ UNCHANGED <<drive, memo, parked, pump, chat, mishaps, forgets, overtaken, since>>

Gone(b, how) == [bubble[b] EXCEPT !.state = how, !.interrupted = FALSE]

\* iOS discards the page; what was sending comes back unconfirmed, and what is older
\* than a day, or not of the last twenty, does not come back.
Reloads ==
    /\ \E old \in SUBSET {b \in Bubbles : bubble[b].state \in {"sending", "error"}} :
        bubble' = [b \in Bubbles |->
            CASE b \in old -> Gone(b, "dropped")
              [] b \notin old /\ bubble[b].state = "sending" ->
                    [bubble[b] EXCEPT !.state = "error", !.interrupted = TRUE]
              [] OTHER -> bubble[b]]
    /\ bubble' # bubble
    /\ UNCHANGED <<net, drive, memo, parked, pump, chat, mishaps, forgets, overtaken, since>>

IsUnconfirmed(b) == bubble[b].state = "sending" \/ bubble[b].interrupted

\* The transcript shows the text of a bubble that is unconfirmed.
Reconciles(b) ==
    /\ bubble[b].state \in {"sending", "error"} /\ IsUnconfirmed(b)
    /\ chat[bubble[b].text].shown > 0
    /\ bubble' = [bubble EXCEPT ![b] = Gone(b, "retired")]
    /\ UNCHANGED <<net, drive, memo, parked, pump, chat, mishaps, forgets, overtaken, since>>

DismissesBubble(b) ==
    /\ bubble[b].state = "error"
    /\ bubble' = [bubble EXCEPT ![b] = Gone(b, "dropped")]
    /\ UNCHANGED <<net, drive, memo, parked, pump, chat, mishaps, forgets, overtaken, since>>

\* What an answer does to the bubble that waits for it, if it arrives: an error,
\* or the purge that follows a success; one that is gone is not brought back.
Hears(b, answer) ==
    \/ UNCHANGED bubble
    \/ /\ bubble[b].state = "sending"
       /\ bubble' = [bubble EXCEPT ![b].state = IF answer = "failed" THEN "error" ELSE "purged"]

-----------------------------------------------------------------------------
(* The queue of parked prompts *)

StartPump == IF pump.at \in {"off", "crashed"} THEN [pump EXCEPT !.at = "probing"] ELSE pump

\* park: idempotent per text; an entry that waits or failed is revived.
Park(t) ==
    /\ parked' = [parked EXCEPT ![t] =
                    [status |-> "waiting", attempts |-> 0,
                     era |-> IF @.status = "none" THEN 1 - @.era ELSE @.era]]
    /\ pump' = StartPump

\* forgetDelivered: by text, not by object.
Dropped(t) == [parked EXCEPT ![t] = [@ EXCEPT !.status = "none", !.attempts = 0]]

\* The entries of these texts are let go of, undelivered.
LetGo(ts) ==
    since' = [b \in Bubbles |-> IF bubble[b].text \in ts THEN "letGo" ELSE since[b]]

\* forgetSession: the phone dismisses whatever is parked for the chat.
DismissesParked ==
    /\ \E t \in Texts : parked[t].status # "none"
    /\ parked' = [t \in Texts |-> [parked[t] EXCEPT !.status = "none", !.attempts = 0]]
    /\ LetGo({t \in Texts : parked[t].status # "none"})
    /\ UNCHANGED <<bubble, net, drive, memo, pump, chat, mishaps, forgets, overtaken>>

\* The loop: once the lock is off, the waiting entries are walked (in any order:
\* theirs is not kept here).
Probes ==
    /\ pump.at = "probing"
    /\ \/ Waiting = {} /\ pump' = [pump EXCEPT !.at = "off"]
       \/ \E order \in SetToSeqs({<<t, parked[t].era>> : t \in Waiting}) :
            Waiting # {} /\ pump' = [at |-> "walking", todo |-> order]
    /\ UNCHANGED <<bubble, net, drive, memo, parked, chat, mishaps, forgets, overtaken, since>>

NextEntry == pump.todo[1][1]

StillListed == parked[NextEntry].era = pump.todo[1][2] /\ parked[NextEntry].status # "none"

\* Deviation: one walk is all.
WalkedOnce == "off"

AfterTheWalk == IF Waiting = {} THEN "off" ELSE "probing"

\* The next entry of the list is delivered, whatever has become of it.
Walks ==
    /\ pump.at = "walking" /\ drive[Pump].at = "idle"
    /\ \/ /\ pump.todo = <<>> /\ UNCHANGED drive
          /\ pump' = [pump EXCEPT !.at = AfterTheWalk]
       \/ /\ pump.todo # <<>> /\ UNCHANGED pump
          /\ drive' = [drive EXCEPT ![Pump] = [Idle EXCEPT !.at = "asked", !.text = NextEntry]]
    /\ UNCHANGED <<bubble, net, memo, parked, chat, mishaps, forgets, overtaken, since>>

\* step, after the delivery: the object in the list is what is changed.
Stepped(result) ==
    LET t == NextEntry
        e == parked[t]
        mine == e.era = pump.todo[1][2]
    IN  /\ pump' = [pump EXCEPT !.todo = Tail(@)]
        /\ CASE ~mine \/ result = "blocked" -> UNCHANGED parked
             [] mine /\ result = "delivered" -> parked' = Dropped(t)
             [] OTHER -> parked' = [parked EXCEPT ![t] =
                    IF e.status = "none" THEN e
                    ELSE [e EXCEPT !.attempts = e.attempts + 1,
                                   !.status = IF e.attempts + 1 >= MAX_ATTEMPTS THEN "failed" ELSE e.status]]
        /\ drive' = [drive EXCEPT ![Pump] = Idle]
        /\ UNCHANGED <<bubble, memo>>

\* A delivery throws (Conductor's database cannot be read): the loop ends there,
\* until something is parked or the relay starts again.
Crashes ==
    /\ pump.at = "walking" /\ drive[Pump].at # "idle"
    /\ Forgets
    /\ pump' = [at |-> "crashed", todo |-> <<>>]
    /\ drive' = [drive EXCEPT ![Pump] = Idle]
    /\ UNCHANGED <<bubble, net, memo, parked, chat, overtaken, since>>

-----------------------------------------------------------------------------
(* The route, once per tap *)

\* keep: only an answer the phone takes as final is remembered.
Kept(answer) == IF answer = "failed" THEN "none" ELSE answer

\* A run of that tap is under way.
InFlight(b) == drive[b].at # "idle"

\* Deviation: only what has settled is remembered.
NeverInFlight(b) == FALSE

Joins(b) == InFlight(b)

\* sendOnce.run: an outcome that was kept answers, a run under way is joined.
Arrives(b) ==
    /\ b \in net /\ net' = net \ {b}
    /\ CASE memo[b] # "none" -> Hears(b, memo[b]) /\ UNCHANGED drive
         [] memo[b] = "none" /\ Joins(b) -> UNCHANGED <<bubble, drive>>
         [] OTHER -> /\ drive' = [drive EXCEPT ![b] = [Idle EXCEPT !.at = "asked", !.text = bubble[b].text]]
                     /\ UNCHANGED bubble
    /\ UNCHANGED <<memo, parked, pump, chat, mishaps, forgets, overtaken, since>>

Answered(b, result) ==
    LET answer == IF result = "blocked" THEN "parked" ELSE result
    IN  /\ CASE result = "delivered" -> parked' = Dropped(drive[b].text) /\ UNCHANGED pump
             [] result = "blocked" -> Park(drive[b].text)
             [] OTHER -> UNCHANGED <<parked, pump>>
        /\ memo' = [memo EXCEPT ![b] = Kept(answer)]
        /\ Hears(b, answer)
        /\ drive' = [drive EXCEPT ![b] = Idle]

Ends(a, result) == IF a = Pump THEN Stepped(result) ELSE Answered(a, result)

-----------------------------------------------------------------------------
(* deliverPrompt *)

Text(a) == drive[a].text

\* The settings are applied, the cursor is taken, and the window waited for ...
Begins(a) ==
    /\ drive[a].at = "asked"
    /\ drive' = [drive EXCEPT ![a].at = "turn", ![a].cursor = chat[Text(a)].shown]
    /\ UNCHANGED <<bubble, net, memo, parked, pump, chat, mishaps, forgets, overtaken, since>>

\* ... or not: the Mac is locked, the settings did not stick, the chat is gone.
Refused(a) ==
    /\ drive[a].at = "asked"
    /\ \E result \in {"blocked", "failed"} : Ends(a, result) /\ Mishap(result = "blocked")
    /\ UNCHANGED <<net, chat, forgets, overtaken, since>>

\* Deviation: a row the cursor already counts is taken for the receipt.
LandedBefore(a) == chat[Text(a)].shown >= drive[a].cursor

Landed(a) == chat[Text(a)].shown > drive[a].cursor

Unsettled(b) == b \in net \/ bubble[b].state \in {"sending", "error"}

\* Somebody else is at the same text: another delivery, a retry by hand of what is
\* parked that has not settled, or an entry that is gone.
Overtaken(a) ==
    \/ \E other \in Drivers \ {a} : drive[other].at # "idle" /\ Text(other) = Text(a)
    \/ a = Pump /\ ~StillListed
    \/ a = Pump /\ \E b \in Bubbles :
            bubble[b].again /\ bubble[b].text = Text(a) /\ Unsettled(b)

\* A row of the text comes into sight.
RowOf(t) ==
    since' = [b \in Bubbles |->
                IF bubble[b].text = t /\ since[b] = "nothing" THEN "row" ELSE since[b]]

\* One run: it types, seen at once or only after the window, or it does not, for
\* the lock or something else.
Types(a) ==
    /\ drive[a].at = "turn"
    /\ \E outcome \in {"seen", "late", "ran", "blocked"} :
        /\ drive' = [drive EXCEPT ![a].at = "watching", ![a].outcome = outcome]
        /\ Mishap(outcome \in {"blocked", "late"})
        /\ CASE outcome = "seen" -> chat' = [chat EXCEPT ![Text(a)].typed = @ + 1, ![Text(a)].shown = @ + 1]
             [] outcome = "late" -> chat' = [chat EXCEPT ![Text(a)].typed = @ + 1, ![Text(a)].late = @ + 1]
             [] OTHER -> UNCHANGED chat
    /\ IF drive'[a].outcome = "seen" THEN RowOf(Text(a)) ELSE UNCHANGED since
    /\ overtaken' = (overtaken \/ (chat' # chat /\ Overtaken(a)))
    /\ UNCHANGED <<bubble, net, memo, parked, pump, forgets>>

\* The chat is the receipt.
Confirms(a) ==
    /\ drive[a].at = "watching" /\ Landed(a)
    /\ Ends(a, "delivered")
    /\ UNCHANGED <<net, chat, mishaps, forgets, overtaken, since>>

Unconfirmed(a) ==
    /\ drive[a].at = "watching" /\ ~Landed(a)
    /\ \/ drive[a].outcome = "blocked" /\ Ends(a, "blocked") /\ Mishap(FALSE)
       \/ drive[a].outcome # "blocked" /\ Ends(a, "failed") /\ Mishap(FALSE)
       \/ /\ drive[a].outcome # "blocked" /\ Mishap(TRUE)
          /\ drive' = [drive EXCEPT ![a].at = "turn"]
          /\ UNCHANGED <<bubble, memo, parked, pump>>
    /\ UNCHANGED <<net, chat, forgets, overtaken, since>>

-----------------------------------------------------------------------------
(* Around it *)

\* Copies that were late surface.
Surfaces(t) ==
    /\ chat[t].shown < chat[t].typed
    /\ chat' = [chat EXCEPT ![t].shown = @ + 1]
    /\ RowOf(t)
    /\ UNCHANGED <<bubble, net, drive, memo, parked, pump, mishaps, forgets, overtaken>>

\* A memo expires after ten minutes.
Expires(b) ==
    /\ memo[b] # "none" /\ Forgets
    /\ memo' = [memo EXCEPT ![b] = "none"]
    /\ UNCHANGED <<bubble, net, drive, parked, pump, chat, overtaken, since>>

\* The relay dies and starts again: the file brings the parked entries back, those
\* older than a week excepted, whether they failed or wait.
Dies ==
    /\ Forgets
    /\ drive' = [a \in Drivers |-> Idle]
    /\ memo' = [b \in Bubbles |-> "none"]
    /\ \E old \in SUBSET {t \in Texts : parked[t].status # "none"} :
        /\ parked' = [t \in Texts |->
                        IF t \in old THEN NoEntry ELSE [parked[t] EXCEPT !.era = 0]]
        /\ LetGo(old)
    /\ pump' = [at |-> "probing", todo |-> <<>>]
    /\ UNCHANGED <<bubble, net, chat, overtaken>>

Drives(a) == Begins(a) \/ Refused(a) \/ Types(a) \/ Confirms(a) \/ Unconfirmed(a)

PromptNext ==
    \/ Reloads \/ DismissesParked \/ Probes \/ Walks \/ Crashes \/ Dies
    \/ \E b \in Bubbles :
        \/ \E t \in Texts : Sends(b, t) \/ RetriesParked(b, t)
        \/ Retries(b)
        \/ GivesUp(b) \/ Reconciles(b) \/ DismissesBubble(b)
        \/ Arrives(b) \/ Expires(b)
    \/ \E a \in Drivers : Drives(a)
    \/ \E t \in Texts : Surfaces(t)

\* The loop's timers run and its deliveries end.
PromptFairness == WF_promptVars(Probes) /\ WF_promptVars(Walks) /\ WF_promptVars(Drives(Pump))

PromptSpec == PromptInit /\ [][PromptNext]_promptVars
FairPromptSpec == PromptSpec /\ PromptFairness

-----------------------------------------------------------------------------
(* Properties *)

Intents(t) == Cardinality({b \in Bubbles : bubble[b].text = t /\ ~bubble[b].again})

CopiesAreMeant ==
    \A t \in Texts : chat[t].typed <= Intents(t) + forgets * (Intents(t) + 1) + chat[t].late

\* A tap says its prompt once, however often the phone asks and however often
\* it is parked: a further copy is typed only if one stayed out of sight, the
\* relay has forgotten the tap or died over the parked entry, or the parked copy
\* and one sent by hand were on their way at the same time.
OnePromptPerTap == overtaken \/ CopiesAreMeant

\* A tap is answered for: once the relay's answer has taken its bubble off the
\* phone, a row of its text has come into sight since the tap was first sent, or
\* the text is parked, or it was let go of where it was parked (dismissed there,
\* or too old at a restart).  A tap sent while another delivery of its text was
\* looking at the chat is excepted: the receipt of that one, which may have come
\* before the tap, drops the parked copy of both (forgetDelivered, by text).
AnswersAreBacked ==
    \A b \in Bubbles :
        bubble[b].state = "purged"
            => since[b] \in {"row", "letGo", "crossed"} \/ parked[bubble[b].text].status # "none"

\* A parked prompt is delivered, given up in public, dismissed or too old at a
\* restart, whatever is parked and delivered meanwhile, unless the loop crashed
\* and nothing was parked since.
ParkedIsServed ==
    \A t \in Texts :
        parked[t].status = "waiting" ~> parked[t].status # "waiting" \/ pump.at = "crashed"

\* parked.ts: a prompt that was also sent by hand is not sent again.  The code
\* does not keep this (see OnePromptPerTap); no run states it.
HandAndQueueDoNotDouble == CopiesAreMeant

\* pending.ts: the phone keeps the text of a prompt whose send has failed.
FailedSendIsKept ==
    \A t \in Texts :
        LET retired == {b \in Bubbles : bubble[b].text = t /\ bubble[b].state = "retired"}
            settled == \A b \in retired : b \notin net /\ drive[b].at = "idle"
            kept == \A b \in retired : since[b] # "letGo"
        IN  settled /\ kept /\ parked[t].status = "none" /\ forgets = 0
                => Cardinality(retired) <= chat[t].typed
=============================================================================
