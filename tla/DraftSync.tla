------------------------------ MODULE DraftSync ------------------------------
(* One unsent draft on several phones and on the host: each phone keeps its   *)
(* own copy (web/src/lib/prefs.ts) and exchanges it (hooks/preferences.ts)    *)
(* with the host's (src/prefs.ts). A newer stamp wins, and the copy in a      *)
(* composer that has the focus is not replaced. What is typed is a number;    *)
(* 0 is the tombstone of a draft that was sent.                               *)
EXTENDS Integers, FiniteSets, FiniteSetsExt

CONSTANTS Phones,
          MaxTexts,    \* bound: texts that are typed
          MaxStamp     \* bound: stamps

VARIABLES host,        \* the copy in prefs.json
          phone,       \* its copy, as its storage has it too, and the state of its page
          answer,      \* the answer on its way to it
          stray,       \* an upload that was given up and may still arrive
          texts,       \* texts typed so far
          sent,        \* texts each phone has sent
          kept         \* texts that were given a new stamp without being typed

draftVars == <<host, phone, answer, stray, texts, sent, kept>>

Absent == [text |-> 0, at |-> 0]

NoAnswer == [text |-> -1, at |-> 0]

DraftInit ==
    /\ host = Absent
    /\ phone = [p \in Phones |-> [draft |-> Absent, clock |-> 0, touched |-> FALSE, focused |-> FALSE,
                                  timer |-> FALSE, queued |-> FALSE, seen |-> FALSE]]
    /\ answer = [p \in Phones |-> NoAnswer]
    /\ stray = {} /\ texts = 0 /\ sent = [p \in Phones |-> {}] /\ kept = {}

\* tick: later than all it has seen; the wall clock may be ahead.
Ticks(clock) == {t \in {clock + 1, clock + 2} : t <= MaxStamp}

-----------------------------------------------------------------------------
(* A phone's composer. *)

\* setLocal: the page stores it and starts the timer again.
Sets(p, text, t) ==
    phone' = [phone EXCEPT ![p].draft = [text |-> text, at |-> t], ![p].clock = t,
                           ![p].touched = TRUE, ![p].timer = TRUE]

Types(p) ==
    /\ phone[p].focused /\ texts < MaxTexts /\ texts' = texts + 1
    /\ \E t \in Ticks(phone[p].clock) : Sets(p, texts + 1, t)
    /\ UNCHANGED <<host, answer, stray, sent, kept>>

\* The composer keeps the focus.
Sends(p) ==
    /\ phone[p].draft.text # 0
    /\ \E t \in Ticks(phone[p].clock) : Sets(p, 0, t)
    /\ sent' = [sent EXCEPT ![p] = @ \cup {phone[p].draft.text}]
    /\ UNCHANGED <<host, answer, stray, texts, kept>>

Focuses(p) ==
    /\ ~phone[p].focused /\ phone' = [phone EXCEPT ![p].focused = TRUE]
    /\ UNCHANGED <<host, answer, stray, texts, sent, kept>>

-----------------------------------------------------------------------------
(* Its requests, one at a time. An upload reaches the host at once, or when   *)
(* the phone has given it up.                                                 *)

\* The newer stamp wins, and a tombstone if they are the same.
HostTakes(d) ==
    host' = IF d.at > host.at \/ (d.at = host.at /\ d.text = 0) THEN d ELSE host

\* What the phones were told last may no longer be so.
Told(phones) == phone' = [p \in Phones |-> [phones[p] EXCEPT !.seen = @ /\ host' = host]]

\* Now, or after the request under way; the timer is spent.
Uploads(p, draft, phones) ==
    IF answer[p] = NoAnswer
    THEN HostTakes(draft) /\ answer' = [answer EXCEPT ![p] = host'] /\ Told(phones)
    ELSE /\ phone' = [phones EXCEPT ![p].queued = TRUE]
         /\ UNCHANGED <<host, answer>>

\* It is lost on its way up, or delayed.
IsGivenUp(p, draft, phones) ==
    /\ answer[p] = NoAnswer
    /\ stray' \in {stray, stray \cup {draft}} /\ Cardinality(stray') <= 1
    /\ phone' = [phones EXCEPT ![p].seen = FALSE]
    /\ UNCHANGED <<host, answer>>

Flush(p, focused) ==
    LET idle == [phone EXCEPT ![p].timer = FALSE, ![p].focused = focused]
    IN  \/ Uploads(p, phone[p].draft, idle) /\ UNCHANGED stray
        \/ IsGivenUp(p, phone[p].draft, idle)

Flushes(p) == phone[p].timer /\ Flush(p, phone[p].focused) /\ UNCHANGED <<texts, sent, kept>>

\* So it does when the page is hidden.
Blurs(p) == phone[p].focused /\ Flush(p, FALSE) /\ UNCHANGED <<texts, sent, kept>>

Polls(p) ==
    /\ answer[p] = NoAnswer /\ answer' = [answer EXCEPT ![p] = host]
    /\ UNCHANGED <<host, phone, stray, texts, sent, kept>>

StrayArrives ==
    /\ \E d \in stray : HostTakes(d) /\ stray' = stray \ {d}
    /\ Told(phone)
    /\ UNCHANGED <<answer, texts, sent, kept>>

\* After the answer of one request the upload that was queued meanwhile follows.
Follows(p, changed) ==
    LET phones == [phone EXCEPT ![p] = [changed EXCEPT !.queued = FALSE]]
    IN  IF phone[p].queued
        THEN HostTakes(changed.draft) /\ answer' = [answer EXCEPT ![p] = host'] /\ Told(phones)
        ELSE answer' = [answer EXCEPT ![p] = NoAnswer] /\ phone' = phones /\ UNCHANGED host

\* The answer is lost. The next poll tells what has become of it.
Fails(p) ==
    /\ answer[p] # NoAnswer
    /\ Follows(p, [phone[p] EXCEPT !.seen = FALSE])
    /\ UNCHANGED <<stray, texts, sent, kept>>

-----------------------------------------------------------------------------
(* The answer. *)

\* Deviation: stamps of others do not move its clock.
OwnClock(p, d) == phone[p].clock

\* "Once a revision has been observed, every later local edit must sort after it."
Observed(p, d) == Max({phone[p].clock, d.at})

IncomingWins(p, d) ==
    LET own == phone[p].draft
    IN  d.at > own.at \/ (d.at = own.at /\ (d.text = 0 \/ own.text # 0))

Protected(p) == phone[p].focused /\ (phone[p].touched \/ phone[p].draft.text # 0)

Answered(p, draft, clock, upload) ==
    Follows(p, [phone[p] EXCEPT !.draft = draft, !.clock = clock, !.timer = @ \/ upload,
                                !.seen = (answer[p] = host)])

\* Deviation: nothing is uploaded for a copy that stays.
NoUpload(p, d) == FALSE

NeedsUpload(p, d) == d # phone[p].draft

Adopts(p) ==
    LET d == answer[p]
    IN  /\ answer[p] # NoAnswer /\ IncomingWins(p, d) /\ ~Protected(p)
        /\ Answered(p, d, Observed(p, d), FALSE)
        /\ UNCHANGED <<stray, texts, sent, kept>>

\* The copy under the cursor is given a stamp that beats the host's.
Protects(p) ==
    LET d == answer[p]
    IN  /\ answer[p] # NoAnswer /\ IncomingWins(p, d) /\ Protected(p) /\ d # phone[p].draft
        /\ \E t \in Ticks(Max({phone[p].clock, d.at})) :
             Answered(p, [phone[p].draft EXCEPT !.at = t], t, NeedsUpload(p, d))
        /\ kept' = kept \cup {phone[p].draft.text}
        /\ UNCHANGED <<stray, texts, sent>>

Stays(p) ==
    LET d == answer[p]
    IN  /\ answer[p] # NoAnswer
        /\ ~IncomingWins(p, d) \/ (Protected(p) /\ d = phone[p].draft)
        /\ Answered(p, phone[p].draft, Observed(p, d), NeedsUpload(p, d))
        /\ UNCHANGED <<stray, texts, sent, kept>>

-----------------------------------------------------------------------------
(* The page is closed, or killed, and opened again: it uploads what it has.  *)

Reopens(p, draft, touched) ==
    LET fresh == [draft |-> draft, clock |-> draft.at, touched |-> touched, focused |-> FALSE,
                  timer |-> FALSE, queued |-> FALSE, seen |-> FALSE]
    IN  HostTakes(draft) /\ answer' = [answer EXCEPT ![p] = host'] /\ Told([phone EXCEPT ![p] = fresh])

Reloads(p) == Reopens(p, phone[p].draft, FALSE) /\ UNCHANGED <<stray, texts, sent, kept>>

\* Killed while it stored the host's draft: the text is in its old key and the
\* metadata is not, which the next page takes for an edit.
DiesAdopting(p) ==
    LET d == answer[p]
    IN  /\ answer[p] # NoAnswer /\ IncomingWins(p, d) /\ ~Protected(p) /\ d.text # phone[p].draft.text
        /\ \E t \in Ticks(phone[p].draft.at) : Reopens(p, [text |-> d.text, at |-> t], TRUE)
        /\ kept' = kept \cup {d.text}
        /\ UNCHANGED <<stray, texts, sent>>

DraftNext ==
    \/ \E p \in Phones :
        \/ Types(p) \/ Sends(p) \/ Focuses(p) \/ Blurs(p)
        \/ Flushes(p) \/ Polls(p) \/ Fails(p)
        \/ Adopts(p) \/ Protects(p) \/ Stays(p)
        \/ Reloads(p) \/ DiesAdopting(p)
    \/ StrayArrives

DraftSpec == DraftInit /\ [][DraftNext]_draftVars

-----------------------------------------------------------------------------
(* Properties *)

\* "Kept as a tombstone so an offline device cannot restore an already-sent
\* draft" (src/prefs.ts): what a phone has sent does not come back into its
\* composer, whoever else still has a copy, however late it arrives and whatever
\* the clocks say; but for a copy that another phone had under its cursor, or was
\* storing when it died.
SentStaysSent == \A p \in Phones : phone[p].draft.text \notin sent[p] \ kept

\* A phone that has heard of the host's draft and has nothing to upload has the
\* same: what a merge leaves different is on its way.
DifferencesAreOnTheirWay ==
    \A p \in Phones :
        phone[p].seen /\ ~phone[p].timer /\ answer[p] = NoAnswer => phone[p].draft = host
=============================================================================
