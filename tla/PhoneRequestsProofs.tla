------------------------- MODULE PhoneRequestsProofs -------------------------
(* Proofs about what a phone asks for: the prompts it sends (PromptDelivery)  *)
(* and the windows in which the Mac stays awake (KeepAwake).                  *)
EXTENDS PromptDelivery, KeepAwake, FiniteSetTheorems, SequenceTheorems, TLAPS

-----------------------------------------------------------------------------
(* The windows. *)

Places == {"none", "started", "waiting", "capture", "flip", "record", "armed", "restore",
           "restored", "cut", "dead"}

Helper == [pc : Places, old : 0..MaxWindows, saved : BOOLEAN, term : BOOLEAN]

AwakeTypeOK ==
    /\ helper \in [Windows -> Helper]
    /\ sleepDisabled \in BOOLEAN
    /\ pidfile \in 0..MaxWindows
    /\ raced \in BOOLEAN /\ struck \in BOOLEAN

\* Of the windows that live, one is not on record at most.
OneIsUnseen == \A v, w \in Unseen : v = w

\* From the look at the settings to the record a window is alone.
ArmsAlone ==
    \A v, w \in Windows : helper[w].pc \in {"capture", "flip", "record"} /\ v # w => ~Alive(v)

\* The one on record got as far as to write it, and who waits waits for that one.
RecordFits ==
    /\ pidfile # 0 => helper[pidfile].pc \in {"armed", "restore", "restored", "cut", "dead"}
    /\ \A w \in Windows : helper[w].pc = "waiting" => pidfile \in {0, helper[w].old}

\* What a window puts back lets the Mac sleep, there is one to put it back, and none
\* that has done so and still lives has it undone.
SleepIsInHand ==
    /\ \A w \in Windows : helper[w].pc \in {"flip", "record", "armed", "restore"} => ~helper[w].saved
    /\ \A w \in Windows : helper[w].pc \in {"restored", "cut"} => ~sleepDisabled
    /\ sleepDisabled => ~NobodyHolds

WindowsInOrder ==
    /\ AwakeTypeOK
    /\ raced \/ struck \/ (OneIsUnseen /\ ArmsAlone /\ RecordFits /\ SleepIsInHand)

-----------------------------------------------------------------------------
(* The prompts. *)

Bubble == [state : {"none", "sending", "error", "purged", "retired", "dropped"},
           text : Texts \cup {0}, interrupted : BOOLEAN, again : BOOLEAN, posts : Nat]

Drive == [at : {"idle", "asked", "turn", "watching"}, text : Texts \cup {0}, cursor : Nat,
          outcome : {"none", "seen", "late", "ran", "blocked"}]

Entry == [status : {"none", "waiting", "failed"}, attempts : Nat, era : {0, 1}]

Copies == [typed : Nat, late : Nat, shown : Nat]

PromptTypeOK ==
    /\ bubble \in [Bubbles -> Bubble]
    /\ net \subseteq Bubbles
    /\ drive \in [Drivers -> Drive]
    /\ memo \in [Bubbles -> {"none", "delivered", "parked"}]
    /\ parked \in [Texts -> Entry]
    /\ pump \in [at : {"off", "probing", "walking", "crashed"}, todo : Seq(Texts \X {0, 1})]
    /\ chat \in [Texts -> Copies]
    /\ mishaps \in Int /\ forgets \in Nat /\ overtaken \in BOOLEAN

Busy(a) == drive[a].at # "idle"

\* A tap that is known to the relay is one of the phone's; a second bubble for a
\* text that the relay has parked is not made.
TapsFit ==
    /\ \A b \in Bubbles : (b \in net \/ Busy(b) \/ memo[b] # "none") => bubble[b].state # "none"
    /\ \A b \in Bubbles : bubble[b].state # "none" => bubble[b].text \in Texts
    /\ \A b \in Bubbles : bubble[b].state = "none" => bubble[b].text = 0 /\ ~bubble[b].again
    /\ \A b, c \in Bubbles :
        bubble[b].again /\ bubble[c].again /\ bubble[b].text = bubble[c].text => b = c

\* A delivery is of its tap's text, which has no answer yet, or of the next entry.
DrivesFit ==
    /\ \A b \in Bubbles : Busy(b) => drive[b].text = bubble[b].text /\ memo[b] = "none"
    /\ Busy(Pump) => pump.at = "walking" /\ pump.todo # <<>> /\ drive[Pump].text = NextEntry

Seen(a) == drive[a].at = "watching" /\ drive[a].outcome = "seen"

\* What is in sight was typed; a delivery counts from what it saw when it began.
ReceiptsFit ==
    /\ \A t \in Texts : chat[t].shown <= chat[t].typed
    /\ \A a \in Drivers : drive[a].at \in {"turn", "watching"}
        => /\ drive[a].cursor <= chat[Text(a)].shown
           /\ Seen(a) => Landed(a)

PromptsFit == PromptTypeOK /\ TapsFit /\ DrivesFit /\ ReceiptsFit

\* A tap that was sent and of whose text nothing was heard since; one that has its
\* answer, at the relay or on the phone; a delivery that looks at the chat.
Unheard(b) == bubble[b].state # "none" /\ since[b] = "nothing"
Due(b) == memo[b] # "none" \/ bubble[b].state = "purged"
Looking(a) == drive[a].at \in {"turn", "watching"}

\* A delivery that has its receipt has been seen by every tap of its text that was
\* there when it began.
MarksFit ==
    /\ since \in [Bubbles -> {"nothing", "crossed", "row", "letGo"}]
    /\ \A a \in Drivers, b \in Bubbles :
        Looking(a) /\ Unheard(b) /\ Text(a) = bubble[b].text => ~Landed(a)

AnswersKept == \A b \in Bubbles : Unheard(b) /\ Due(b) => parked[bubble[b].text].status # "none"

AnswersHold == MarksFit /\ AnswersKept

\* The taps of a text that have said it, or left it to the parked entry.
Spent(t) == {b \in Bubbles : bubble[b].text = t /\ ~bubble[b].again /\ (memo[b] # "none" \/ Seen(b))}

\* A tap that may still be typed.
Pending(c) == memo[c] = "none" /\ ~Seen(c) /\ (Unsettled(c) \/ Busy(c))

\* The entry may still be typed: no copy of it waits to be confirmed ...
EntryIsOpen(t) ==
    /\ parked[t].status # "none"
    /\ Seen(Pump) /\ drive[Pump].text = t => parked[t].era # pump.todo[1][2]
    /\ \A c \in Bubbles : bubble[c].again /\ bubble[c].text = t => ~Seen(c)

\* ... and so may be the copy of it that was sent by hand.
HandIsOpen(t) == \E c \in Bubbles : bubble[c].again /\ bubble[c].text = t /\ Pending(c)

IsOpen(t) == EntryIsOpen(t) \/ HandIsOpen(t)

Open(t) == IF IsOpen(t) THEN 1 ELSE 0

\* Every copy has a tap that is spent, and one more tap is for the copy that the
\* entry may still become: OnePromptPerTap, in the form that a step keeps.
Accounted ==
    \A t \in Texts :
        chat[t].typed + Open(t) <=
            Cardinality(Spent(t)) + forgets * (Intents(t) + 1) + chat[t].late

PromptsInOrder == PromptsFit /\ AnswersHold /\ (overtaken \/ Accounted)

-----------------------------------------------------------------------------
(* The windows stay in order. *)

LEMMA WindowsStart == AwakeInit => WindowsInOrder
<1> SUFFICES ASSUME AwakeInit
             PROVE  WindowsInOrder
  OBVIOUS
<1>1. AwakeTypeOK
  <2>1. 0 \in 0..MaxWindows
    BY AwakeAssumption
  <2>2. helper \in [Windows -> Helper]
    BY <2>1 DEF AwakeInit, Helper, Places
  <2> QED
    BY <2>1, <2>2 DEF AwakeInit, AwakeTypeOK
<1>2. OneIsUnseen /\ ArmsAlone
  BY DEF AwakeInit, OneIsUnseen, ArmsAlone, Unseen, Alive, Is
<1>3. RecordFits /\ SleepIsInHand
  BY DEF AwakeInit, RecordFits, SleepIsInHand
<1> QED
  BY <1>1, <1>2, <1>3 DEF WindowsInOrder

\* A window that gets a signal lives on for a moment, and is still on its way to
\* restore the settings, unless the signal strikes.
LEMMA SignalFits ==
    ASSUME AwakeTypeOK, NEW w \in Windows
    PROVE  /\ Signalled(w) \in Helper
           /\ Signalled(w).old = helper[w].old /\ Signalled(w).saved = helper[w].saved
           /\ \/ Signalled(w).pc = helper[w].pc
              \/ helper[w].pc \in {"restore", "restored"} /\ Signalled(w).pc = "cut"
  BY DEF AwakeTypeOK, Signalled, Helper, Places

\* The window on record is signalled, and the rest of the record stays.
LEMMA SignalKeepsOrder ==
    ASSUME AwakeTypeOK, OneIsUnseen, ArmsAlone, RecordFits, SleepIsInHand,
           NEW a \in Windows, Alive(a), pidfile = a, ~struck', Strikes(a),
           helper' = [helper EXCEPT ![a] = Signalled(a)],
           UNCHANGED <<sleepDisabled, pidfile, raced>>
    PROVE  (AwakeTypeOK /\ OneIsUnseen /\ ArmsAlone /\ RecordFits /\ SleepIsInHand)'
<1>1. /\ helper' \in [Windows -> Helper]
      /\ \A v \in Windows : v # a => helper'[v] = helper[v]
      /\ helper'[a].old = helper[a].old /\ helper'[a].saved = helper[a].saved
      /\ \/ helper'[a].pc = helper[a].pc
         \/ helper[a].pc = "restored" /\ helper'[a].pc = "cut"
  <2>1. helper[a].pc # "restore"
    BY DEF Strikes, Is
  <2>2. helper'[a] = Signalled(a) /\ \A v \in Windows : v # a => helper'[v] = helper[v]
    BY DEF AwakeTypeOK
  <2> QED
    BY <2>1, <2>2, SignalFits DEF AwakeTypeOK
<1>2. AwakeTypeOK'
  <2>1. struck' \in BOOLEAN
    BY DEF Strikes
  <2> QED
    BY <1>1, <2>1 DEF AwakeTypeOK
<1>3. \A v \in Windows : Alive(v)' <=> Alive(v)
  BY <1>1 DEF Alive, Is
<1>4. OneIsUnseen' /\ ArmsAlone'
  BY <1>1, <1>3 DEF OneIsUnseen, ArmsAlone, Unseen
<1>5. RecordFits'
  BY <1>1 DEF RecordFits
<1>6. SleepIsInHand'
  <2>1. NobodyHolds' => NobodyHolds
    BY <1>1 DEF NobodyHolds
  <2> QED
    BY <1>1, <2>1 DEF SleepIsInHand
<1> QED
  BY <1>2, <1>4, <1>5, <1>6

\* A window that begins to look finds none, or waits for the one on record.
LEMMA LookKeepsOrder ==
    ASSUME WindowsInOrder, NEW w \in Windows, Looks(w)
    PROVE  WindowsInOrder'
<1> USE DEF Is, Alive, Helper, Places, AwakeTypeOK, Windows
<1>1. /\ AwakeTypeOK /\ helper[w].pc = "started" /\ w # 0
      /\ UNCHANGED <<sleepDisabled, pidfile, raced>>
      /\ Armed \in 0..MaxWindows
      /\ Armed # 0 => Armed = pidfile /\ Alive(Armed) /\ Armed \in Windows
  BY AwakeAssumption DEF WindowsInOrder, Looks, Armed
<1>2. CASE Armed = 0
  <2>1. /\ helper' = [helper EXCEPT ![w].pc = "capture"] /\ UNCHANGED struck
    BY <1>2 DEF Looks, Goes
  <2>2. /\ helper' \in [Windows -> Helper]
        /\ helper'[w] = [helper[w] EXCEPT !.pc = "capture"]
        /\ \A v \in Windows : v # w => helper'[v] = helper[v]
    BY <1>1, <2>1
  <2>3. AwakeTypeOK'
    BY <1>1, <2>1, <2>2
  <2>4. ASSUME OneIsUnseen, ArmsAlone, RecordFits, SleepIsInHand
        PROVE  (OneIsUnseen /\ ArmsAlone /\ RecordFits /\ SleepIsInHand)'
    <3>1. pidfile # w
      BY <1>1, <2>4 DEF RecordFits
    <3>2. \A v \in Windows \ {w} : ~Alive(v)
      BY <1>1, <1>2, <2>4, <3>1 DEF OneIsUnseen, Unseen, Armed
    <3>3. \A v \in Windows \ {w} : helper'[v].pc \in {"none", "dead"}
      BY <1>1, <2>2, <3>2
    <3>4. OneIsUnseen'
      <4>1. \A v \in Unseen' : v = w
        BY <3>3 DEF Unseen
      <4> QED
        BY <4>1 DEF OneIsUnseen
    <3>7. ArmsAlone'
      BY <3>3 DEF ArmsAlone
    <3>6. RecordFits'
      BY <1>1, <2>2, <2>4, <3>1 DEF RecordFits
    <3>5. SleepIsInHand'
      BY <1>1, <2>2, <2>4 DEF SleepIsInHand, NobodyHolds
    <3> QED
      BY <3>4, <3>5, <3>6, <3>7
  <2> QED
    BY <1>1, <2>1, <2>3, <2>4 DEF WindowsInOrder
<1>3. CASE Armed # 0
  <2> DEFINE a == Armed
             waits == [helper[w] EXCEPT !.pc = "waiting", !.old = a]
  <2>1. /\ Strikes(a) /\ a \in Windows /\ a = pidfile /\ Alive(a)
        /\ helper' = [helper EXCEPT ![w].pc = "waiting", ![w].old = a, ![a] = Signalled(a)]
    BY <1>1, <1>3 DEF Looks
  <2>2. struck' \in BOOLEAN /\ (struck => struck')
    BY <1>1, <2>1 DEF Strikes
  <2>3. Signalled(a) \in Helper
    BY <1>1, <2>1, SignalFits
  <2> HIDE DEF a
  <2>4. waits \in Helper /\ waits.pc = "waiting" /\ waits.old = a /\ waits.saved = helper[w].saved
    BY <1>1, <2>1
  <2> HIDE DEF waits
  <2>5. helper' \in [Windows -> Helper]
    <3> DEFINE told == [helper EXCEPT ![w].pc = "waiting", ![w].old = a]
    <3>1. told \in [Windows -> Helper]
      BY <1>1, <2>4 DEF waits
    <3>2. helper' = [told EXCEPT ![a] = Signalled(a)]
      BY <2>1
    <3> HIDE DEF told
    <3> QED
      BY <2>1, <2>3, <3>1, <3>2
  <2>6. AwakeTypeOK'
    BY <1>1, <2>2, <2>5
  <2>7. ASSUME OneIsUnseen, ArmsAlone, RecordFits, SleepIsInHand, ~struck'
        PROVE  (OneIsUnseen /\ ArmsAlone /\ RecordFits /\ SleepIsInHand)'
    <3>1. a # w
      BY <1>1, <2>1, <2>7 DEF RecordFits
    <3>2. /\ helper'[w] = waits /\ helper'[a] = Signalled(a)
          /\ \A v \in Windows \ {w, a} : helper'[v] = helper[v]
      BY <1>1, <2>1, <3>1 DEF waits
    <3>3. helper[a].pc # "restore"
      BY <2>1, <2>7 DEF Strikes
    <3>4. /\ helper'[a].old = helper[a].old /\ helper'[a].saved = helper[a].saved
          /\ \/ helper'[a].pc = helper[a].pc
             \/ helper[a].pc = "restored" /\ helper'[a].pc = "cut"
      BY <1>1, <2>1, <3>2, <3>3, SignalFits
    <3>5. \A v \in Windows : Alive(v)' <=> Alive(v)
      BY <1>1, <2>4, <3>2, <3>4
    <3>6. OneIsUnseen'
      BY <1>1, <2>7, <3>5 DEF OneIsUnseen, Unseen
    <3>7. \A v \in Windows : helper'[v].pc \in {"capture", "flip", "record"} =>
                                helper[v].pc \in {"capture", "flip", "record"}
      BY <2>4, <3>2, <3>4
    <3>8. ArmsAlone'
      BY <2>7, <3>5, <3>7 DEF ArmsAlone
    <3>9. RecordFits'
      BY <1>1, <2>1, <2>4, <2>7, <3>1, <3>2, <3>4 DEF RecordFits
    <3>10. \A v \in Windows :
              /\ helper'[v].saved = helper[v].saved
              /\ helper'[v].pc \in {"flip", "record", "armed", "restore"} => helper'[v].pc = helper[v].pc
              /\ helper'[v].pc \in {"restored", "cut"} => helper[v].pc \in {"restored", "cut"}
              /\ helper[v].pc \in {"record", "armed", "restore", "cut"} => helper'[v].pc = helper[v].pc
      BY <1>1, <2>4, <3>2, <3>4
    <3>11. SleepIsInHand'
      BY <1>1, <2>7, <3>10 DEF SleepIsInHand, NobodyHolds
    <3> QED
      BY <3>6, <3>8, <3>9, <3>11
  <2> QED
    BY <1>1, <2>2, <2>6, <2>7 DEF WindowsInOrder
<1> QED
  BY <1>2, <1>3

\* The other steps of a window, up to its record.
LEMMA ArmingKeepsOrder ==
    ASSUME WindowsInOrder, NEW w \in Windows,
           Waited(w) \/ Captures(w) \/ Flips(w) \/ Records(w)
    PROVE  WindowsInOrder'
<1> USE DEF Is, Alive, Helper, Places, AwakeTypeOK, Windows, Goes
<1>1. CASE Waited(w)
  <2>1. AwakeTypeOK'
    BY <1>1 DEF Waited, WindowsInOrder
  <2>2. ASSUME OneIsUnseen, ArmsAlone, RecordFits, SleepIsInHand
        PROVE  (OneIsUnseen /\ ArmsAlone /\ RecordFits /\ SleepIsInHand)'
    <3>1. \A v \in Windows : v # w => ~Alive(v)
      BY <1>1, <2>2 DEF Waited, IncumbentIsGone, WindowsInOrder, OneIsUnseen, Unseen, RecordFits
    <3>2. OneIsUnseen' /\ ArmsAlone'
      BY <1>1, <3>1 DEF Waited, WindowsInOrder, OneIsUnseen, ArmsAlone, Unseen
    <3>3. RecordFits'
      BY <1>1, <2>2 DEF Waited, WindowsInOrder, RecordFits
    <3>4. SleepIsInHand'
      BY <1>1, <2>2 DEF Waited, WindowsInOrder, SleepIsInHand, NobodyHolds
    <3> QED
      BY <3>2, <3>3, <3>4
  <2> QED
    BY <1>1, <2>1, <2>2 DEF WindowsInOrder, Waited
<1>2. CASE Captures(w)
  <2>1. /\ helper' \in [Windows -> Helper]
        /\ helper[w].pc = "capture"
        /\ helper'[w].pc = "flip"
        /\ helper'[w].saved = sleepDisabled
        /\ helper'[w].old = helper[w].old
        /\ \A v \in Windows : v # w => helper'[v] = helper[v]
        /\ UNCHANGED <<sleepDisabled, pidfile, raced, struck>>
    BY <1>2 DEF Captures, WindowsInOrder
  <2>2. ASSUME OneIsUnseen, ArmsAlone, RecordFits, SleepIsInHand
        PROVE  (OneIsUnseen /\ ArmsAlone /\ RecordFits /\ SleepIsInHand)'
    <3>1. ~sleepDisabled
      BY <2>1, <2>2 DEF ArmsAlone, SleepIsInHand, NobodyHolds
    <3>2. OneIsUnseen' /\ ArmsAlone'
      BY <2>1, <2>2 DEF OneIsUnseen, ArmsAlone, Unseen
    <3>3. RecordFits'
      <4>1. pidfile # 0 => pidfile \in Windows
        BY DEF WindowsInOrder
      <4> QED
        BY <2>1, <2>2, <4>1 DEF RecordFits
    <3>4. SleepIsInHand'
      BY <2>1, <2>2, <3>1 DEF SleepIsInHand
    <3> QED
      BY <3>2, <3>3, <3>4
  <2> QED
    BY <2>1, <2>2 DEF WindowsInOrder
<1>3. CASE Flips(w)
  <2>1. /\ helper' \in [Windows -> Helper]
        /\ helper[w].pc = "flip"
        /\ helper'[w] = [helper[w] EXCEPT !.pc = "record"]
        /\ \A v \in Windows : v # w => helper'[v] = helper[v]
        /\ sleepDisabled' = TRUE
        /\ UNCHANGED <<pidfile, raced, struck>>
    BY <1>3 DEF Flips, WindowsInOrder
  <2>2. ASSUME OneIsUnseen, ArmsAlone, RecordFits, SleepIsInHand
        PROVE  (OneIsUnseen /\ ArmsAlone /\ RecordFits /\ SleepIsInHand)'
    <3>2. OneIsUnseen' /\ ArmsAlone'
      BY <2>1, <2>2 DEF OneIsUnseen, ArmsAlone, Unseen
    <3>3. RecordFits'
      <4>1. pidfile # 0 => pidfile \in Windows
        BY DEF WindowsInOrder
      <4> QED
        BY <2>1, <2>2, <4>1 DEF RecordFits
    <3>4. SleepIsInHand'
      <4>1. \A v \in Windows : v # w => ~Alive(v)
        BY <2>1, <2>2 DEF ArmsAlone
      <4> QED
        BY <2>1, <2>2, <4>1 DEF SleepIsInHand, NobodyHolds
    <3> QED
      BY <3>2, <3>3, <3>4
  <2> QED
    BY <2>1, <2>2 DEF WindowsInOrder
<1>4. CASE Records(w)
  <2>1. /\ helper' \in [Windows -> Helper]
        /\ helper[w].pc = "record"
        /\ helper'[w] = [helper[w] EXCEPT !.pc = "armed"]
        /\ \A v \in Windows : v # w => helper'[v] = helper[v]
        /\ pidfile' = w
        /\ UNCHANGED <<sleepDisabled, raced, struck>>
    BY <1>4 DEF Records, WindowsInOrder
  <2>2. ASSUME OneIsUnseen, ArmsAlone, RecordFits, SleepIsInHand
        PROVE  (OneIsUnseen /\ ArmsAlone /\ RecordFits /\ SleepIsInHand)'
    <3>1. \A v \in Windows : v # w => ~Alive(v)
      BY <2>1, <2>2 DEF ArmsAlone
    <3>2. OneIsUnseen' /\ ArmsAlone'
      BY <2>1, <3>1 DEF OneIsUnseen, ArmsAlone, Unseen
    <3>3. RecordFits'
      BY <2>1, <3>1 DEF RecordFits
    <3>4. SleepIsInHand'
      BY <2>1, <2>2 DEF SleepIsInHand, NobodyHolds
    <3> QED
      BY <3>2, <3>3, <3>4
  <2>3. w \in 0..MaxWindows
    BY AwakeAssumption
  <2> QED
    BY <2>1, <2>2, <2>3 DEF WindowsInOrder
<1> QED
  BY <1>1, <1>2, <1>3, <1>4

\* A window that ends: it is told to, its time is over, or something failed.
LEMMA EndingKeepsOrder ==
    ASSUME WindowsInOrder, NEW w \in Windows,
           Refuses(w) \/ BacksOut(w) \/ Finishes(w) \/ Restores(w) \/ Clears(w) \/ Exits(w)
    PROVE  WindowsInOrder'
<1> USE DEF Is, Alive, Helper, Places, AwakeTypeOK, Windows, Goes
<1>1. CASE Refuses(w)
  <2>1. /\ helper' \in [Windows -> Helper]
        /\ helper[w].pc = "waiting"
        /\ helper'[w] = [helper[w] EXCEPT !.pc = "dead"]
        /\ \A v \in Windows : v # w => helper'[v] = helper[v]
        /\ UNCHANGED <<sleepDisabled, pidfile, raced, struck>>
    BY <1>1 DEF Refuses, WindowsInOrder
  <2>2. ASSUME OneIsUnseen, ArmsAlone, RecordFits, SleepIsInHand
        PROVE  (OneIsUnseen /\ ArmsAlone /\ RecordFits /\ SleepIsInHand)'
    <3>2. OneIsUnseen' /\ ArmsAlone'
      BY <2>1, <2>2 DEF OneIsUnseen, ArmsAlone, Unseen
    <3>3. RecordFits'
      <4>1. pidfile # 0 => pidfile \in Windows
        BY DEF WindowsInOrder
      <4> QED
        BY <2>1, <2>2, <4>1 DEF RecordFits
    <3>4. SleepIsInHand'
      BY <2>1, <2>2 DEF SleepIsInHand, NobodyHolds
    <3> QED
      BY <3>2, <3>3, <3>4
  <2> QED
    BY <2>1, <2>2 DEF WindowsInOrder
<1>2. CASE BacksOut(w) \/ Finishes(w)
  <2>1. /\ helper' \in [Windows -> Helper]
        /\ helper[w].pc \in {"record", "armed"}
        /\ helper'[w] = [helper[w] EXCEPT !.pc = "restore"]
        /\ \A v \in Windows : v # w => helper'[v] = helper[v]
        /\ UNCHANGED <<sleepDisabled, pidfile, raced, struck>>
    <3>1. helper \in [Windows -> Helper]
      BY DEF WindowsInOrder
    <3>2. helper[w].pc \in {"record", "armed"} /\ helper' = [helper EXCEPT ![w].pc = "restore"]
      BY <1>2 DEF BacksOut, Finishes
    <3>3. UNCHANGED <<sleepDisabled, pidfile, raced, struck>>
      BY <1>2 DEF BacksOut, Finishes
    <3> QED
      BY <3>1, <3>2, <3>3
  <2>2. ASSUME OneIsUnseen, ArmsAlone, RecordFits, SleepIsInHand
        PROVE  (OneIsUnseen /\ ArmsAlone /\ RecordFits /\ SleepIsInHand)'
    <3>2. OneIsUnseen' /\ ArmsAlone'
      BY <2>1, <2>2 DEF OneIsUnseen, ArmsAlone, Unseen
    <3>3. RecordFits'
      <4>1. pidfile # 0 => pidfile \in Windows
        BY DEF WindowsInOrder
      <4> QED
        BY <2>1, <2>2, <4>1 DEF RecordFits
    <3>4. SleepIsInHand'
      BY <2>1, <2>2 DEF SleepIsInHand, NobodyHolds
    <3> QED
      BY <3>2, <3>3, <3>4
  <2> QED
    BY <2>1, <2>2 DEF WindowsInOrder
<1>3. CASE Restores(w)
  <2>1. /\ helper' \in [Windows -> Helper]
        /\ helper[w].pc = "restore"
        /\ helper'[w] = [helper[w] EXCEPT !.pc = "restored"]
        /\ \A v \in Windows : v # w => helper'[v] = helper[v]
        /\ sleepDisabled' = helper[w].saved
        /\ UNCHANGED <<pidfile, raced, struck>>
    BY <1>3 DEF Restores, WindowsInOrder
  <2>2. ASSUME OneIsUnseen, ArmsAlone, RecordFits, SleepIsInHand
        PROVE  (OneIsUnseen /\ ArmsAlone /\ RecordFits /\ SleepIsInHand)'
    <3>2. OneIsUnseen' /\ ArmsAlone'
      BY <2>1, <2>2 DEF OneIsUnseen, ArmsAlone, Unseen
    <3>3. RecordFits'
      <4>1. pidfile # 0 => pidfile \in Windows
        BY DEF WindowsInOrder
      <4> QED
        BY <2>1, <2>2, <4>1 DEF RecordFits
    <3>4. SleepIsInHand'
      BY <2>1, <2>2 DEF SleepIsInHand, NobodyHolds
    <3> QED
      BY <3>2, <3>3, <3>4
  <2>3. AwakeTypeOK'
    <3>1. helper[w].saved \in BOOLEAN
      BY DEF WindowsInOrder
    <3>2. sleepDisabled' \in BOOLEAN
      BY <2>1, <3>1, Zenon
    <3> QED
      BY <2>1, <3>2 DEF WindowsInOrder
  <2> QED
    BY <2>1, <2>2, <2>3 DEF WindowsInOrder
<1>4. CASE Clears(w) \/ Exits(w)
  <2>1. /\ helper' \in [Windows -> Helper]
        /\ helper[w].pc \in {"restored", "cut"}
        /\ helper'[w] = [helper[w] EXCEPT !.pc = "dead"]
        /\ \A v \in Windows : v # w => helper'[v] = helper[v]
        /\ pidfile' \in {pidfile, 0} /\ (pidfile' # pidfile => pidfile = w)
        /\ UNCHANGED <<sleepDisabled, raced, struck>>
    <3>1. helper \in [Windows -> Helper]
      BY DEF WindowsInOrder
    <3>2. /\ helper[w].pc \in {"restored", "cut"} /\ helper' = [helper EXCEPT ![w].pc = "dead"]
          /\ UNCHANGED <<sleepDisabled, raced, struck>>
      BY <1>4 DEF Clears, Exits
    <3>3. pidfile' \in {pidfile, 0} /\ (pidfile' # pidfile => pidfile = w)
      BY <1>4 DEF Clears, Exits
    <3> QED
      BY <3>1, <3>2, <3>3
  <2>2. ASSUME OneIsUnseen, ArmsAlone, RecordFits, SleepIsInHand
        PROVE  (OneIsUnseen /\ ArmsAlone /\ RecordFits /\ SleepIsInHand)'
    <3>1. ~sleepDisabled
      BY <2>1, <2>2 DEF SleepIsInHand
    <3>2. OneIsUnseen' /\ ArmsAlone'
      BY <2>1, <2>2 DEF OneIsUnseen, ArmsAlone, Unseen
    <3>3. RecordFits'
      <4>1. pidfile # 0 => pidfile \in Windows
        BY DEF WindowsInOrder
      <4> QED
        BY <2>1, <2>2, <4>1 DEF RecordFits
    <3>4. SleepIsInHand'
      BY <2>1, <2>2, <3>1 DEF SleepIsInHand
    <3> QED
      BY <3>2, <3>3, <3>4
  <2>3. AwakeTypeOK'
    BY <2>1, AwakeAssumption DEF WindowsInOrder
  <2> QED
    BY <2>1, <2>2, <2>3 DEF WindowsInOrder
<1> QED
  BY <1>1, <1>2, <1>3, <1>4

\* A window is started; only one that is alone but for the one on record counts.
LEMMA ArmKeepsOrder ==
    ASSUME WindowsInOrder, NEW w \in Windows, Arms(w)
    PROVE  WindowsInOrder'
<1> USE DEF Is, Alive, Helper, Places, AwakeTypeOK, Windows, Goes
<1>1. /\ helper' \in [Windows -> Helper]
      /\ helper[w].pc = "none"
      /\ helper'[w] = [helper[w] EXCEPT !.pc = "started"]
      /\ \A v \in Windows : v # w => helper'[v] = helper[v]
      /\ raced' = (raced \/ Unseen # {})
      /\ UNCHANGED <<sleepDisabled, pidfile, struck>>
  BY DEF Arms, WindowsInOrder
<1>2. AwakeTypeOK'
  BY <1>1 DEF WindowsInOrder
<1>3. ASSUME OneIsUnseen, ArmsAlone, RecordFits, SleepIsInHand, Unseen = {}
      PROVE  (OneIsUnseen /\ ArmsAlone /\ RecordFits /\ SleepIsInHand)'
  <2>0. pidfile # 0 => pidfile \in Windows
    BY DEF WindowsInOrder
  <2>1. \A v \in Windows : Alive(v) => pidfile = v
    BY <1>3 DEF Unseen
  <2>2. pidfile # w
    BY <1>1, <1>3 DEF RecordFits
  <2>3. OneIsUnseen'
    BY <1>1, <2>1 DEF OneIsUnseen, Unseen
  <2>4. ArmsAlone'
    BY <1>1, <1>3, <2>0, <2>1 DEF ArmsAlone, RecordFits
  <2>5. RecordFits'
    BY <1>1, <1>3, <2>0, <2>2 DEF RecordFits
  <2>6. SleepIsInHand'
    BY <1>1, <1>3 DEF SleepIsInHand, NobodyHolds
  <2> QED
    BY <2>3, <2>4, <2>5, <2>6
<1> QED
  BY <1>1, <1>2, <1>3 DEF WindowsInOrder

\* A stop tells the window on record, or clears the record of one that is gone.
LEMMA StopKeepsOrder ==
    ASSUME WindowsInOrder, Stops
    PROVE  WindowsInOrder'
<1> USE DEF Is, Alive, Helper, Places, AwakeTypeOK, Windows
<1>1. /\ AwakeTypeOK
      /\ UNCHANGED <<sleepDisabled, raced>>
  BY DEF Stops, WindowsInOrder
<1>2. CASE Armed # 0
  <2>1. /\ Armed \in Windows /\ Armed = pidfile /\ Alive(Armed)
        /\ Strikes(Armed) /\ helper' = [helper EXCEPT ![Armed] = Signalled(Armed)]
        /\ UNCHANGED pidfile
    BY <1>1, <1>2 DEF Stops, Armed
  <2>2. struck' \in BOOLEAN /\ (struck => struck')
    BY <1>1, <2>1 DEF Strikes
  <2>3. Signalled(Armed) \in Helper
    BY <1>1, <2>1, SignalFits
  <2>4. AwakeTypeOK'
    BY <1>1, <2>1, <2>2, <2>3
  <2>5. ASSUME OneIsUnseen, ArmsAlone, RecordFits, SleepIsInHand, ~struck'
        PROVE  (OneIsUnseen /\ ArmsAlone /\ RecordFits /\ SleepIsInHand)'
    BY <1>1, <2>1, <2>5, SignalKeepsOrder
  <2> QED
    BY <1>1, <2>2, <2>4, <2>5 DEF WindowsInOrder
<1>3. CASE Armed = 0
  <2>1. pidfile' = 0 /\ UNCHANGED <<helper, struck>>
    BY <1>3 DEF Stops
  <2>2. 0 \in 0..MaxWindows
    BY AwakeAssumption
  <2>3. pidfile # 0 => ~Alive(pidfile)
    BY <1>3 DEF Armed
  <2>4. ASSUME OneIsUnseen, ArmsAlone, RecordFits, SleepIsInHand
        PROVE  (OneIsUnseen /\ ArmsAlone /\ RecordFits /\ SleepIsInHand)'
    <3>1. \A v \in Windows : v # 0
      BY AwakeAssumption
    <3>2. Unseen' = Unseen
      BY <2>1, <2>3, <3>1 DEF Unseen
    <3>3. OneIsUnseen' /\ ArmsAlone'
      BY <2>1, <2>4, <3>2 DEF OneIsUnseen, ArmsAlone
    <3>4. RecordFits' /\ SleepIsInHand'
      BY <1>1, <2>1, <2>4 DEF RecordFits, SleepIsInHand, NobodyHolds
    <3> QED
      BY <3>3, <3>4
  <2> QED
    BY <1>1, <2>1, <2>2, <2>4 DEF WindowsInOrder
<1> QED
  BY <1>2, <1>3

\* The rest leaves the helpers, the settings and the record alone.
LEMMA OthersKeepOrder ==
    ASSUME WindowsInOrder, UNCHANGED <<helper, sleepDisabled, pidfile, raced, struck>>
    PROVE  WindowsInOrder'
BY DEF WindowsInOrder, AwakeTypeOK, OneIsUnseen, ArmsAlone, RecordFits, SleepIsInHand,
       NobodyHolds, Unseen, Alive, Is

\* The windows stay in order: when no two of them were started at the same time, and
\* none was signalled while it put the settings back, one lives besides the one on
\* record at most, and it is alone while it reads and changes the settings, so that
\* what it puts back is what lets the Mac sleep.
THEOREM WindowsAreInOrder == AwakeSpec => []WindowsInOrder
<1>1. AwakeInit => WindowsInOrder
  BY WindowsStart
<1>2. WindowsInOrder /\ [AwakeNext]_awakeVars => WindowsInOrder'
  <2> SUFFICES ASSUME WindowsInOrder, [AwakeNext]_awakeVars
               PROVE  WindowsInOrder'
    OBVIOUS
  <2>1. ASSUME NEW w \in Windows, HelperSteps(w)
        PROVE  WindowsInOrder'
    <3>1. CASE Looks(w)
      BY <3>1, LookKeepsOrder
    <3>2. CASE Waited(w) \/ Captures(w) \/ Flips(w) \/ Records(w)
      BY <3>2, ArmingKeepsOrder
    <3>3. CASE Finishes(w) \/ Restores(w) \/ Clears(w) \/ Exits(w)
      BY <3>3, EndingKeepsOrder
    <3> QED
      BY <2>1, <3>1, <3>2, <3>3 DEF HelperSteps
  <2>2. ASSUME NEW w \in Windows, Refuses(w) \/ BacksOut(w)
        PROVE  WindowsInOrder'
    BY <2>2, EndingKeepsOrder
  <2>3. ASSUME NEW w \in Windows, Arms(w)
        PROVE  WindowsInOrder'
    BY <2>3, ArmKeepsOrder
  <2>4. ASSUME NEW w \in Windows, TimePasses(w)
        PROVE  WindowsInOrder'
    BY <2>4, OthersKeepOrder DEF TimePasses
  <2>5. CASE Stops
    BY <2>5, StopKeepsOrder
  <2>6. CASE LidMoves \/ Disarmed \/ StillArmed \/ SleepsSoon
    BY <2>6, OthersKeepOrder DEF LidMoves, Disarmed, StillArmed, SleepsSoon, machine
  <2>7. CASE Rescans \/ TimerExpires \/ SleepsAtExpiry \/ RelayRestarts
    BY <2>7, OthersKeepOrder DEF Rescans, TimerExpires, SleepsAtExpiry, RelayRestarts, machine
  <2>8. CASE UNCHANGED awakeVars
    BY <2>8, OthersKeepOrder DEF awakeVars
  <2> QED
    BY <2>1, <2>2, <2>3, <2>4, <2>5, <2>6, <2>7, <2>8 DEF AwakeNext
<1> QED
  BY <1>1, <1>2, PTL DEF AwakeSpec

\* When nobody keeps the Mac awake it may sleep, whatever the number of windows,
\* stops, failing helpers and deaths of the relay, unless windows were started at
\* the same time, or one was signalled while it put the settings back.
THEOREM SettingsComeBack == AwakeSpec => []SleepIsRestored
<1>1. WindowsInOrder => SleepIsRestored
  BY DEF WindowsInOrder, SleepIsInHand, SleepIsRestored
<1> QED
  BY <1>1, WindowsAreInOrder, PTL

-----------------------------------------------------------------------------
(* The prompts fit. *)

LEMMA PumpIsNoBubble == Pump \notin Bubbles
  BY PromptAssumption DEF Pump

LEMMA PromptsStart == PromptInit => PromptsInOrder
<1> SUFFICES ASSUME PromptInit
             PROVE  PromptsInOrder
  OBVIOUS
<1>1. PromptTypeOK
  <2>1. bubble \in [Bubbles -> Bubble]
    BY DEF PromptInit, Unsent, Bubble
  <2>2. drive \in [Drivers -> Drive]
    BY DEF PromptInit, Idle, Drive
  <2>3. parked \in [Texts -> Entry]
    BY DEF PromptInit, NoEntry, Entry
  <2>4. chat \in [Texts -> Copies]
    BY DEF PromptInit, Copies
  <2>5. <<>> \in Seq(Texts \X {0, 1})
    OBVIOUS
  <2>6. pump \in [at : {"off", "probing", "walking", "crashed"}, todo : Seq(Texts \X {0, 1})]
    BY <2>5 DEF PromptInit
  <2>7. memo \in [Bubbles -> {"none", "delivered", "parked"}]
    BY DEF PromptInit
  <2>8. /\ net \subseteq Bubbles
        /\ mishaps \in Int
        /\ forgets \in Nat
    BY DEF PromptInit
  <2>9. overtaken \in BOOLEAN
    BY Zenon DEF PromptInit
  <2> QED
    BY <2>1, <2>2, <2>3, <2>4, <2>6, <2>7, <2>8, <2>9 DEF PromptTypeOK
<1>2. TapsFit /\ DrivesFit /\ ReceiptsFit
  BY DEF PromptInit, TapsFit, DrivesFit, ReceiptsFit, Unsent, Idle, Busy, Drivers, Pump
<1>3. AnswersHold
  BY DEF PromptInit, AnswersHold, MarksFit, AnswersKept, Unheard, Looking, Unsent, Idle, Drivers, Pump
<1>4. ASSUME NEW t \in Texts
      PROVE  chat[t].typed + Open(t) <=
                Cardinality(Spent(t)) + forgets * (Intents(t) + 1) + chat[t].late
  <2>1. /\ chat[t].typed = 0
        /\ chat[t].late = 0
        /\ forgets = 0
    BY <1>4 DEF PromptInit
  <2>2. Open(t) = 0
    BY DEF PromptInit, Open, IsOpen, EntryIsOpen, HandIsOpen, NoEntry, Unsent
  <2>3. Spent(t) = {}
    BY <1>4, PromptAssumption DEF PromptInit, Spent, Unsent
  <2>4. Intents(t) = 0
    <3>1. {b \in Bubbles : bubble[b].text = t /\ ~bubble[b].again} = {}
      BY <1>4, PromptAssumption DEF PromptInit, Unsent
    <3> QED
      BY <3>1, FS_EmptySet DEF Intents
  <2> QED
    BY <2>1, <2>2, <2>3, <2>4, FS_EmptySet
<1> QED
  BY <1>1, <1>2, <1>3, <1>4 DEF PromptsInOrder, PromptsFit, Accounted

\* What the phone may do to a bubble that is sent: its text stays.
SameTaps ==
    /\ bubble' \in [Bubbles -> Bubble]
    /\ \A b \in Bubbles :
        /\ bubble'[b].text = bubble[b].text
        /\ bubble'[b].again = bubble[b].again
        /\ bubble'[b].state = "none" <=> bubble[b].state = "none"

LEMMA AnswersKeepTaps ==
    ASSUME PromptsFit, NEW b \in Bubbles, NEW answer, Hears(b, answer)
    PROVE  SameTaps
<1>1. bubble \in [Bubbles -> Bubble]
  BY DEF PromptsFit, PromptTypeOK
<1>2. CASE UNCHANGED bubble
  BY <1>1, <1>2 DEF SameTaps
<1>3. CASE bubble[b].state = "sending" /\ answer = "failed"
           /\ bubble' = [bubble EXCEPT ![b].state = "error"]
  BY <1>1, <1>3 DEF SameTaps, Bubble
<1>4. CASE bubble[b].state = "sending" /\ answer # "failed"
           /\ bubble' = [bubble EXCEPT ![b].state = "purged"]
  BY <1>1, <1>4 DEF SameTaps, Bubble
<1> QED
  BY <1>2, <1>3, <1>4 DEF Hears

\* A step of the phone that leaves the texts alone.
LEMMA PhoneStepsFit ==
    ASSUME PromptsFit, SameTaps, net' \subseteq Bubbles, overtaken' \in BOOLEAN,
           \A b \in net' : bubble[b].state # "none",
           UNCHANGED <<drive, memo, parked, pump, chat, mishaps, forgets>>
    PROVE  PromptsFit'
<1>1. PromptTypeOK'
  BY DEF PromptsFit, PromptTypeOK, SameTaps
<1>2. TapsFit'
  BY DEF PromptsFit, TapsFit, SameTaps, Busy
<1>3. DrivesFit'
  BY DEF PromptsFit, DrivesFit, SameTaps, Busy, NextEntry
<1>4. ReceiptsFit'
  BY DEF PromptsFit, ReceiptsFit, Seen, Landed, Text
<1> QED
  BY <1>1, <1>2, <1>3, <1>4 DEF PromptsFit

\* A tap is sent, or sent again.
LEMMA PostsFit ==
    ASSUME PromptsFit, NEW b \in Bubbles, NEW t \in Texts,
           Sends(b, t) \/ Retries(b) \/ RetriesParked(b, t)
    PROVE  PromptsFit'
<1>1. /\ bubble \in [Bubbles -> Bubble]
      /\ bubble[b] \in Bubble
      /\ net \subseteq Bubbles
      /\ overtaken \in BOOLEAN
  BY DEF PromptsFit, PromptTypeOK
<1>2. ASSUME NEW u \in Texts, NEW again \in BOOLEAN, Posted(b, u, again),
             bubble[b].state # "none" => bubble[b].text = u /\ bubble[b].again = again,
             again => \A c \in Bubbles : bubble[c].again /\ bubble[c].text = u => b = c
      PROVE  PromptsFit'
  <2> DEFINE sent == [state |-> "sending", text |-> u, interrupted |-> FALSE,
                      again |-> again, posts |-> bubble[b].posts + 1]
  <2>1. /\ bubble' = [bubble EXCEPT ![b] = sent]
        /\ net' = net \cup {b}
        /\ UNCHANGED <<drive, memo, parked, pump, chat, mishaps, forgets>>
    BY <1>2 DEF Posted
  <2>2. sent \in Bubble
    BY <1>1 DEF Bubble
  <2>3. /\ sent.state = "sending"
        /\ sent.text = u
        /\ sent.again = again
    OBVIOUS
  <2> HIDE DEF sent
  <2>4. overtaken' \in BOOLEAN
    BY <1>2 DEF Posted
  <2>5. /\ bubble' \in [Bubbles -> Bubble]
        /\ bubble'[b] = sent
        /\ \A c \in Bubbles : c # b => bubble'[c] = bubble[c]
    BY <1>1, <2>1, <2>2
  <2>6. PromptTypeOK'
    BY <2>1, <2>4, <2>5 DEF PromptsFit, PromptTypeOK
  <2>7. TapsFit'
    <3>1. \A c \in Bubbles : (c \in net' \/ Busy(c)' \/ memo'[c] # "none") => bubble'[c].state # "none"
      BY <2>1, <2>3, <2>5 DEF PromptsFit, TapsFit, Busy
    <3>2. \A c \in Bubbles : bubble'[c].state # "none" => bubble'[c].text \in Texts
      BY <2>3, <2>5 DEF PromptsFit, TapsFit
    <3>3. \A c \in Bubbles : bubble'[c].state = "none" => bubble'[c].text = 0 /\ ~bubble'[c].again
      BY <2>3, <2>5 DEF PromptsFit, TapsFit
    <3>4. ASSUME NEW c \in Bubbles, NEW d \in Bubbles,
                 bubble'[c].again, bubble'[d].again, bubble'[c].text = bubble'[d].text
          PROVE  c = d
      BY <1>2, <2>3, <2>5, <3>4 DEF PromptsFit, TapsFit
    <3> QED
      BY <3>1, <3>2, <3>3, <3>4 DEF TapsFit
  <2>8. DrivesFit'
    <3>1. \A c \in Bubbles : Busy(c) => bubble[c].text = bubble'[c].text
      BY <1>2, <2>3, <2>5 DEF PromptsFit, TapsFit
    <3> QED
      BY <2>1, <3>1 DEF PromptsFit, DrivesFit, Busy, NextEntry
  <2>9. ReceiptsFit'
    BY <2>1 DEF PromptsFit, ReceiptsFit, Seen, Landed, Text
  <2> QED
    BY <2>6, <2>7, <2>8, <2>9 DEF PromptsFit
<1>3. CASE Sends(b, t)
  BY <1>2, <1>3 DEF Sends
<1>4. CASE Retries(b)
  <2>1. bubble[b].text \in Texts /\ bubble[b].again \in BOOLEAN
    BY <1>1, <1>4 DEF Retries, PromptsFit, TapsFit, Bubble
  <2>2. bubble[b].again => \A c \in Bubbles : bubble[c].again /\ bubble[c].text = bubble[b].text => b = c
    BY DEF PromptsFit, TapsFit
  <2> QED
    BY <1>2, <1>4, <2>1, <2>2 DEF Retries
<1>5. CASE RetriesParked(b, t)
  <2>1. CASE bubble[b].again /\ bubble[b].text = t
    BY <1>2, <1>5, <2>1 DEF RetriesParked, PromptsFit, TapsFit
  <2>2. CASE bubble[b].state = "none" /\ \A c \in Bubbles : bubble[c].again => bubble[c].text # t
    BY <1>2, <1>5, <2>2 DEF RetriesParked
  <2> QED
    BY <1>5, <2>1, <2>2 DEF RetriesParked
<1> QED
  BY <1>3, <1>4, <1>5

LEMMA PhoneFits ==
    ASSUME PromptsFit, NEW b \in Bubbles,
           Reloads \/ GivesUp(b) \/ Reconciles(b) \/ DismissesBubble(b)
    PROVE  PromptsFit' /\ SameTaps
<1>1. /\ bubble \in [Bubbles -> Bubble]
      /\ net \subseteq Bubbles
      /\ overtaken \in BOOLEAN
  BY DEF PromptsFit, PromptTypeOK
<1>2. SameTaps
  <2>1. CASE Reloads
    <3>1. PICK old \in SUBSET {c \in Bubbles : bubble[c].state \in {"sending", "error"}} :
            bubble' = [c \in Bubbles |->
                CASE c \in old -> Gone(c, "dropped")
                  [] c \notin old /\ bubble[c].state = "sending" ->
                        [bubble[c] EXCEPT !.state = "error", !.interrupted = TRUE]
                  [] OTHER -> bubble[c]]
      BY <2>1 DEF Reloads
    <3> DEFINE after(c) == CASE c \in old -> Gone(c, "dropped")
                             [] c \notin old /\ bubble[c].state = "sending" ->
                                    [bubble[c] EXCEPT !.state = "error", !.interrupted = TRUE]
                             [] OTHER -> bubble[c]
    <3>2. ASSUME NEW c \in Bubbles
          PROVE  /\ after(c) \in Bubble
                 /\ after(c).text = bubble[c].text
                 /\ after(c).again = bubble[c].again
                 /\ after(c).state = "none" <=> bubble[c].state = "none"
      <4>1. bubble[c] \in Bubble
        BY <1>1
      <4>2. CASE c \in old
        <5>1. after(c) = [bubble[c] EXCEPT !.state = "dropped", !.interrupted = FALSE]
          BY <4>2 DEF Gone
        <5>2. bubble[c].state # "none"
          BY <3>1, <4>2
        <5> HIDE DEF after
        <5> QED
          BY <4>1, <5>1, <5>2 DEF Bubble
      <4>3. CASE c \notin old /\ bubble[c].state = "sending"
        <5>1. after(c) = [bubble[c] EXCEPT !.state = "error", !.interrupted = TRUE]
          BY <4>3
        <5> HIDE DEF after
        <5> QED
          BY <4>1, <4>3, <5>1 DEF Bubble
      <4>4. CASE c \notin old /\ bubble[c].state # "sending"
        <5>1. after(c) = bubble[c]
          BY <4>4
        <5> HIDE DEF after
        <5> QED
          BY <4>1, <5>1
      <4> QED
        BY <4>2, <4>3, <4>4
    <3>3. bubble' = [c \in Bubbles |-> after(c)]
      BY <3>1
    <3> HIDE DEF after
    <3> QED
      BY <3>2, <3>3 DEF SameTaps
  <2>2. CASE GivesUp(b)
    BY <1>1, <2>2 DEF GivesUp, SameTaps, Bubble
  <2>3. CASE Reconciles(b)
    BY <1>1, <2>3 DEF Reconciles, SameTaps, Bubble, Gone
  <2>4. CASE DismissesBubble(b)
    BY <1>1, <2>4 DEF DismissesBubble, SameTaps, Bubble, Gone
  <2> QED
    BY <2>1, <2>2, <2>3, <2>4
<1>3. /\ net' \subseteq net
      /\ UNCHANGED <<drive, memo, parked, pump, chat, mishaps, forgets, overtaken>>
  BY DEF Reloads, GivesUp, Reconciles, DismissesBubble
<1>4. \A c \in net' : bubble[c].state # "none"
  BY <1>1, <1>3 DEF PromptsFit, TapsFit
<1> QED
  BY <1>1, <1>2, <1>3, <1>4, PhoneStepsFit

LEMMA ReloadsHasTap ==
    ASSUME PromptsFit, Reloads
    PROVE  \E b \in Bubbles : TRUE
<1> SUFFICES ASSUME Bubbles = {}
             PROVE  FALSE
  OBVIOUS
<1>1. PICK old \in SUBSET {c \in Bubbles : bubble[c].state \in {"sending", "error"}} :
        bubble' = [c \in Bubbles |->
            CASE c \in old -> Gone(c, "dropped")
              [] c \notin old /\ bubble[c].state = "sending" ->
                    [bubble[c] EXCEPT !.state = "error", !.interrupted = TRUE]
              [] OTHER -> bubble[c]]
  BY DEF Reloads
<1> DEFINE after(c) == CASE c \in old -> Gone(c, "dropped")
                         [] c \notin old /\ bubble[c].state = "sending" ->
                                [bubble[c] EXCEPT !.state = "error", !.interrupted = TRUE]
                         [] OTHER -> bubble[c]
<1>2. bubble' = [c \in Bubbles |-> after(c)]
  BY <1>1
<1> HIDE DEF after
<1>3. bubble = [c \in Bubbles |-> bubble[c]]
  BY DEF PromptsFit, PromptTypeOK
<1>4. bubble' = bubble
  BY <1>2, <1>3
<1> QED
  BY <1>4 DEF Reloads

LEMMA BusyHasText ==
    ASSUME PromptsFit, NEW a \in Drivers, Busy(a)
    PROVE  Text(a) \in Texts
<1>1. CASE a \in Bubbles
  BY <1>1 DEF PromptsFit, TapsFit, DrivesFit, Busy, Text
<1>2. CASE a = Pump
  <2>1. pump.todo \in Seq(Texts \X {0, 1}) /\ pump.todo # <<>>
    BY <1>2 DEF PromptsFit, PromptTypeOK, DrivesFit
  <2>2. pump.todo[1] \in Texts \X {0, 1}
    BY <2>1, EmptySeq, ElementOfSeq, LenProperties
  <2> QED
    BY <1>2, <2>2 DEF PromptsFit, DrivesFit, NextEntry, Text
<1> QED
  BY <1>1, <1>2 DEF Drivers

\* The queue: the walk and its list.
LEMMA QueueFits ==
    ASSUME PromptsFit, Probes \/ Walks \/ Crashes \/ DismissesParked
    PROVE  PromptsFit'
<1> USE PumpIsNoBubble DEF Busy, Seen, Landed, Text
<1>1. /\ drive \in [Drivers -> Drive]
      /\ parked \in [Texts -> Entry]
      /\ pump \in [at : {"off", "probing", "walking", "crashed"}, todo : Seq(Texts \X {0, 1})]
      /\ chat \in [Texts -> Copies]
      /\ forgets \in Nat /\ mishaps \in Int
      /\ Pump \in Drivers
      /\ Bubbles \subseteq Drivers
  BY DEF PromptsFit, PromptTypeOK, Drivers
<1>2. CASE Probes
  <2>1. /\ ~Busy(Pump)
        /\ UNCHANGED <<bubble, net, drive, memo, parked, chat, mishaps, forgets, overtaken>>
    BY <1>2 DEF Probes, PromptsFit, DrivesFit
  <2>2. pump' \in [at : {"off", "probing", "walking", "crashed"}, todo : Seq(Texts \X {0, 1})]
    <3>1. CASE pump' = [pump EXCEPT !.at = "off"]
      BY <1>1, <3>1
    <3>2. ASSUME NEW order \in SetToSeqs({<<t, parked[t].era>> : t \in Waiting}),
                 pump' = [at |-> "walking", todo |-> order]
          PROVE  pump' \in [at : {"off", "probing", "walking", "crashed"}, todo : Seq(Texts \X {0, 1})]
      <4> DEFINE S == {<<t, parked[t].era>> : t \in Waiting}
      <4>1. S \subseteq Texts \X {0, 1}
        BY <1>1 DEF Waiting, Entry
      <4>2. order \in [1..Cardinality(S) -> S]
        BY <3>2 DEF SetToSeqs
      <4>3. Cardinality(S) \in Nat
        <5>1. IsFiniteSet({0, 1})
          <6>1. IsFiniteSet({0} \cup {1})
            BY FS_Singleton, FS_AddElement, Zenon
          <6>2. {0} \cup {1} = {0, 1}
            OBVIOUS
          <6> QED
            BY <6>1, <6>2
        <5>2. IsFiniteSet(Texts \X {0, 1})
          BY <5>1, FS_Product, PromptAssumption
        <5> QED
          BY <4>1, <5>2, FS_Subset, FS_CardinalityType
      <4> HIDE DEF S
      <4>4. order \in Seq(S)
        BY <4>2, <4>3
      <4>5. order \in Seq(Texts \X {0, 1})
        BY <4>1, <4>4
      <4> QED
        BY <3>2, <4>5
    <3> QED
      BY <1>2, <3>1, <3>2 DEF Probes
  <2>3. PromptTypeOK'
    BY <2>1, <2>2 DEF PromptsFit, PromptTypeOK
  <2>4. TapsFit' /\ DrivesFit' /\ ReceiptsFit'
    BY <2>1 DEF PromptsFit, TapsFit, DrivesFit, ReceiptsFit
  <2> QED
    BY <2>3, <2>4 DEF PromptsFit
<1>3. CASE Walks
  <2>1. UNCHANGED <<bubble, net, memo, parked, chat, mishaps, forgets, overtaken>>
    BY <1>3 DEF Walks
  <2>2. CASE pump.todo = <<>>
    <3>1. /\ UNCHANGED drive
          /\ ~Busy(Pump)
          /\ pump' = [pump EXCEPT !.at = AfterTheWalk]
      BY <1>3, <2>2 DEF Walks
    <3>2. pump' \in [at : {"off", "probing", "walking", "crashed"}, todo : Seq(Texts \X {0, 1})]
      BY <1>1, <3>1 DEF AfterTheWalk
    <3>3. PromptTypeOK'
      BY <2>1, <3>1, <3>2 DEF PromptsFit, PromptTypeOK
    <3>4. TapsFit' /\ DrivesFit' /\ ReceiptsFit'
      BY <2>1, <3>1 DEF PromptsFit, TapsFit, DrivesFit, ReceiptsFit
    <3> QED
      BY <3>3, <3>4 DEF PromptsFit
  <2>3. CASE pump.todo # <<>>
    <3> DEFINE asked == [Idle EXCEPT !.at = "asked", !.text = NextEntry]
    <3>1. /\ drive' = [drive EXCEPT ![Pump] = asked]
          /\ pump' = pump
          /\ pump.at = "walking"
      BY <1>3, <2>3 DEF Walks
    <3>2. NextEntry \in Texts
      <4>1. pump.todo \in Seq(Texts \X {0, 1})
        BY <1>1
      <4>2. pump.todo[1] \in Texts \X {0, 1}
        BY <2>3, <4>1, EmptySeq, ElementOfSeq, LenProperties
      <4> QED
        BY <4>2 DEF NextEntry
    <3>3. asked \in Drive
      BY <3>2 DEF Idle, Drive
    <3>4. asked.at = "asked" /\ asked.text = NextEntry
      BY DEF Idle
    <3> HIDE DEF asked
    <3>5. /\ drive' \in [Drivers -> Drive]
          /\ drive'[Pump] = asked
          /\ \A a \in Drivers : a # Pump => drive'[a] = drive[a]
      BY <1>1, <3>1, <3>3
    <3>6. PromptTypeOK'
      BY <2>1, <3>1, <3>5 DEF PromptsFit, PromptTypeOK
    <3>7. TapsFit'
      BY <1>1, <2>1, <3>5 DEF PromptsFit, TapsFit
    <3>8. DrivesFit'
      <4>1. NextEntry' = NextEntry
        BY <3>1 DEF NextEntry
      <4> QED
        BY <1>1, <2>1, <2>3, <3>1, <3>4, <3>5, <4>1 DEF PromptsFit, DrivesFit
    <3>9. ReceiptsFit'
      BY <1>1, <2>1, <3>4, <3>5 DEF PromptsFit, ReceiptsFit
    <3> QED
      BY <3>6, <3>7, <3>8, <3>9 DEF PromptsFit
  <2> QED
    BY <2>2, <2>3
<1>4. CASE Crashes
  <2>1. /\ drive' = [drive EXCEPT ![Pump] = Idle]
        /\ pump' = [at |-> "crashed", todo |-> <<>>]
        /\ forgets' \in Nat /\ mishaps' \in Int
        /\ UNCHANGED <<bubble, net, memo, parked, chat, overtaken>>
    BY <1>1, <1>4 DEF Crashes, Forgets, Mishap
  <2>2. Idle \in Drive /\ Idle.at = "idle"
    BY DEF Idle, Drive
  <2>3. /\ drive' \in [Drivers -> Drive]
        /\ drive'[Pump] = Idle
        /\ \A a \in Drivers : a # Pump => drive'[a] = drive[a]
    BY <1>1, <2>1, <2>2
  <2>4. pump' \in [at : {"off", "probing", "walking", "crashed"}, todo : Seq(Texts \X {0, 1})]
    <3>1. <<>> \in Seq(Texts \X {0, 1})
      OBVIOUS
    <3> QED
      BY <2>1, <3>1
  <2>5. PromptTypeOK'
    BY <2>1, <2>3, <2>4 DEF PromptsFit, PromptTypeOK
  <2>6. TapsFit' /\ DrivesFit' /\ ReceiptsFit'
    BY <1>1, <2>1, <2>2, <2>3 DEF PromptsFit, TapsFit, DrivesFit, ReceiptsFit
  <2> QED
    BY <2>5, <2>6 DEF PromptsFit
<1>5. CASE DismissesParked
  <2>1. UNCHANGED <<bubble, net, drive, memo, pump, chat, mishaps, forgets, overtaken>>
    BY <1>5 DEF DismissesParked
  <2>2. parked' \in [Texts -> Entry]
    BY <1>1, <1>5 DEF DismissesParked, Entry
  <2>3. PromptTypeOK'
    BY <2>1, <2>2 DEF PromptsFit, PromptTypeOK
  <2>4. TapsFit' /\ DrivesFit' /\ ReceiptsFit'
    BY <2>1 DEF PromptsFit, TapsFit, DrivesFit, ReceiptsFit, NextEntry
  <2> QED
    BY <2>3, <2>4 DEF PromptsFit
<1> QED
  BY <1>2, <1>3, <1>4, <1>5

\* What the end of a delivery changes, whoever made it.
LEMMA EndsAre ==
    ASSUME PromptsFit, NEW a \in Drivers, Busy(a), NEW result \in {"delivered", "blocked", "failed"},
           Ends(a, result)
    PROVE  /\ SameTaps
           /\ drive' = [drive EXCEPT ![a] = Idle]
           /\ memo' \in [Bubbles -> {"none", "delivered", "parked"}]
           /\ \A b \in Bubbles : b # a => memo'[b] = memo[b]
           /\ parked' \in [Texts -> Entry]
           /\ pump' \in [at : {"off", "probing", "walking", "crashed"}, todo : Seq(Texts \X {0, 1})]
           /\ a # Pump => pump'.todo = pump.todo /\ (pump.at = "walking" => pump' = pump)
<1>1. /\ memo \in [Bubbles -> {"none", "delivered", "parked"}]
      /\ parked \in [Texts -> Entry]
      /\ pump \in [at : {"off", "probing", "walking", "crashed"}, todo : Seq(Texts \X {0, 1})]
      /\ bubble \in [Bubbles -> Bubble]
      /\ Text(a) \in Texts
  BY BusyHasText DEF PromptsFit, PromptTypeOK
<1>2. /\ NoEntry \in Entry
      /\ \A t \in Texts : [parked[t] EXCEPT !.status = "none", !.attempts = 0] \in Entry
      /\ \A t \in Texts : parked[t].era \in {0, 1} /\ parked[t].attempts \in Nat
  BY <1>1 DEF NoEntry, Entry
<1>3. ASSUME NEW t \in Texts
      PROVE  Dropped(t) \in [Texts -> Entry]
  BY <1>1, <1>2 DEF Dropped
<1>4. CASE a = Pump
  <2>1. Stepped(result)
    BY <1>4 DEF Ends
  <2>2. /\ drive' = [drive EXCEPT ![a] = Idle]
        /\ UNCHANGED <<bubble, memo>>
        /\ pump' = [pump EXCEPT !.todo = Tail(@)]
    BY <1>4, <2>1 DEF Stepped
  <2>3. NextEntry = Text(a) /\ pump.todo # <<>>
    BY <1>4 DEF PromptsFit, DrivesFit, Text
  <2>4. parked' \in [Texts -> Entry]
    <3> DEFINE t == NextEntry
               e == IF parked[t].status = "none" THEN parked[t]
                    ELSE [parked[t] EXCEPT !.attempts = parked[t].attempts + 1,
                            !.status = IF parked[t].attempts + 1 >= MAX_ATTEMPTS
                                       THEN "failed" ELSE parked[t].status]
    <3>1. t \in Texts
      BY <1>1, <2>3
    <3>2. e \in Entry
      <4>1. parked[t] \in Entry /\ parked[t].attempts + 1 \in Nat
        BY <1>1, <3>1 DEF Entry
      <4> DEFINE status == IF parked[t].attempts + 1 >= MAX_ATTEMPTS
                           THEN "failed" ELSE parked[t].status
      <4>2. status \in {"none", "waiting", "failed"}
        BY <4>1 DEF Entry
      <4>3. e = IF parked[t].status = "none" THEN parked[t]
                ELSE [parked[t] EXCEPT !.attempts = parked[t].attempts + 1, !.status = status]
        OBVIOUS
      <4> HIDE DEF e, status
      <4> QED
        BY <4>1, <4>2, <4>3 DEF Entry
    <3>3. \/ UNCHANGED parked
          \/ parked' = Dropped(t)
          \/ parked' = [parked EXCEPT ![t] = e]
      <4>1. CASE parked[t].era # pump.todo[1][2] \/ result = "blocked"
        BY <2>1, <4>1 DEF Stepped
      <4>2. CASE parked[t].era = pump.todo[1][2] /\ result = "delivered"
        BY <2>1, <4>2 DEF Stepped
      <4>3. CASE parked[t].era = pump.todo[1][2] /\ result = "failed"
        BY <2>1, <4>3 DEF Stepped
      <4> QED
        BY <4>1, <4>2, <4>3
    <3> HIDE DEF e, t
    <3> QED
      BY <1>1, <1>3, <3>1, <3>2, <3>3
  <2>5. Tail(pump.todo) \in Seq(Texts \X {0, 1})
    BY <1>1, <2>3, HeadTailProperties
  <2> QED
    BY <1>1, <1>4, <2>2, <2>4, <2>5 DEF SameTaps
<1>5. CASE a \in Bubbles
  <2> DEFINE answer == IF result = "blocked" THEN "parked" ELSE result
  <2>0. a # Pump
    BY <1>5, PumpIsNoBubble
  <2>1. /\ Hears(a, answer)
        /\ drive' = [drive EXCEPT ![a] = Idle]
        /\ memo' = [memo EXCEPT ![a] = Kept(answer)]
        /\ \/ parked' = Dropped(Text(a)) /\ UNCHANGED pump
           \/ Park(Text(a))
           \/ UNCHANGED <<parked, pump>>
    BY <2>0 DEF Ends, Answered, Text
  <2>2. Kept(answer) \in {"none", "delivered", "parked"}
    BY DEF Kept
  <2>3. SameTaps
    BY <1>5, <2>1, AnswersKeepTaps
  <2>4. /\ StartPump \in [at : {"off", "probing", "walking", "crashed"}, todo : Seq(Texts \X {0, 1})]
        /\ StartPump.todo = pump.todo
        /\ pump.at = "walking" => StartPump = pump
    BY <1>1 DEF StartPump
  <2>5. CASE Park(Text(a))
    <3> DEFINE e == [status |-> "waiting", attempts |-> 0,
                     era |-> IF parked[Text(a)].status = "none" THEN 1 - parked[Text(a)].era
                             ELSE parked[Text(a)].era]
    <3>1. e \in Entry
      <4> DEFINE era == IF parked[Text(a)].status = "none" THEN 1 - parked[Text(a)].era
                        ELSE parked[Text(a)].era
      <4>1. era \in {0, 1}
        <5>1. parked[Text(a)].era \in {0, 1}
          BY <1>1, <1>2
        <5>2. CASE parked[Text(a)].era = 0
          BY <5>2
        <5>3. CASE parked[Text(a)].era = 1
          BY <5>3
        <5> QED
          BY <5>1, <5>2, <5>3
      <4>2. e = [status |-> "waiting", attempts |-> 0, era |-> era]
        OBVIOUS
      <4> HIDE DEF era, e
      <4> QED
        BY <4>1, <4>2 DEF Entry
    <3>2. parked' = [parked EXCEPT ![Text(a)] = e] /\ pump' = StartPump
      BY <2>5 DEF Park
    <3> HIDE DEF e
    <3>3. parked' \in [Texts -> Entry]
      BY <1>1, <3>1, <3>2
    <3> QED
      BY <1>1, <1>5, <2>1, <2>2, <2>3, <2>4, <3>2, <3>3
  <2>6. CASE ~Park(Text(a))
    <3>1. parked' \in [Texts -> Entry] /\ UNCHANGED pump
      BY <1>1, <1>3, <2>1, <2>6
    <3> QED
      BY <1>1, <1>5, <2>1, <2>2, <2>3, <3>1
  <2> QED
    BY <2>5, <2>6
<1> QED
  BY <1>4, <1>5 DEF Drivers

LEMMA EndsFit ==
    ASSUME PromptsFit, NEW a \in Drivers, Busy(a), NEW result \in {"delivered", "blocked", "failed"},
           Ends(a, result), mishaps' \in Int, UNCHANGED <<net, chat, forgets, overtaken>>
    PROVE  PromptsFit'
<1>1. /\ drive' = [drive EXCEPT ![a] = Idle]
      /\ SameTaps
      /\ memo' \in [Bubbles -> {"none", "delivered", "parked"}]
      /\ \A b \in Bubbles : b # a => memo'[b] = memo[b]
      /\ parked' \in [Texts -> Entry]
      /\ pump' \in [at : {"off", "probing", "walking", "crashed"}, todo : Seq(Texts \X {0, 1})]
      /\ a # Pump => pump'.todo = pump.todo /\ (pump.at = "walking" => pump' = pump)
  BY EndsAre
<1>2. Idle \in Drive /\ Idle.at = "idle"
  BY DEF Idle, Drive
<1>3. /\ drive' \in [Drivers -> Drive]
      /\ drive'[a] = Idle
      /\ \A c \in Drivers : c # a => drive'[c] = drive[c]
  BY <1>1, <1>2 DEF PromptsFit, PromptTypeOK
<1>4. Bubbles \subseteq Drivers /\ Pump \in Drivers /\ Pump \notin Bubbles
  BY PumpIsNoBubble DEF Drivers
<1>5. PromptTypeOK'
  BY <1>1, <1>3 DEF PromptsFit, PromptTypeOK, SameTaps
<1>6. TapsFit'
  <2>1. \A b \in Bubbles : (b \in net' \/ Busy(b)' \/ memo'[b] # "none") => bubble'[b].state # "none"
    <3> SUFFICES ASSUME NEW b \in Bubbles, b \in net' \/ Busy(b)' \/ memo'[b] # "none"
                 PROVE  bubble'[b].state # "none"
      OBVIOUS
    <3>1. CASE b = a
      BY <1>1, <3>1 DEF PromptsFit, TapsFit, SameTaps
    <3>2. CASE b # a
      BY <1>1, <1>3, <1>4, <3>2 DEF PromptsFit, TapsFit, SameTaps, Busy
    <3> QED
      BY <3>1, <3>2
  <2> QED
    BY <1>1, <2>1 DEF PromptsFit, TapsFit, SameTaps
<1>7. DrivesFit'
  <2>1. ASSUME NEW b \in Bubbles, Busy(b)'
        PROVE  drive'[b].text = bubble'[b].text /\ memo'[b] = "none"
    BY <1>1, <1>2, <1>3, <1>4, <2>1 DEF PromptsFit, DrivesFit, SameTaps, Busy
  <2>2. ASSUME Busy(Pump)'
        PROVE  /\ pump'.at = "walking"
               /\ pump'.todo # <<>>
               /\ drive'[Pump].text = NextEntry'
    <3>1. a # Pump /\ drive'[Pump] = drive[Pump]
      BY <1>2, <1>3, <1>4, <2>2 DEF Busy
    <3>2. Busy(Pump)
      BY <2>2, <3>1 DEF Busy
    <3>3. pump' = pump
      BY <1>1, <3>1, <3>2 DEF PromptsFit, DrivesFit
    <3> QED
      BY <3>1, <3>2, <3>3 DEF PromptsFit, DrivesFit, NextEntry
  <2> QED
    BY <2>1, <2>2 DEF DrivesFit
<1>8. ReceiptsFit'
  BY <1>2, <1>3 DEF PromptsFit, ReceiptsFit, Seen, Landed, Text
<1> QED
  BY <1>5, <1>6, <1>7, <1>8 DEF PromptsFit

\* A delivery begins, types, or is tried again.
LEMMA DeliveriesFit ==
    ASSUME PromptsFit, NEW a \in Drivers, Drives(a)
    PROVE  PromptsFit'
<1>1. /\ drive \in [Drivers -> Drive]
      /\ drive[a] \in Drive
      /\ chat \in [Texts -> Copies]
      /\ mishaps \in Int /\ forgets \in Nat /\ overtaken \in BOOLEAN
      /\ Bubbles \subseteq Drivers /\ Pump \in Drivers
  BY DEF PromptsFit, PromptTypeOK, Drivers
<1>2. Busy(a)
  BY DEF Drives, Begins, Refused, Types, Confirms, Unconfirmed, Busy
<1>3. Text(a) \in Texts /\ chat[Text(a)] \in Copies
  BY <1>1, <1>2, BusyHasText
<1>4. ASSUME NEW d \in Drive, drive' = [drive EXCEPT ![a] = d],
             d.at # "idle", d.text = Text(a),
             chat' \in [Texts -> Copies],
             \A t \in Texts : /\ chat'[t].shown <= chat'[t].typed
                              /\ chat[t].shown <= chat'[t].shown,
             d.at \in {"turn", "watching"} => d.cursor <= chat'[Text(a)].shown,
             d.at = "watching" /\ d.outcome = "seen" => d.cursor < chat'[Text(a)].shown,
             mishaps' \in Int, overtaken' \in BOOLEAN,
             UNCHANGED <<bubble, net, memo, parked, pump, forgets>>
      PROVE  PromptsFit'
  <2>1. /\ drive' \in [Drivers -> Drive]
        /\ drive'[a] = d
        /\ \A c \in Drivers : c # a => drive'[c] = drive[c]
    BY <1>1, <1>4
  <2>2. PromptTypeOK'
    BY <1>4, <2>1 DEF PromptsFit, PromptTypeOK
  <2>3. \A c \in Drivers : (Busy(c)' <=> Busy(c)) /\ drive'[c].text = drive[c].text
    BY <1>2, <1>4, <2>1 DEF Busy, Text
  <2>4. TapsFit'
    BY <1>1, <1>4, <2>3 DEF PromptsFit, TapsFit
  <2>5. DrivesFit'
    BY <1>1, <1>4, <2>3 DEF PromptsFit, DrivesFit, NextEntry
  <2>6. ASSUME NEW c \in Drivers, drive'[c].at \in {"turn", "watching"}
        PROVE  /\ drive'[c].cursor <= chat'[drive'[c].text].shown
               /\ drive'[c].at = "watching" /\ drive'[c].outcome = "seen"
                    => chat'[drive'[c].text].shown > drive'[c].cursor
    <3>1. CASE c = a
      <4>1. /\ d.cursor \in Nat
            /\ chat'[Text(a)].shown \in Nat
        BY <1>3, <1>4 DEF Drive, Copies
      <4> QED
        BY <1>4, <2>1, <2>6, <3>1, <4>1
    <3>2. CASE c # a
      <4>1. drive'[c] = drive[c] /\ drive[c].at \in {"turn", "watching"}
        BY <2>1, <2>6, <3>2
      <4>2. drive[c].text \in Texts
        BY <4>1, BusyHasText DEF Busy, Text
      <4>3. /\ chat[drive[c].text].shown \in Nat
            /\ chat'[drive[c].text].shown \in Nat
            /\ drive[c].cursor \in Nat
            /\ chat[drive[c].text].shown <= chat'[drive[c].text].shown
        BY <1>1, <1>4, <4>2 DEF Copies, Drive
      <4>4. /\ drive[c].cursor <= chat[drive[c].text].shown
            /\ drive[c].at = "watching" /\ drive[c].outcome = "seen"
                 => chat[drive[c].text].shown > drive[c].cursor
        BY <4>1 DEF PromptsFit, ReceiptsFit, Seen, Landed, Text
      <4> QED
        BY <4>1, <4>3, <4>4
    <3> QED
      BY <3>1, <3>2
  <2>7. ReceiptsFit'
    BY <1>4, <2>6 DEF ReceiptsFit, Seen, Landed, Text
  <2> QED
    BY <2>2, <2>4, <2>5, <2>7 DEF PromptsFit
<1>5. \A t \in Texts : /\ chat[t].shown \in Nat
                       /\ chat[t].typed \in Nat
                       /\ chat[t].late \in Nat
                       /\ chat[t].shown <= chat[t].typed
  BY <1>1 DEF PromptsFit, ReceiptsFit, Copies
<1>6. CASE Begins(a)
  <2> DEFINE d == [drive[a] EXCEPT !.at = "turn", !.cursor = chat[Text(a)].shown]
  <2>1. drive' = [drive EXCEPT ![a] = d]
    BY <1>1, <1>6 DEF Begins
  <2>2. /\ d \in Drive
        /\ d.at = "turn"
        /\ d.text = Text(a)
        /\ d.cursor = chat[Text(a)].shown
    BY <1>1, <1>3, <1>5 DEF Drive, Text
  <2>3. UNCHANGED <<bubble, net, memo, parked, pump, chat, mishaps, forgets, overtaken>>
    BY <1>6 DEF Begins
  <2> HIDE DEF d
  <2> QED
    <3>1. chat' = chat /\ mishaps' \in Int /\ overtaken' \in BOOLEAN
      BY <1>1, <2>3
    <3>2. \A t \in Texts : /\ chat'[t].shown <= chat'[t].typed
                           /\ chat[t].shown <= chat'[t].shown
      BY <1>5, <3>1
    <3>3. d.cursor <= chat'[Text(a)].shown
      BY <1>3, <1>5, <2>2, <3>1
    <3> QED
      BY <1>1, <1>4, <2>1, <2>2, <2>3, <3>1, <3>2, <3>3
<1>7. CASE Types(a)
  <2>1. PICK outcome \in {"seen", "late", "ran", "blocked"} :
            /\ drive' = [drive EXCEPT ![a].at = "watching", ![a].outcome = outcome]
            /\ Mishap(outcome \in {"blocked", "late"})
            /\ CASE outcome = "seen" -> chat' = [chat EXCEPT ![Text(a)].typed = @ + 1, ![Text(a)].shown = @ + 1]
                 [] outcome = "late" -> chat' = [chat EXCEPT ![Text(a)].typed = @ + 1, ![Text(a)].late = @ + 1]
                 [] OTHER -> UNCHANGED chat
    BY <1>7 DEF Types
  <2> DEFINE d == [drive[a] EXCEPT !.at = "watching", !.outcome = outcome]
  <2>2. drive' = [drive EXCEPT ![a] = d]
    BY <1>1, <2>1
  <2>3. /\ d \in Drive
        /\ d.at = "watching"
        /\ d.outcome = outcome
        /\ d.text = Text(a)
        /\ d.cursor = drive[a].cursor
    BY <1>1 DEF Drive, Text
  <2>4. mishaps' \in Int
    BY <1>1, <2>1 DEF Mishap
  <2>5. /\ UNCHANGED <<bubble, net, memo, parked, pump, forgets>>
        /\ overtaken' \in BOOLEAN
    BY <1>7 DEF Types
  <2>6. drive[a].at = "turn" /\ drive[a].cursor <= chat[Text(a)].shown /\ drive[a].cursor \in Nat
    BY <1>1, <1>7 DEF Types, PromptsFit, ReceiptsFit, Drive
  <2> HIDE DEF d
  <2>7. CASE outcome = "seen"
    <3> DEFINE e == [chat[Text(a)] EXCEPT !.typed = chat[Text(a)].typed + 1,
                                           !.shown = chat[Text(a)].shown + 1]
    <3>1. chat' = [chat EXCEPT ![Text(a)] = e]
      BY <1>1, <1>3, <2>1, <2>7
    <3>2. /\ e \in Copies
          /\ e.typed = chat[Text(a)].typed + 1
          /\ e.shown = chat[Text(a)].shown + 1
      <4> DEFINE n == chat[Text(a)].typed + 1
                 m == chat[Text(a)].shown + 1
      <4>1. n \in Nat /\ m \in Nat
        BY <1>3, <1>5
      <4>2. e = [chat[Text(a)] EXCEPT !.typed = n, !.shown = m]
        OBVIOUS
      <4>3. chat[Text(a)] \in Copies
        BY <1>3
      <4> HIDE DEF n, m, e
      <4>4. /\ e \in Copies
            /\ e.typed = n
            /\ e.shown = m
            /\ e.shown = m
        BY <4>1, <4>2, <4>3 DEF Copies
      <4> QED
        BY <4>4 DEF n, m
    <3> HIDE DEF e
    <3>3. /\ chat' \in [Texts -> Copies]
          /\ chat'[Text(a)] = e
          /\ \A t \in Texts : t # Text(a) => chat'[t] = chat[t]
      BY <1>1, <1>3, <3>1, <3>2
    <3>4. \A t \in Texts : /\ chat'[t].shown <= chat'[t].typed
                           /\ chat[t].shown <= chat'[t].shown
      BY <1>3, <1>5, <3>2, <3>3
    <3>5. d.cursor < chat'[Text(a)].shown /\ d.cursor <= chat'[Text(a)].shown
      BY <1>3, <1>5, <2>3, <2>6, <3>2, <3>3
    <3> QED
      BY <1>4, <2>2, <2>3, <2>4, <2>5, <3>3, <3>4, <3>5
  <2>8. CASE outcome = "late"
    <3> DEFINE e == [chat[Text(a)] EXCEPT !.typed = chat[Text(a)].typed + 1,
                                           !.late = chat[Text(a)].late + 1]
    <3>1. chat' = [chat EXCEPT ![Text(a)] = e]
      BY <1>1, <1>3, <2>1, <2>8
    <3>2. /\ e \in Copies
          /\ e.typed = chat[Text(a)].typed + 1
          /\ e.shown = chat[Text(a)].shown
      <4> DEFINE n == chat[Text(a)].typed + 1
                 m == chat[Text(a)].late + 1
      <4>1. n \in Nat /\ m \in Nat
        BY <1>3, <1>5
      <4>2. e = [chat[Text(a)] EXCEPT !.typed = n, !.late = m]
        OBVIOUS
      <4>3. chat[Text(a)] \in Copies
        BY <1>3
      <4> HIDE DEF n, m, e
      <4>4. /\ e \in Copies
            /\ e.typed = n
            /\ e.late = m
            /\ e.shown = chat[Text(a)].shown
        BY <4>1, <4>2, <4>3 DEF Copies
      <4> QED
        BY <4>4 DEF n, m
    <3> HIDE DEF e
    <3>3. /\ chat' \in [Texts -> Copies]
          /\ chat'[Text(a)] = e
          /\ \A t \in Texts : t # Text(a) => chat'[t] = chat[t]
      BY <1>1, <1>3, <3>1, <3>2
    <3>4. \A t \in Texts : /\ chat'[t].shown <= chat'[t].typed
                           /\ chat[t].shown <= chat'[t].shown
      BY <1>3, <1>5, <3>2, <3>3
    <3>5. d.cursor <= chat'[Text(a)].shown
      BY <1>3, <1>5, <2>3, <2>6, <3>2, <3>3
    <3> QED
      BY <1>4, <2>2, <2>3, <2>4, <2>5, <2>8, <3>3, <3>4, <3>5
  <2>9. CASE outcome \notin {"seen", "late"}
    <3>1. UNCHANGED chat
      BY <2>1, <2>9
    <3>2. \A t \in Texts : /\ chat'[t].shown <= chat'[t].typed
                           /\ chat[t].shown <= chat'[t].shown
      BY <1>5, <3>1
    <3>3. chat' \in [Texts -> Copies] /\ d.cursor <= chat'[Text(a)].shown
      BY <1>1, <2>3, <2>6, <3>1
    <3> QED
      BY <1>4, <2>2, <2>3, <2>4, <2>5, <2>9, <3>2, <3>3
  <2> QED
    BY <2>7, <2>8, <2>9
<1>8. CASE Refused(a) \/ Confirms(a) \/ Unconfirmed(a)
  <2>1. CASE \E result \in {"delivered", "blocked", "failed"} :
                /\ Ends(a, result) /\ mishaps' \in Int
                /\ UNCHANGED <<net, chat, forgets, overtaken>>
    BY <1>2, <2>1, EndsFit
  <2>2. CASE /\ drive[a].at = "watching" /\ drive[a].outcome # "blocked"
             /\ Mishap(TRUE)
             /\ drive' = [drive EXCEPT ![a].at = "turn"]
             /\ UNCHANGED <<bubble, net, memo, parked, pump, chat, forgets, overtaken>>
    <3> DEFINE d == [drive[a] EXCEPT !.at = "turn"]
    <3>1. drive' = [drive EXCEPT ![a] = d]
      BY <1>1, <2>2
    <3>2. /\ d \in Drive
          /\ d.at = "turn"
          /\ d.text = Text(a)
          /\ d.cursor = drive[a].cursor
      BY <1>1 DEF Drive, Text
    <3>3. mishaps' \in Int
      BY <1>1, <2>2 DEF Mishap
    <3>4. drive[a].cursor <= chat[Text(a)].shown
      BY <2>2 DEF PromptsFit, ReceiptsFit
    <3>5. \A t \in Texts : chat[t].shown <= chat[t].shown
      BY <1>5
    <3> HIDE DEF d
    <3> QED
      BY <1>1, <1>4, <1>5, <2>2, <3>1, <3>2, <3>3, <3>4, <3>5
  <2>3. mishaps' \in Int
    BY <1>1, <1>8 DEF Refused, Confirms, Unconfirmed, Mishap
  <2> QED
    BY <1>8, <2>1, <2>2, <2>3 DEF Refused, Confirms, Unconfirmed
<1> QED
  BY <1>6, <1>7, <1>8 DEF Drives

\* A request arrives, a memo expires, a late copy surfaces, the relay dies.
LEMMA RelayFits ==
    ASSUME PromptsFit,
           \/ \E b \in Bubbles : Arrives(b) \/ Expires(b)
           \/ \E t \in Texts : Surfaces(t)
           \/ Dies
    PROVE  PromptsFit'
<1>1. /\ drive \in [Drivers -> Drive]
      /\ chat \in [Texts -> Copies]
      /\ parked \in [Texts -> Entry]
      /\ memo \in [Bubbles -> {"none", "delivered", "parked"}]
      /\ bubble \in [Bubbles -> Bubble]
      /\ net \subseteq Bubbles
      /\ mishaps \in Int /\ forgets \in Nat /\ overtaken \in BOOLEAN
      /\ Bubbles \subseteq Drivers /\ Pump \in Drivers /\ Pump \notin Bubbles
  BY PumpIsNoBubble DEF PromptsFit, PromptTypeOK, Drivers
<1>2. Idle \in Drive /\ Idle.at = "idle"
  BY DEF Idle, Drive
<1>3. ASSUME NEW b \in Bubbles, Arrives(b)
      PROVE  PromptsFit'
  <2>1. /\ b \in net
        /\ net' = net \ {b}
        /\ UNCHANGED <<memo, parked, pump, chat, mishaps, forgets, overtaken>>
    BY <1>3 DEF Arrives
  <2>2. CASE UNCHANGED drive
    <3>1. SameTaps
      <4>1. CASE Hears(b, memo[b])
        BY <4>1, AnswersKeepTaps
      <4>2. CASE UNCHANGED bubble
        BY <1>1, <4>2 DEF SameTaps
      <4> QED
        BY <1>3, <4>1, <4>2 DEF Arrives
    <3>2. \A c \in net' : bubble[c].state # "none"
      BY <1>1, <2>1 DEF PromptsFit, TapsFit
    <3> QED
      BY <1>1, <2>1, <2>2, <3>1, <3>2, PhoneStepsFit
  <2>3. CASE ~UNCHANGED drive
    <3> DEFINE d == [Idle EXCEPT !.at = "asked", !.text = bubble[b].text]
    <3>1. /\ memo[b] = "none"
          /\ drive' = [drive EXCEPT ![b] = d]
          /\ UNCHANGED bubble
      BY <1>3, <2>3 DEF Arrives
    <3>2. bubble[b].state # "none" /\ bubble[b].text \in Texts
      BY <2>1 DEF PromptsFit, TapsFit
    <3>3. /\ d \in Drive
          /\ d.at = "asked"
          /\ d.text = bubble[b].text
      BY <3>2 DEF Idle, Drive
    <3> HIDE DEF d
    <3>4. /\ drive' \in [Drivers -> Drive]
          /\ drive'[b] = d
          /\ \A c \in Drivers : c # b => drive'[c] = drive[c]
      BY <1>1, <3>1, <3>3
    <3>5. PromptTypeOK'
      BY <2>1, <3>1, <3>4 DEF PromptsFit, PromptTypeOK
    <3>6. TapsFit'
      BY <1>1, <2>1, <3>1, <3>2, <3>4 DEF PromptsFit, TapsFit, Busy
    <3>7. DrivesFit'
      BY <1>1, <2>1, <3>1, <3>3, <3>4 DEF PromptsFit, DrivesFit, Busy, NextEntry
    <3>8. ReceiptsFit'
      BY <1>1, <2>1, <3>3, <3>4 DEF PromptsFit, ReceiptsFit, Seen, Landed, Text
    <3> QED
      BY <3>5, <3>6, <3>7, <3>8 DEF PromptsFit
  <2> QED
    BY <2>2, <2>3
<1>4. ASSUME NEW b \in Bubbles, Expires(b)
      PROVE  PromptsFit'
  <2>1. /\ memo' = [memo EXCEPT ![b] = "none"]
        /\ mishaps' \in Int /\ forgets' \in Nat
        /\ UNCHANGED <<bubble, net, drive, parked, pump, chat, overtaken>>
    BY <1>1, <1>4 DEF Expires, Forgets, Mishap
  <2>2. /\ memo' \in [Bubbles -> {"none", "delivered", "parked"}]
        /\ \A c \in Bubbles : memo'[c] # "none" => memo[c] # "none"
    BY <1>1, <2>1
  <2>3. PromptTypeOK'
    BY <2>1, <2>2 DEF PromptsFit, PromptTypeOK
  <2>4. TapsFit'
    BY <2>1, <2>2 DEF PromptsFit, TapsFit, Busy
  <2>5. DrivesFit'
    BY <1>1, <2>1, <2>2 DEF PromptsFit, DrivesFit, Busy, NextEntry
  <2>6. ReceiptsFit'
    BY <2>1 DEF PromptsFit, ReceiptsFit, Seen, Landed, Text
  <2> QED
    BY <2>3, <2>4, <2>5, <2>6 DEF PromptsFit
<1>5. ASSUME NEW t \in Texts, Surfaces(t)
      PROVE  PromptsFit'
  <2>1. /\ chat[t].shown < chat[t].typed
        /\ UNCHANGED <<bubble, net, drive, memo, parked, pump, mishaps, forgets, overtaken>>
    BY <1>5 DEF Surfaces
  <2> DEFINE e == [chat[t] EXCEPT !.shown = chat[t].shown + 1]
  <2>2. chat' = [chat EXCEPT ![t] = e]
    BY <1>1, <1>5 DEF Surfaces
  <2>3. /\ e \in Copies
        /\ e.typed = chat[t].typed
        /\ e.shown = chat[t].shown + 1
        /\ e.shown <= e.typed
        /\ e.shown > chat[t].shown
    BY <1>1, <2>1 DEF Copies
  <2> HIDE DEF e
  <2>4. /\ chat' \in [Texts -> Copies]
        /\ chat'[t] = e
        /\ \A u \in Texts : u # t => chat'[u] = chat[u]
    BY <1>1, <2>2, <2>3
  <2>5. PromptTypeOK'
    BY <2>1, <2>4 DEF PromptsFit, PromptTypeOK
  <2>6. TapsFit' /\ DrivesFit'
    BY <2>1 DEF PromptsFit, TapsFit, DrivesFit, Busy, NextEntry
  <2>7. ReceiptsFit'
    <3>1. \A u \in Texts : chat'[u].shown <= chat'[u].typed
      BY <2>3, <2>4 DEF PromptsFit, ReceiptsFit
    <3>2. ASSUME NEW a \in Drivers, drive[a].at \in {"turn", "watching"}
          PROVE  /\ drive[a].cursor <= chat'[drive[a].text].shown
                 /\ Seen(a) => chat'[drive[a].text].shown > drive[a].cursor
      <4>1. drive[a].text \in Texts /\ drive[a].cursor \in Nat
        BY <1>1, <3>2, BusyHasText DEF Busy, Text, Drive
      <4>2. /\ chat[drive[a].text].shown \in Nat
            /\ chat'[drive[a].text].shown \in Nat
            /\ chat'[drive[a].text].shown >= chat[drive[a].text].shown
        BY <1>1, <2>3, <2>4, <4>1 DEF Copies
      <4>3. /\ drive[a].cursor <= chat[drive[a].text].shown
            /\ Seen(a) => chat[drive[a].text].shown > drive[a].cursor
        BY <3>2 DEF PromptsFit, ReceiptsFit, Landed, Text
      <4> QED
        BY <4>1, <4>2, <4>3
    <3> QED
      BY <2>1, <3>1, <3>2 DEF ReceiptsFit, Seen, Landed, Text
  <2> QED
    BY <2>5, <2>6, <2>7 DEF PromptsFit
<1>6. CASE Dies
  <2>1. /\ drive' = [a \in Drivers |-> Idle]
        /\ memo' = [b \in Bubbles |-> "none"]
        /\ pump' = [at |-> "probing", todo |-> <<>>]
        /\ mishaps' \in Int /\ forgets' \in Nat
        /\ UNCHANGED <<bubble, net, chat, overtaken>>
    BY <1>1, <1>6 DEF Dies, Forgets, Mishap
  <2>2. /\ drive' \in [Drivers -> Drive]
        /\ memo' \in [Bubbles -> {"none", "delivered", "parked"}]
        /\ \A a \in Drivers : drive'[a].at = "idle"
        /\ \A b \in Bubbles : memo'[b] = "none"
    BY <1>2, <2>1
  <2>3. parked' \in [Texts -> Entry]
    <3>1. PICK old \in SUBSET Texts :
            parked' = [t \in Texts |-> IF t \in old THEN NoEntry ELSE [parked[t] EXCEPT !.era = 0]]
      BY <1>6 DEF Dies
    <3>2. NoEntry \in Entry
      BY DEF NoEntry, Entry
    <3>3. \A t \in Texts : [parked[t] EXCEPT !.era = 0] \in Entry
      BY <1>1 DEF Entry
    <3> QED
      BY <3>1, <3>2, <3>3
  <2>4. pump' \in [at : {"off", "probing", "walking", "crashed"}, todo : Seq(Texts \X {0, 1})]
    <3>1. <<>> \in Seq(Texts \X {0, 1})
      OBVIOUS
    <3> QED
      BY <2>1, <3>1
  <2>5. PromptTypeOK'
    BY <2>1, <2>2, <2>3, <2>4 DEF PromptsFit, PromptTypeOK
  <2>6. TapsFit' /\ DrivesFit' /\ ReceiptsFit'
    BY <1>1, <2>1, <2>2 DEF PromptsFit, TapsFit, DrivesFit, ReceiptsFit, Busy
  <2> QED
    BY <2>5, <2>6 DEF PromptsFit
<1> QED
  BY <1>3, <1>4, <1>5, <1>6

LEMMA FitStays == PromptsFit /\ [PromptNext]_promptVars => PromptsFit'
<1> SUFFICES ASSUME PromptsFit, [PromptNext]_promptVars
             PROVE  PromptsFit'
  OBVIOUS
<1>1. CASE UNCHANGED promptVars
  BY <1>1 DEF promptVars, PromptsFit, PromptTypeOK, TapsFit, DrivesFit, ReceiptsFit, Busy,
              Seen, Landed, Text, NextEntry
<1>2. CASE Probes \/ Walks \/ Crashes \/ DismissesParked
  BY <1>2, QueueFits
<1>3. CASE Reloads
  <2>1. \E b \in Bubbles : TRUE
    BY <1>3, ReloadsHasTap
  <2> QED
    BY <1>3, <2>1, PhoneFits
<1>4. ASSUME NEW b \in Bubbles, NEW t \in Texts, Sends(b, t) \/ RetriesParked(b, t)
      PROVE  PromptsFit'
  BY <1>4, PostsFit
<1>5. ASSUME NEW b \in Bubbles, Retries(b)
      PROVE  PromptsFit'
  <2>1. bubble[b].text \in Texts
    BY <1>5 DEF Retries, PromptsFit, TapsFit
  <2> QED
    BY <1>5, <2>1, PostsFit
<1>6. ASSUME NEW b \in Bubbles, GivesUp(b) \/ Reconciles(b) \/ DismissesBubble(b)
      PROVE  PromptsFit'
  BY <1>6, PhoneFits
<1>7. CASE \/ \E b \in Bubbles : Arrives(b) \/ Expires(b)
           \/ \E t \in Texts : Surfaces(t)
           \/ Dies
  BY <1>7, RelayFits
<1>8. ASSUME NEW a \in Drivers, Drives(a)
      PROVE  PromptsFit'
  BY <1>8, DeliveriesFit
<1> QED
  BY <1>1, <1>2, <1>3, <1>4, <1>5, <1>6, <1>7, <1>8 DEF PromptNext

-----------------------------------------------------------------------------
(* Every answer is backed. *)

\* A step that shows no new row, answers no tap, starts no delivery and drops no
\* entry.
LEMMA QuietHolds ==
    ASSUME PromptsFit, AnswersHold, UNCHANGED <<since, chat>>,
           \A b \in Bubbles : /\ bubble'[b].text = bubble[b].text
                              /\ bubble'[b].state = "none" <=> bubble[b].state = "none"
                              /\ Due(b)' => Due(b),
           \A a \in Drivers : Looking(a)' => /\ Looking(a)
                                             /\ drive'[a].text = drive[a].text
                                             /\ drive'[a].cursor = drive[a].cursor,
           \A t \in Texts : parked[t].status # "none" => parked'[t].status # "none"
    PROVE  AnswersHold'
<1>1. \A b \in Bubbles : Unheard(b)' => Unheard(b)
  BY DEF Unheard
<1>2. MarksFit'
  <2>1. ASSUME NEW a \in Drivers, NEW b \in Bubbles, Looking(a)', Unheard(b)', Text(a)' = bubble'[b].text
        PROVE  ~Landed(a)'
    <3>1. Looking(a) /\ Unheard(b) /\ Text(a) = bubble[b].text
      BY <1>1, <2>1 DEF Text
    <3>2. ~Landed(a)
      BY <3>1 DEF AnswersHold, MarksFit
    <3> QED
      BY <2>1, <3>2 DEF Landed, Text
  <2>2. since' \in [Bubbles -> {"nothing", "crossed", "row", "letGo"}]
    BY DEF AnswersHold, MarksFit
  <2> QED
    BY <2>1, <2>2 DEF MarksFit
<1>3. ASSUME NEW b \in Bubbles, Unheard(b)', Due(b)'
      PROVE  parked'[bubble'[b].text].status # "none"
  <2>1. Unheard(b) /\ Due(b)
    BY <1>1, <1>3
  <2>2. bubble[b].text \in Texts
    BY <2>1 DEF PromptsFit, TapsFit, Unheard
  <2>3. parked[bubble[b].text].status # "none"
    BY <2>1 DEF AnswersHold, AnswersKept
  <2> QED
    BY <2>2, <2>3
<1> QED
  BY <1>2, <1>3 DEF AnswersHold, AnswersKept

\* A tap that is sent for the first time has no answer, and a delivery of its text
\* that looks at the chat already is noted.
LEMMA PostsHold ==
    ASSUME PromptsFit, AnswersHold, NEW b \in Bubbles, NEW u \in Texts, NEW again,
           Posted(b, u, again), bubble[b].state # "none" => bubble[b].text = u
    PROVE  AnswersHold'
<1>1. /\ bubble \in [Bubbles -> Bubble]
      /\ drive \in [Drivers -> Drive]
      /\ since \in [Bubbles -> {"nothing", "crossed", "row", "letGo"}]
  BY DEF PromptsFit, PromptTypeOK, AnswersHold, MarksFit
<1>2. /\ bubble' = [bubble EXCEPT ![b] = [state |-> "sending", text |-> u, interrupted |-> FALSE,
                                          again |-> again, posts |-> bubble[b].posts + 1]]
      /\ UNCHANGED <<drive, memo, parked, chat>>
  BY DEF Posted
<1>3. /\ bubble'[b].state = "sending"
      /\ bubble'[b].text = u
      /\ \A c \in Bubbles : c # b => bubble'[c] = bubble[c]
  BY <1>1, <1>2
<1>4. CASE bubble[b].state # "none"
  <2>1. UNCHANGED since
    BY <1>4 DEF Posted
  <2>2. \A c \in Bubbles : /\ bubble'[c].text = bubble[c].text
                           /\ bubble'[c].state = "none" <=> bubble[c].state = "none"
                           /\ Due(c)' => Due(c)
    BY <1>2, <1>3, <1>4 DEF Due
  <2> QED
    BY <1>2, <2>1, <2>2, QuietHolds DEF Looking
<1>5. CASE bubble[b].state = "none"
  <2>1. since' = IF Crossed(u) THEN [since EXCEPT ![b] = "crossed"] ELSE since
    BY <1>5 DEF Posted
  <2>2. /\ since' \in [Bubbles -> {"nothing", "crossed", "row", "letGo"}]
        /\ \A c \in Bubbles : c # b => since'[c] = since[c]
        /\ since'[b] = "nothing" => ~Crossed(u)
    BY <1>1, <2>1
  <2>3. memo[b] = "none"
    BY <1>5 DEF PromptsFit, TapsFit
  <2>4. MarksFit'
    <3>1. ASSUME NEW a \in Drivers, NEW c \in Bubbles, Looking(a)', Unheard(c)', Text(a)' = bubble'[c].text
          PROVE  ~Landed(a)'
      <4>1. CASE c = b
        <5>1. drive[a].at \in {"turn", "watching"} /\ drive[a].text = u
          BY <1>2, <1>3, <3>1, <4>1 DEF Looking, Text
        <5>2. Crossed(u)
          BY <5>1 DEF Crossed
        <5> QED
          BY <2>2, <3>1, <4>1, <5>2 DEF Unheard
      <4>2. CASE c # b
        <5>1. Looking(a) /\ Unheard(c) /\ Text(a) = bubble[c].text
          BY <1>2, <1>3, <2>2, <3>1, <4>2 DEF Looking, Unheard, Text
        <5>2. ~Landed(a)
          BY <5>1 DEF AnswersHold, MarksFit
        <5> QED
          BY <1>2, <5>2 DEF Landed, Text
      <4> QED
        BY <4>1, <4>2
    <3> QED
      BY <2>2, <3>1 DEF MarksFit
  <2>5. AnswersKept'
    <3>1. ASSUME NEW c \in Bubbles, Unheard(c)', Due(c)'
          PROVE  parked'[bubble'[c].text].status # "none"
      <4>1. c # b
        BY <1>2, <1>3, <2>3, <3>1 DEF Due
      <4>2. Unheard(c) /\ Due(c) /\ bubble'[c] = bubble[c]
        BY <1>2, <1>3, <2>2, <3>1, <4>1 DEF Unheard, Due
      <4> QED
        BY <1>2, <4>2 DEF AnswersHold, AnswersKept
    <3> QED
      BY <3>1 DEF AnswersKept
  <2> QED
    BY <2>4, <2>5 DEF AnswersHold
<1> QED
  BY <1>4, <1>5

\* A row that comes into sight is noted for every tap of its text.
LEMMA RowsHold ==
    ASSUME PromptsFit, AnswersHold, NEW t \in Texts, RowOf(t),
           UNCHANGED <<bubble, memo, parked>>,
           \A u \in Texts : u # t => chat'[u].shown = chat[u].shown,
           \A a \in Drivers : Looking(a)' => /\ Looking(a)
                                             /\ drive'[a].text = drive[a].text
                                             /\ drive'[a].cursor = drive[a].cursor
    PROVE  AnswersHold'
<1>1. since \in [Bubbles -> {"nothing", "crossed", "row", "letGo"}]
  BY DEF AnswersHold, MarksFit
<1>2. since' = [b \in Bubbles |->
                 IF bubble[b].text = t /\ since[b] = "nothing" THEN "row" ELSE since[b]]
  BY DEF RowOf
<1>3. /\ since' \in [Bubbles -> {"nothing", "crossed", "row", "letGo"}]
      /\ \A b \in Bubbles : since'[b] = "nothing" => since[b] = "nothing" /\ bubble[b].text # t
  BY <1>1, <1>2
<1>4. \A b \in Bubbles : Unheard(b)' => Unheard(b) /\ bubble[b].text # t
  BY <1>3 DEF Unheard
<1>5. ASSUME NEW a \in Drivers, NEW b \in Bubbles, Looking(a)', Unheard(b)', Text(a)' = bubble'[b].text
      PROVE  ~Landed(a)'
  <2>1. Looking(a) /\ Unheard(b) /\ Text(a) = bubble[b].text /\ Text(a) # t
    BY <1>4, <1>5 DEF Text
  <2>2. ~Landed(a)
    BY <2>1 DEF AnswersHold, MarksFit
  <2>3. Text(a) \in Texts
    BY <2>1, BusyHasText DEF Looking, Busy
  <2> QED
    BY <1>5, <2>1, <2>2, <2>3 DEF Landed, Text
<1>6. ASSUME NEW b \in Bubbles, Unheard(b)', Due(b)'
      PROVE  parked'[bubble'[b].text].status # "none"
  <2>1. Unheard(b) /\ Due(b)
    BY <1>4, <1>6 DEF Due
  <2> QED
    BY <2>1 DEF AnswersHold, AnswersKept
<1> QED
  BY <1>3, <1>5, <1>6 DEF AnswersHold, MarksFit, AnswersKept

\* What is let go of is noted for every tap of its text.
LEMMA LettingGoHolds ==
    ASSUME PromptsFit, AnswersHold, NEW ts, LetGo(ts),
           UNCHANGED <<bubble, chat>>,
           \A b \in Bubbles : memo'[b] # "none" => memo[b] # "none",
           \A t \in Texts : parked[t].status # "none" /\ t \notin ts => parked'[t].status # "none",
           \A a \in Drivers : Looking(a)' => Looking(a) /\ drive'[a] = drive[a]
    PROVE  AnswersHold'
<1>1. since \in [Bubbles -> {"nothing", "crossed", "row", "letGo"}]
  BY DEF AnswersHold, MarksFit
<1>2. since' = [b \in Bubbles |-> IF bubble[b].text \in ts THEN "letGo" ELSE since[b]]
  BY DEF LetGo
<1>3. /\ since' \in [Bubbles -> {"nothing", "crossed", "row", "letGo"}]
      /\ \A b \in Bubbles : since'[b] = "nothing" => since[b] = "nothing" /\ bubble[b].text \notin ts
  BY <1>1, <1>2
<1>4. \A b \in Bubbles : Unheard(b)' => Unheard(b) /\ bubble[b].text \notin ts
  BY <1>3 DEF Unheard
<1>5. ASSUME NEW a \in Drivers, NEW b \in Bubbles, Looking(a)', Unheard(b)', Text(a)' = bubble'[b].text
      PROVE  ~Landed(a)'
  <2>1. Looking(a) /\ Unheard(b) /\ Text(a) = bubble[b].text /\ drive'[a] = drive[a]
    BY <1>4, <1>5 DEF Text
  <2>2. ~Landed(a)
    BY <2>1 DEF AnswersHold, MarksFit
  <2> QED
    BY <2>1, <2>2 DEF Landed, Text
<1>6. ASSUME NEW b \in Bubbles, Unheard(b)', Due(b)'
      PROVE  parked'[bubble'[b].text].status # "none"
  <2>1. Unheard(b) /\ Due(b) /\ bubble[b].text \notin ts
    BY <1>4, <1>6 DEF Due
  <2>2. bubble[b].text \in Texts
    BY <2>1 DEF PromptsFit, TapsFit, Unheard
  <2>3. parked[bubble[b].text].status # "none"
    BY <2>1 DEF AnswersHold, AnswersKept
  <2> QED
    BY <2>1, <2>2, <2>3
<1> QED
  BY <1>3, <1>5, <1>6 DEF AnswersHold, MarksFit, AnswersKept

\* A delivery that ends well has a receipt that the taps of its text know of, one
\* that the lock stopped leaves the text parked, and one that fails leaves it with
\* the phone.
LEMMA EndsHold ==
    ASSUME AnswersHold, PromptsFit, NEW a \in Drivers, Busy(a),
           NEW result \in {"delivered", "blocked", "failed"},
           Ends(a, result), UNCHANGED <<chat, since>>,
           result = "delivered" => Looking(a) /\ Landed(a)
    PROVE  AnswersHold'
<1>1. /\ Text(a) \in Texts
      /\ parked \in [Texts -> Entry]
      /\ bubble \in [Bubbles -> Bubble]
      /\ memo \in [Bubbles -> {"none", "delivered", "parked"}]
      /\ drive \in [Drivers -> Drive]
  BY BusyHasText DEF PromptsFit, PromptTypeOK
<1>2. drive' = [drive EXCEPT ![a] = Idle] /\ SameTaps
  BY EndsAre
<1>3. ASSUME NEW c \in Drivers, Looking(c)'
      PROVE  Looking(c) /\ drive'[c] = drive[c]
  BY <1>1, <1>2, <1>3 DEF Looking, Idle
<1>4. \A b \in Bubbles : Unheard(b)' <=> Unheard(b)
  BY <1>2 DEF Unheard, SameTaps
<1>5. \A b \in Bubbles : result = "delivered" /\ Unheard(b) => bubble[b].text # Text(a)
  BY DEF AnswersHold, MarksFit
<1>6. MarksFit'
  <2>1. ASSUME NEW c \in Drivers, NEW b \in Bubbles, Looking(c)', Unheard(b)', Text(c)' = bubble'[b].text
        PROVE  ~Landed(c)'
    <3>1. Looking(c) /\ Unheard(b) /\ Text(c) = bubble[b].text /\ drive'[c] = drive[c]
      BY <1>2, <1>3, <1>4, <2>1 DEF Text, SameTaps
    <3>2. ~Landed(c)
      BY <3>1 DEF AnswersHold, MarksFit
    <3> QED
      BY <3>1, <3>2 DEF Landed, Text
  <2> QED
    BY <2>1 DEF AnswersHold, MarksFit
<1>7. \A t \in Texts : \/ parked[t].status = "none"
                       \/ parked'[t].status # "none"
                       \/ result = "delivered" /\ t = Text(a)
  <2>1. CASE UNCHANGED parked
    BY <2>1
  <2>2. CASE result = "delivered" /\ parked' = Dropped(Text(a))
    BY <1>1, <2>2 DEF Dropped
  <2>3. CASE \E e \in {"waiting", "failed", "none"} : \E n :
               parked' = [parked EXCEPT ![Text(a)] =
                  IF parked[Text(a)].status = "none" THEN parked[Text(a)]
                  ELSE [parked[Text(a)] EXCEPT !.attempts = n,
                          !.status = IF e = "failed" THEN "failed" ELSE parked[Text(a)].status]]
    BY <1>1, <2>3 DEF Entry
  <2>4. CASE Park(Text(a))
    BY <1>1, <2>4 DEF Park
  <2>5. CASE a = Pump
    <3>1. Stepped(result) /\ NextEntry = Text(a)
      BY <2>5 DEF Ends, PromptsFit, DrivesFit, Text
    <3> QED
      BY <3>1, <2>1, <2>2, <2>3 DEF Stepped
  <2>6. CASE a # Pump
    BY <2>1, <2>2, <2>4, <2>6 DEF Ends, Answered, Text
  <2> QED
    BY <2>5, <2>6
<1>8. ASSUME NEW b \in Bubbles, Due(b)'
      PROVE  \/ Due(b)
             \/ Text(a) = bubble[b].text /\ (result = "delivered" \/ parked'[Text(a)].status # "none")
  <2>1. CASE a = Pump
    BY <1>8, <2>1 DEF Ends, Stepped, Due
  <2>2. CASE a \in Bubbles
    <3> DEFINE answer == IF result = "blocked" THEN "parked" ELSE result
    <3>1. a # Pump /\ Text(a) = bubble[a].text
      BY <2>2, PumpIsNoBubble DEF PromptsFit, DrivesFit, Text
    <3>2. /\ Hears(a, answer)
          /\ memo' = [memo EXCEPT ![a] = Kept(answer)]
          /\ result = "blocked" => Park(Text(a))
      BY <3>1 DEF Ends, Answered, Text
    <3>3. CASE b # a
      <4>1. bubble'[b] = bubble[b] /\ memo'[b] = memo[b]
        BY <1>1, <3>2, <3>3 DEF Hears
      <4> QED
        BY <1>8, <4>1 DEF Due
    <3>4. CASE b = a /\ result = "blocked"
      <4>1. parked'[Text(a)].status = "waiting"
        BY <1>1, <3>2, <3>4 DEF Park
      <4> QED
        BY <3>1, <3>4, <4>1
    <3>5. CASE b = a /\ result = "delivered"
      BY <3>1, <3>5
    <3>6. CASE b = a /\ result = "failed"
      <4>1. memo'[b] = "none"
        BY <1>1, <3>2, <3>6 DEF Kept
      <4>2. bubble'[b].state = "purged" => bubble[b].state = "purged"
        BY <1>1, <3>2, <3>6 DEF Hears, Bubble
      <4> QED
        BY <1>8, <4>1, <4>2 DEF Due
    <3> QED
      BY <3>3, <3>4, <3>5, <3>6
  <2> QED
    BY <2>1, <2>2 DEF Drivers
<1>9. ASSUME NEW b \in Bubbles, Unheard(b)', Due(b)'
      PROVE  parked'[bubble'[b].text].status # "none"
  <2>1. Unheard(b) /\ bubble'[b].text = bubble[b].text /\ bubble[b].text \in Texts
    BY <1>2, <1>4, <1>9 DEF SameTaps, PromptsFit, TapsFit, Unheard
  <2>2. result = "delivered" => bubble[b].text # Text(a)
    BY <1>5, <2>1
  <2>3. CASE Due(b)
    <3>1. parked[bubble[b].text].status # "none"
      BY <2>1, <2>3 DEF AnswersHold, AnswersKept
    <3> QED
      BY <1>7, <2>1, <2>2, <3>1
  <2>4. CASE ~Due(b)
    BY <1>8, <1>9, <2>1, <2>2, <2>4
  <2> QED
    BY <2>3, <2>4
<1> QED
  BY <1>6, <1>9 DEF AnswersHold, AnswersKept

LEMMA AnswersStay == PromptsFit /\ AnswersHold /\ [PromptNext]_promptVars => AnswersHold'
<1> SUFFICES ASSUME PromptsFit, AnswersHold, [PromptNext]_promptVars
             PROVE  AnswersHold'
  OBVIOUS
<1>1. /\ bubble \in [Bubbles -> Bubble]
      /\ memo \in [Bubbles -> {"none", "delivered", "parked"}]
      /\ parked \in [Texts -> Entry]
      /\ chat \in [Texts -> Copies]
      /\ drive \in [Drivers -> Drive]
      /\ Pump \in Drivers
  BY DEF PromptsFit, PromptTypeOK, Drivers
<1>2. CASE UNCHANGED promptVars
  BY <1>2, QuietHolds DEF promptVars, Due, Looking
<1>3. CASE Probes \/ Walks \/ Crashes
  <2>1. UNCHANGED <<bubble, memo, parked, chat, since>>
    BY <1>3 DEF Probes, Walks, Crashes
  <2>2. \A a \in Drivers : Looking(a)' => drive'[a] = drive[a]
    <3>1. CASE UNCHANGED drive
      BY <3>1
    <3>2. CASE drive' = [drive EXCEPT ![Pump] = [Idle EXCEPT !.at = "asked", !.text = NextEntry]]
      BY <1>1, <3>2 DEF Looking, Idle
    <3>3. CASE drive' = [drive EXCEPT ![Pump] = Idle]
      BY <1>1, <3>3 DEF Looking, Idle
    <3> QED
      BY <1>3, <3>1, <3>2, <3>3 DEF Probes, Walks, Crashes
  <2> QED
    BY <2>1, <2>2, QuietHolds DEF Due, Looking
<1>4. CASE DismissesParked
  <2>1. LetGo({t \in Texts : parked[t].status # "none"}) /\ UNCHANGED <<bubble, chat, memo, drive>>
    BY <1>4 DEF DismissesParked
  <2> DEFINE gone == {t \in Texts : parked[t].status # "none"}
  <2>2. /\ LetGo(gone)
        /\ \A t \in Texts : parked[t].status # "none" /\ t \notin gone => parked'[t].status # "none"
    BY <2>1
  <2> HIDE DEF gone
  <2> QED
    BY <2>1, <2>2, LettingGoHolds DEF Looking
<1>5. CASE Dies
  <2>1. PICK old \in SUBSET Texts :
          /\ parked' = [t \in Texts |-> IF t \in old THEN NoEntry ELSE [parked[t] EXCEPT !.era = 0]]
          /\ LetGo(old)
    BY <1>5 DEF Dies
  <2>2. UNCHANGED <<bubble, chat>>
    BY <1>5 DEF Dies
  <2>3. \A b \in Bubbles : memo'[b] = "none"
    BY <1>5 DEF Dies
  <2>4. \A a \in Drivers : ~Looking(a)'
    BY <1>5 DEF Dies, Looking, Idle
  <2>5. \A t \in Texts : parked[t].status # "none" /\ t \notin old => parked'[t].status # "none"
    BY <1>1, <2>1 DEF Entry
  <2> QED
    BY <2>1, <2>2, <2>3, <2>4, <2>5, LettingGoHolds
<1>6. ASSUME NEW b \in Bubbles, NEW t \in Texts, Sends(b, t) \/ RetriesParked(b, t)
      PROVE  AnswersHold'
  BY <1>6, PostsHold DEF Sends, RetriesParked
<1>7. ASSUME NEW b \in Bubbles, Retries(b)
      PROVE  AnswersHold'
  <2>1. bubble[b].text \in Texts
    BY <1>7 DEF Retries, PromptsFit, TapsFit
  <2> QED
    BY <1>7, <2>1, PostsHold DEF Retries
<1>8. ASSUME NEW b \in Bubbles, Reloads \/ GivesUp(b) \/ Reconciles(b) \/ DismissesBubble(b)
      PROVE  AnswersHold'
  <2>1. /\ SameTaps
        /\ UNCHANGED <<drive, memo, parked, chat, since>>
    BY <1>8, PhoneFits DEF Reloads, GivesUp, Reconciles, DismissesBubble
  <2>2. ASSUME NEW c \in Bubbles, bubble'[c].state = "purged"
        PROVE  bubble[c].state = "purged"
    <3>1. CASE Reloads
      <4>1. PICK old \in SUBSET {d \in Bubbles : bubble[d].state \in {"sending", "error"}} :
              bubble' = [d \in Bubbles |->
                  CASE d \in old -> Gone(d, "dropped")
                    [] d \notin old /\ bubble[d].state = "sending" ->
                          [bubble[d] EXCEPT !.state = "error", !.interrupted = TRUE]
                    [] OTHER -> bubble[d]]
        BY <3>1 DEF Reloads
      <4>2. bubble[c] \in Bubble
        BY <1>1
      <4>3. CASE c \in old
        <5>1. bubble'[c] = [bubble[c] EXCEPT !.state = "dropped", !.interrupted = FALSE]
          BY <4>1, <4>3 DEF Gone
        <5> QED
          BY <2>2, <4>2, <5>1 DEF Bubble
      <4>4. CASE c \notin old /\ bubble[c].state = "sending"
        <5>1. bubble'[c] = [bubble[c] EXCEPT !.state = "error", !.interrupted = TRUE]
          BY <4>1, <4>4
        <5> QED
          BY <2>2, <4>2, <5>1 DEF Bubble
      <4>5. CASE c \notin old /\ bubble[c].state # "sending"
        <5>1. bubble'[c] = bubble[c]
          BY <4>1, <4>5
        <5> QED
          BY <2>2, <5>1
      <4> QED
        BY <4>3, <4>4, <4>5
    <3>2. CASE GivesUp(b)
      BY <1>1, <2>2, <3>2 DEF GivesUp, Bubble
    <3>3. CASE Reconciles(b) \/ DismissesBubble(b)
      BY <1>1, <2>2, <3>3 DEF Reconciles, DismissesBubble, Bubble, Gone
    <3> QED
      BY <1>8, <3>1, <3>2, <3>3
  <2> QED
    BY <2>1, <2>2, QuietHolds DEF SameTaps, Due, Looking
<1>9. CASE Reloads
  <2>1. \E b \in Bubbles : TRUE
    BY <1>9, ReloadsHasTap
  <2> QED
    BY <1>8, <1>9, <2>1
<1>10. ASSUME NEW b \in Bubbles, Arrives(b)
       PROVE  AnswersHold'
  <2>1. UNCHANGED <<memo, parked, chat, since>>
    BY <1>10 DEF Arrives
  <2>2. \A a \in Drivers : Looking(a)' => drive'[a] = drive[a]
    BY <1>1, <1>10 DEF Arrives, Looking, Idle
  <2>3. CASE memo[b] # "none" /\ Hears(b, memo[b])
    <3>1. SameTaps
      BY <2>3, AnswersKeepTaps
    <3>2. \A c \in Bubbles : c # b => bubble'[c] = bubble[c]
      BY <1>1, <2>3 DEF Hears
    <3>3. \A c \in Bubbles : Due(c)' => Due(c)
      BY <2>1, <2>3, <3>2 DEF Due
    <3> QED
      BY <2>1, <2>2, <3>1, <3>3, QuietHolds DEF SameTaps, Looking
  <2>4. CASE UNCHANGED bubble
    BY <2>1, <2>2, <2>4, QuietHolds DEF Due, Looking
  <2> QED
    BY <1>10, <2>3, <2>4 DEF Arrives
<1>11. ASSUME NEW b \in Bubbles, Expires(b)
       PROVE  AnswersHold'
  <2>1. /\ UNCHANGED <<bubble, drive, parked, chat, since>>
        /\ \A c \in Bubbles : memo'[c] # "none" => memo[c] # "none"
    BY <1>1, <1>11 DEF Expires
  <2> QED
    BY <2>1, QuietHolds DEF Due, Looking
<1>12. ASSUME NEW t \in Texts, Surfaces(t)
       PROVE  AnswersHold'
  <2>1. /\ RowOf(t)
        /\ UNCHANGED <<bubble, drive, memo, parked>>
        /\ \A u \in Texts : u # t => chat'[u].shown = chat[u].shown
    BY <1>1, <1>12 DEF Surfaces
  <2> QED
    BY <2>1, RowsHold DEF Looking
<1>13. ASSUME NEW a \in Drivers, Drives(a)
       PROVE  AnswersHold'
  <2>1. Busy(a) /\ Text(a) \in Texts
    <3>1. Busy(a)
      BY <1>13 DEF Drives, Begins, Refused, Types, Confirms, Unconfirmed, Busy
    <3> QED
      BY <3>1, BusyHasText
  <2>2. CASE Begins(a)
    <3>1. /\ drive' = [drive EXCEPT ![a].at = "turn", ![a].cursor = chat[Text(a)].shown]
          /\ UNCHANGED <<bubble, memo, parked, chat, since>>
      BY <2>2 DEF Begins
    <3> DEFINE n == chat[Text(a)].shown
    <3>2. n \in Nat
      BY <1>1, <2>1 DEF Copies
    <3>3. /\ drive'[a].cursor = n
          /\ drive'[a].text = Text(a)
          /\ \A c \in Drivers : c # a => drive'[c] = drive[c]
      BY <1>1, <3>1 DEF Drive, Text
    <3>4. ASSUME NEW c \in Drivers, NEW b \in Bubbles, Looking(c)', Unheard(b)', Text(c)' = bubble'[b].text
          PROVE  ~Landed(c)'
      <4>1. CASE c = a
        <5>1. chat'[Text(a)'].shown = n /\ drive'[a].cursor = n
          BY <3>1, <3>3 DEF Text
        <5> HIDE DEF n
        <5> QED
          BY <3>2, <4>1, <5>1 DEF Landed
      <4>2. CASE c # a
        <5>1. Looking(c) /\ Unheard(b) /\ Text(c) = bubble[b].text /\ drive'[c] = drive[c]
          BY <3>1, <3>3, <3>4, <4>2 DEF Looking, Unheard, Text
        <5>2. ~Landed(c)
          BY <5>1 DEF AnswersHold, MarksFit
        <5> QED
          BY <3>1, <5>1, <5>2 DEF Landed, Text
      <4> QED
        BY <4>1, <4>2
    <3>5. MarksFit'
      BY <3>1, <3>4 DEF AnswersHold, MarksFit
    <3>6. AnswersKept'
      BY <3>1 DEF AnswersHold, AnswersKept, Unheard, Due
    <3> QED
      BY <3>5, <3>6 DEF AnswersHold
  <2>3. CASE Types(a)
    <3>1. UNCHANGED <<bubble, memo, parked>>
      BY <2>3 DEF Types
    <3>2. PICK outcome \in {"seen", "late", "ran", "blocked"} :
            /\ drive' = [drive EXCEPT ![a].at = "watching", ![a].outcome = outcome]
            /\ outcome = "seen" =>
                chat' = [chat EXCEPT ![Text(a)].typed = @ + 1, ![Text(a)].shown = @ + 1]
            /\ outcome = "late" =>
                chat' = [chat EXCEPT ![Text(a)].typed = @ + 1, ![Text(a)].late = @ + 1]
            /\ outcome \in {"ran", "blocked"} => UNCHANGED chat
      BY <2>3 DEF Types
    <3>3. /\ drive'[a].outcome = outcome
          /\ \A c \in Drivers : Looking(c)' => /\ Looking(c)
                                               /\ drive'[c].text = drive[c].text
                                               /\ drive'[c].cursor = drive[c].cursor
      BY <1>1, <2>3, <3>2 DEF Drive, Looking, Types
    <3>4. CASE outcome = "seen"
      <4>1. RowOf(Text(a))
        BY <2>3, <3>3, <3>4 DEF Types
      <4>2. \A u \in Texts : u # Text(a) => chat'[u].shown = chat[u].shown
        BY <1>1, <3>2, <3>4
      <4> QED
        BY <2>1, <3>1, <3>3, <4>1, <4>2, RowsHold
    <3>5. CASE outcome # "seen"
      <4>1. UNCHANGED since
        BY <2>3, <3>3, <3>5 DEF Types
      <4>2. \A u \in Texts : chat'[u].shown = chat[u].shown
        BY <1>1, <3>2, <3>5 DEF Copies
      <4>3. ASSUME NEW c \in Drivers, NEW b \in Bubbles, Looking(c)', Unheard(b)', Text(c)' = bubble'[b].text
            PROVE  ~Landed(c)'
        <5>1. /\ Looking(c) /\ Unheard(b) /\ Text(c) = bubble[b].text
              /\ drive'[c].text = drive[c].text /\ drive'[c].cursor = drive[c].cursor
          BY <3>1, <3>3, <4>1, <4>3 DEF Unheard, Text
        <5>2. ~Landed(c)
          BY <5>1 DEF AnswersHold, MarksFit
        <5>3. Text(c) \in Texts
          BY <5>1, BusyHasText DEF Looking, Busy
        <5> QED
          BY <4>2, <5>1, <5>2, <5>3 DEF Landed, Text
      <4>4. MarksFit'
        BY <4>1, <4>3 DEF AnswersHold, MarksFit
      <4>5. AnswersKept'
        BY <3>1, <4>1 DEF AnswersHold, AnswersKept, Unheard, Due
      <4> QED
        BY <4>4, <4>5 DEF AnswersHold
    <3> QED
      BY <3>4, <3>5
  <2>4. CASE Confirms(a)
    <3>1. Looking(a) /\ Landed(a) /\ Ends(a, "delivered") /\ UNCHANGED <<chat, since>>
      BY <2>4 DEF Confirms, Looking
    <3> QED
      BY <2>1, <3>1, EndsHold
  <2>5. ASSUME NEW result \in {"blocked", "failed"}, Ends(a, result), UNCHANGED <<chat, since>>
        PROVE  AnswersHold'
    BY <2>1, <2>5, EndsHold
  <2>6. CASE Refused(a)
    BY <2>5, <2>6 DEF Refused
  <2>7. CASE Unconfirmed(a)
    <3>1. UNCHANGED <<chat, since>>
      BY <2>7 DEF Unconfirmed
    <3>2. CASE drive' = [drive EXCEPT ![a].at = "turn"] /\ UNCHANGED <<bubble, memo, parked>>
      <4>1. \A c \in Drivers : Looking(c)' => /\ Looking(c)
                                              /\ drive'[c].text = drive[c].text
                                              /\ drive'[c].cursor = drive[c].cursor
        BY <1>1, <2>7, <3>2 DEF Unconfirmed, Drive, Looking
      <4> QED
        BY <3>1, <3>2, <4>1, QuietHolds DEF Due
    <3> QED
      BY <2>5, <2>7, <3>1, <3>2 DEF Unconfirmed
  <2> QED
    BY <1>13, <2>2, <2>3, <2>4, <2>6, <2>7 DEF Drives
<1> QED
  BY <1>2, <1>3, <1>4, <1>5, <1>6, <1>7, <1>8, <1>9, <1>10, <1>11, <1>12, <1>13 DEF PromptNext

-----------------------------------------------------------------------------
(* Every copy is paid for. *)

LEMMA TapsAreFinite ==
    ASSUME NEW S \in SUBSET Bubbles
    PROVE  IsFiniteSet(S) /\ Cardinality(S) \in Nat
BY PromptAssumption, FS_Subset, FS_CardinalityType

LEMMA MoreTaps ==
    ASSUME NEW S \in SUBSET Bubbles, NEW T \in SUBSET Bubbles, S \subseteq T
    PROVE  Cardinality(S) <= Cardinality(T)
BY TapsAreFinite, FS_Subset

LEMMA OneMoreTap ==
    ASSUME NEW S \in SUBSET Bubbles, NEW T \in SUBSET Bubbles, S \subseteq T,
           NEW b \in T, b \notin S
    PROVE  Cardinality(S) + 1 <= Cardinality(T)
<1>1. /\ IsFiniteSet(S)
      /\ Cardinality(S) \in Nat
      /\ Cardinality(T) \in Nat
  BY TapsAreFinite
<1>2. Cardinality(S \cup {b}) = Cardinality(S) + 1
  BY <1>1, FS_AddElement
<1>3. Cardinality(S \cup {b}) <= Cardinality(T)
  BY MoreTaps
<1> QED
  BY <1>2, <1>3

\* What a text costs by the step, next to what the step pays.
Costs(t) == chat'[t].typed + Open(t)' + Cardinality(Spent(t)) + chat[t].late

Pays(t) == chat[t].typed + Open(t) + Cardinality(Spent(t))' + chat'[t].late

\* More is allowed when there are more taps.
LEMMA MoreIsAllowed ==
    ASSUME NEW f \in Nat, NEW i \in Nat, NEW j \in Nat, i <= j
    PROVE  f * (i + 1) <= f * (j + 1) /\ f * (i + 1) \in Nat /\ f * (j + 1) \in Nat
<1>1. PICK d \in Nat : j = i + d
  BY i + (j - i) = j, j - i \in Nat
<1>2. f * (j + 1) = f * (i + 1) + f * d
  BY <1>1
<1>3. /\ f * d \in Nat
      /\ f * (i + 1) \in Nat
      /\ f * (j + 1) \in Nat
  OBVIOUS
<1> QED
  BY <1>2, <1>3

\* The numbers of a text, and what they are.
Natural(t) ==
    /\ chat[t].typed \in Nat
    /\ chat[t].late \in Nat
    /\ Open(t) \in {0, 1}
    /\ Cardinality(Spent(t)) \in Nat
    /\ Intents(t) \in Nat
    /\ Cardinality(Spent(t)) <= Intents(t)
    /\ forgets \in Nat

LEMMA NumbersAreNatural == PromptsFit => \A t \in Texts : Natural(t)
<1> SUFFICES ASSUME PromptsFit, NEW t \in Texts
             PROVE  Natural(t)
  OBVIOUS
<1>1. chat[t].typed \in Nat /\ chat[t].late \in Nat /\ forgets \in Nat
  BY DEF PromptsFit, PromptTypeOK, Copies
<1>2. Open(t) \in {0, 1}
  BY DEF Open
<1> DEFINE taps == {b \in Bubbles : bubble[b].text = t /\ ~bubble[b].again}
<1>3. Spent(t) \subseteq taps /\ taps \subseteq Bubbles /\ Intents(t) = Cardinality(taps)
  BY DEF Spent, Intents
<1> HIDE DEF taps
<1>4. /\ Cardinality(Spent(t)) \in Nat
      /\ Cardinality(taps) \in Nat
      /\ Cardinality(Spent(t)) <= Cardinality(taps)
  BY <1>3, TapsAreFinite, MoreTaps
<1> QED
  BY <1>1, <1>2, <1>3, <1>4 DEF Natural

LEMMA NumbersStayNatural == PromptsFit' => (\A t \in Texts : Natural(t))'
  BY NumbersAreNatural, PTL

LEMMA PaidStays ==
    ASSUME PromptsFit, PromptsFit', Accounted, forgets' = forgets,
           \A t \in Texts : Intents(t)' >= Intents(t) /\ Costs(t) <= Pays(t)
    PROVE  Accounted'
<1> SUFFICES ASSUME NEW t \in Texts
             PROVE  (chat[t].typed + Open(t) <=
                        Cardinality(Spent(t)) + forgets * (Intents(t) + 1) + chat[t].late)'
  BY DEF Accounted
<1> DEFINE p == chat[t].typed  q == chat'[t].typed
           k == chat[t].late   l == chat'[t].late
           o == Open(t)        u == Open(t)'
           s == Cardinality(Spent(t))  r == Cardinality(Spent(t))'
           i == Intents(t)     j == Intents(t)'
           f == forgets
<1>1. /\ p \in Nat /\ k \in Nat /\ o \in {0, 1} /\ s \in Nat /\ i \in Nat /\ f \in Nat
      /\ q \in Nat /\ l \in Nat /\ u \in {0, 1} /\ r \in Nat /\ j \in Nat
  <2>1. /\ p \in Nat /\ k \in Nat /\ o \in {0, 1} /\ s \in Nat /\ i \in Nat /\ f \in Nat
    BY NumbersAreNatural DEF Natural
  <2>2. /\ q \in Nat /\ l \in Nat /\ u \in {0, 1} /\ r \in Nat /\ j \in Nat
    BY NumbersStayNatural DEF Natural
  <2> QED
    BY <2>1, <2>2
<1>2. p + o <= s + f * (i + 1) + k
  BY DEF Accounted
<1>3. j >= i /\ q + u + s + k <= p + o + r + l
  BY DEF Costs, Pays
<1>4. f * (i + 1) <= f * (j + 1) /\ f * (i + 1) \in Nat /\ f * (j + 1) \in Nat
  <2> HIDE DEF i, j, f
  <2> QED
    BY <1>1, <1>3, MoreIsAllowed
<1>5. q + u <= r + f * (j + 1) + l
  <2> DEFINE x == f * (i + 1)
             y == f * (j + 1)
  <2>1. x <= y /\ x \in Nat /\ y \in Nat /\ p + o <= s + x + k
    BY <1>2, <1>4
  <2> HIDE DEF p, q, k, l, o, u, s, r, i, j, f, x, y
  <2>2. q + u <= r + y + l
    BY <1>1, <1>3, <2>1
  <2> QED
    BY <2>2 DEF y
<1> QED
  BY <1>5

\* Whatever the relay forgets, the taps of a text and its entry may say it again.
LEMMA ForgivenStays ==
    ASSUME PromptsFit, PromptsFit', Accounted, forgets' = forgets + 1, UNCHANGED <<bubble, chat>>
    PROVE  Accounted'
<1> SUFFICES ASSUME NEW t \in Texts
             PROVE  (chat[t].typed + Open(t) <=
                        Cardinality(Spent(t)) + forgets * (Intents(t) + 1) + chat[t].late)'
  BY DEF Accounted
<1> DEFINE p == chat[t].typed  k == chat[t].late
           o == Open(t)        u == Open(t)'
           s == Cardinality(Spent(t))  r == Cardinality(Spent(t))'
           i == Intents(t)
           f == forgets
<1>1. /\ p \in Nat /\ k \in Nat /\ o \in {0, 1} /\ s \in Nat /\ i \in Nat /\ f \in Nat
      /\ s <= i
      /\ u \in {0, 1} /\ r \in Nat
  <2>1. /\ p \in Nat /\ k \in Nat /\ o \in {0, 1} /\ s \in Nat /\ i \in Nat /\ f \in Nat
        /\ s <= i
    BY NumbersAreNatural DEF Natural
  <2>2. u \in {0, 1} /\ r \in Nat
    BY NumbersStayNatural DEF Natural
  <2> QED
    BY <2>1, <2>2
<1>2. p + o <= s + f * (i + 1) + k
  BY DEF Accounted
<1>3. chat'[t].typed = p /\ chat'[t].late = k /\ Intents(t)' = i
  BY DEF Intents
<1>4. p + u <= r + (f + 1) * (i + 1) + k
  <2> DEFINE x == f * (i + 1)
  <2> HIDE DEF p, k, o, u, s, r, i, f
  <2>1. x \in Nat /\ (f + 1) * (i + 1) = x + i + 1
    BY <1>1
  <2>2. p + o <= s + x + k
    BY <1>2
  <2> HIDE DEF x
  <2>3. p + u <= r + (x + i + 1) + k
    BY <1>1, <2>1, <2>2
  <2> QED
    BY <2>1, <2>3
<1> QED
  BY <1>3, <1>4

\* No copy is typed, nobody is less spent, and nothing opens.
LEMMA QuietPays ==
    ASSUME NEW t \in Texts, PromptsFit, PromptsFit', SameTaps,
           chat'[t].typed = chat[t].typed, chat'[t].late = chat[t].late,
           \A b \in Bubbles : bubble[b].text = t /\ (memo[b] # "none" \/ Seen(b))
                                => memo'[b] # "none" \/ Seen(b)',
           IsOpen(t)' => IsOpen(t)
    PROVE  Intents(t)' >= Intents(t) /\ Costs(t) <= Pays(t)
<1>1. Spent(t) \subseteq Spent(t)' /\ Spent(t) \subseteq Bubbles /\ Spent(t)' \subseteq Bubbles
  BY DEF Spent, SameTaps
<1>2. Cardinality(Spent(t)) <= Cardinality(Spent(t)')
  BY <1>1, MoreTaps
<1>3. Intents(t)' = Intents(t)
  <2>1. {b \in Bubbles : bubble'[b].text = t /\ ~bubble'[b].again}
            = {b \in Bubbles : bubble[b].text = t /\ ~bubble[b].again}
    BY DEF SameTaps
  <2> QED
    BY <2>1 DEF Intents
<1>4. Open(t)' <= Open(t)
  BY DEF Open
<1>5. /\ chat[t].typed \in Nat /\ chat[t].late \in Nat /\ Open(t) \in {0, 1}
      /\ Cardinality(Spent(t)) \in Nat /\ Intents(t) \in Nat
  BY NumbersAreNatural DEF Natural
<1>6. Open(t)' \in {0, 1} /\ Cardinality(Spent(t))' \in Nat
  BY NumbersStayNatural DEF Natural
<1> HIDE DEF Open, Spent, Intents
<1> QED
  BY <1>2, <1>3, <1>4, <1>5, <1>6 DEF Costs, Pays

\* A step that leaves the deliveries, the entries and the answers alone.
LEMMA PhonePays ==
    ASSUME NEW t \in Texts, PromptsFit, PromptsFit', SameTaps,
           UNCHANGED <<drive, memo, parked, pump, chat>>,
           \A b \in Bubbles : Unsettled(b)' => Unsettled(b)
    PROVE  Intents(t)' >= Intents(t) /\ Costs(t) <= Pays(t)
<1>1. EntryIsOpen(t)' => EntryIsOpen(t)
  BY DEF EntryIsOpen, Seen, SameTaps
<1>2. HandIsOpen(t)' => HandIsOpen(t)
  BY DEF HandIsOpen, Pending, Seen, Busy, SameTaps
<1>3. IsOpen(t)' => IsOpen(t)
  BY <1>1, <1>2 DEF IsOpen
<1> QED
  BY <1>3, QuietPays DEF Seen

\* A tap is sent: it pays for the copy it may become, or is that of the entry.
LEMMA PostsPay ==
    ASSUME NEW t \in Texts, PromptsFit, PromptsFit', NEW b \in Bubbles, NEW u \in Texts,
           NEW again \in BOOLEAN, Posted(b, u, again), ~overtaken',
           \/ bubble[b].state = "error" /\ u = bubble[b].text /\ again = bubble[b].again
           \/ bubble[b].state = "none" /\ again = FALSE
           \/ again = TRUE /\ RetriesParked(b, u)
    PROVE  Intents(t)' >= Intents(t) /\ Costs(t) <= Pays(t)
<1> DEFINE sent == [state |-> "sending", text |-> u, interrupted |-> FALSE,
                    again |-> again, posts |-> bubble[b].posts + 1]
<1>1. /\ bubble \in [Bubbles -> Bubble]
      /\ bubble' = [bubble EXCEPT ![b] = sent]
      /\ net' = net \cup {b}
      /\ UNCHANGED <<drive, memo, parked, pump, chat, mishaps, forgets>>
      /\ again => ~(drive[Pump].at # "idle" /\ drive[Pump].text = u)
  BY DEF Posted, PromptsFit, PromptTypeOK
<1>2. /\ bubble'[b].state = "sending"
      /\ bubble'[b].text = u
      /\ bubble'[b].again = again
      /\ \A c \in Bubbles : c # b => bubble'[c] = bubble[c]
  BY <1>1
<1>3. bubble' \in [Bubbles -> Bubble]
  BY DEF PromptsFit, PromptTypeOK
<1>4. CASE bubble[b].state # "none"
  <2>1. u = bubble[b].text /\ again = bubble[b].again
    BY <1>4 DEF RetriesParked, PromptsFit, TapsFit
  <2>2. SameTaps
    BY <1>2, <1>3, <1>4, <2>1 DEF SameTaps
  <2>3. EntryIsOpen(t)' => EntryIsOpen(t)
    BY <1>1, <2>2 DEF EntryIsOpen, Seen, SameTaps
  <2>4. IsOpen(t)' => IsOpen(t)
    <3>1. CASE bubble[b].state = "error"
      <4>1. \A c \in Bubbles : Unsettled(c)' => Unsettled(c)
        BY <1>1, <1>2, <3>1 DEF Unsettled
      <4>2. HandIsOpen(t)' => HandIsOpen(t)
        BY <1>1, <2>2, <4>1 DEF HandIsOpen, Pending, Seen, Busy, SameTaps
      <4> QED
        BY <2>3, <4>2 DEF IsOpen
    <3>2. CASE again = TRUE /\ RetriesParked(b, u) /\ t = u
      <4>1. bubble[b].again /\ bubble[b].text = t /\ parked[t].status # "none"
        BY <2>1, <3>2 DEF RetriesParked
      <4>2. \A c \in Bubbles : bubble[c].again /\ bubble[c].text = t => c = b
        BY <4>1 DEF PromptsFit, TapsFit
      <4>3. ~Seen(Pump) \/ drive[Pump].text # t
        BY <1>1, <3>2 DEF Seen
      <4>4. CASE Seen(b)
        <5>1. ~EntryIsOpen(t)'
          BY <1>1, <2>2, <4>1, <4>4 DEF EntryIsOpen, Seen, SameTaps
        <5>2. ~HandIsOpen(t)'
          BY <1>1, <2>2, <4>2, <4>4 DEF HandIsOpen, Pending, Seen, SameTaps
        <5> QED
          BY <5>1, <5>2 DEF IsOpen
      <4>5. CASE ~Seen(b)
        <5>1. EntryIsOpen(t)
          BY <4>1, <4>2, <4>3, <4>5 DEF EntryIsOpen
        <5> QED
          BY <5>1 DEF IsOpen
      <4> QED
        BY <4>4, <4>5
    <3>3. CASE t # u
      <4>1. HandIsOpen(t)' => HandIsOpen(t)
        BY <1>1, <1>2, <3>3 DEF HandIsOpen, Pending, Seen, Busy, Unsettled
      <4> QED
        BY <2>3, <4>1 DEF IsOpen
    <3> QED
      BY <1>4, <3>1, <3>2, <3>3
  <2> QED
    BY <1>1, <2>2, <2>4, QuietPays DEF Seen
<1>5. CASE bubble[b].state = "none"
  <2>1. /\ memo[b] = "none"
        /\ ~Busy(b)
        /\ ~Seen(b)
        /\ bubble[b].text = 0
        /\ ~bubble[b].again
        /\ b \notin net
    BY <1>5 DEF PromptsFit, TapsFit, Seen, Busy
  <2>2. t # 0
    BY PromptAssumption
  <2>3. Spent(t)' = Spent(t)
    BY <1>1, <1>2, <2>1, <2>2 DEF Spent, Seen
  <2> DEFINE taps == {c \in Bubbles : bubble[c].text = t /\ ~bubble[c].again}
             more == {c \in Bubbles : bubble'[c].text = t /\ ~bubble'[c].again}
  <2>4. Intents(t)' >= Intents(t)
    <3>1. taps \subseteq more /\ more \subseteq Bubbles /\ taps \subseteq Bubbles
      BY <1>2, <2>1, <2>2
    <3>2. Cardinality(taps) <= Cardinality(more)
      BY <3>1, MoreTaps
    <3>3. Cardinality(taps) \in Nat /\ Cardinality(more) \in Nat
      BY <3>1, TapsAreFinite
    <3>4. Intents(t) = Cardinality(taps) /\ Intents(t)' = Cardinality(more)
      BY DEF Intents
    <3> HIDE DEF taps, more
    <3> QED
      BY <3>2, <3>3, <3>4
  <2>5. IsOpen(t)' => IsOpen(t)
    <3>1. CASE ~(again /\ t = u)
      <4>1. EntryIsOpen(t)' => EntryIsOpen(t)
        BY <1>1, <1>2, <2>1, <2>2, <3>1 DEF EntryIsOpen, Seen
      <4>2. HandIsOpen(t)' => HandIsOpen(t)
        BY <1>1, <1>2, <3>1 DEF HandIsOpen, Pending, Seen, Busy, Unsettled
      <4> QED
        BY <4>1, <4>2 DEF IsOpen
    <3>2. CASE again /\ t = u
      <4>1. /\ parked[t].status # "none"
            /\ \A c \in Bubbles : bubble[c].again => bubble[c].text # t
        BY <1>5, <2>1, <3>2 DEF RetriesParked
      <4>2. ~Seen(Pump) \/ drive[Pump].text # t
        BY <1>1, <3>2 DEF Seen
      <4>3. EntryIsOpen(t)
        BY <4>1, <4>2 DEF EntryIsOpen
      <4> QED
        BY <4>3 DEF IsOpen
    <3> QED
      BY <3>1, <3>2
  <2>6. Natural(t)
    BY NumbersAreNatural
  <2>7. Open(t)' \in {0, 1} /\ Open(t)' <= Open(t)
    BY <2>5 DEF Open
  <2> HIDE DEF taps, more
  <2> QED
    BY <1>1, <2>3, <2>4, <2>6, <2>7 DEF Costs, Pays, Natural
<1> QED
  BY <1>4, <1>5

\* A step in which nobody types, stops to watch or is answered.
LEMMA WaitingPays ==
    ASSUME NEW t \in Texts, PromptsFit, PromptsFit', UNCHANGED <<bubble, net, memo, parked, chat>>,
           \A b \in Bubbles : Seen(b)' <=> Seen(b),
           \A b \in Bubbles : Busy(b)' <=> Busy(b),
           ~Seen(Pump) \/ UNCHANGED <<drive[Pump], pump>>
    PROVE  Intents(t)' >= Intents(t) /\ Costs(t) <= Pays(t)
<1>1. SameTaps
  BY DEF SameTaps, PromptsFit, PromptTypeOK
<1>2. EntryIsOpen(t)' => EntryIsOpen(t)
  BY DEF EntryIsOpen, Seen
<1>3. HandIsOpen(t)' => HandIsOpen(t)
  BY DEF HandIsOpen, Pending, Unsettled
<1>4. IsOpen(t)' => IsOpen(t)
  BY <1>2, <1>3 DEF IsOpen
<1> QED
  BY <1>1, <1>4, QuietPays

\* A copy is typed: the tap is spent by it, or the entry, or it stays out of sight.
LEMMA TypesPay ==
    ASSUME NEW t \in Texts, PromptsFit, PromptsFit', NEW a \in Drivers, Types(a), ~overtaken'
    PROVE  Intents(t)' >= Intents(t) /\ Costs(t) <= Pays(t)
<1>1. /\ drive \in [Drivers -> Drive]
      /\ drive[a] \in Drive
      /\ chat \in [Texts -> Copies]
      /\ Bubbles \subseteq Drivers /\ Pump \in Drivers /\ Pump \notin Bubbles
      /\ UNCHANGED <<bubble, net, memo, parked, pump, forgets>>
  BY PumpIsNoBubble DEF PromptsFit, PromptTypeOK, Drivers, Types
<1>2. PICK outcome \in {"seen", "late", "ran", "blocked"} :
            /\ drive' = [drive EXCEPT ![a].at = "watching", ![a].outcome = outcome]
            /\ CASE outcome = "seen" -> chat' = [chat EXCEPT ![Text(a)].typed = @ + 1, ![Text(a)].shown = @ + 1]
                 [] outcome = "late" -> chat' = [chat EXCEPT ![Text(a)].typed = @ + 1, ![Text(a)].late = @ + 1]
                 [] OTHER -> UNCHANGED chat
  BY DEF Types
<1>3. drive[a].at = "turn" /\ Busy(a) /\ Text(a) \in Texts
  <2>1. drive[a].at = "turn" /\ Busy(a)
    BY DEF Types, Busy
  <2> QED
    BY <2>1, BusyHasText
<1>4. /\ drive'[a].at = "watching"
      /\ drive'[a].outcome = outcome
      /\ drive'[a].text = Text(a)
      /\ \A c \in Drivers : c # a => drive'[c] = drive[c]
  BY <1>1, <1>2 DEF Drive, Text
<1>5. \A c \in Drivers : (Seen(c)' <=> (IF c = a THEN outcome = "seen" ELSE Seen(c)))
                          /\ (Busy(c)' <=> Busy(c))
  BY <1>3, <1>4 DEF Seen, Busy
<1>6. ~Seen(a)
  BY <1>3 DEF Seen
<1>7. Natural(t) /\ Natural(t)'
  BY NumbersAreNatural, NumbersStayNatural
<1>8. Intents(t)' = Intents(t)
  BY <1>1 DEF Intents
<1>9. CASE outcome # "seen"
  <2>1. chat'[t].typed - chat[t].typed = chat'[t].late - chat[t].late
    <3>1. CASE outcome = "late"
      <4>1. chat' = [chat EXCEPT ![Text(a)].typed = @ + 1, ![Text(a)].late = @ + 1]
        BY <1>2, <3>1
      <4>2. t # Text(a) => chat'[t] = chat[t]
        BY <1>1, <1>3, <4>1
      <4>3. t = Text(a) => chat'[t].typed = chat[t].typed + 1 /\ chat'[t].late = chat[t].late + 1
        BY <1>1, <1>3, <4>1 DEF Copies
      <4> QED
        BY <1>7, <4>2, <4>3 DEF Natural
    <3>2. CASE outcome # "late"
      BY <1>2, <1>7, <1>9, <3>2 DEF Natural
    <3> QED
      BY <3>1, <3>2
  <2>2. Spent(t)' = Spent(t)
    BY <1>1, <1>5, <1>6, <1>9 DEF Spent
  <2>3. IsOpen(t)' => IsOpen(t)
    <3>1. EntryIsOpen(t)' => EntryIsOpen(t)
      BY <1>1, <1>4, <1>5, <1>6, <1>9 DEF EntryIsOpen
    <3>2. HandIsOpen(t)' => HandIsOpen(t)
      BY <1>1, <1>5, <1>6, <1>9 DEF HandIsOpen, Pending, Unsettled
    <3> QED
      BY <3>1, <3>2 DEF IsOpen
  <2>4. Open(t)' <= Open(t)
    BY <2>3 DEF Open
  <2> QED
    BY <1>7, <1>8, <2>1, <2>2, <2>4 DEF Costs, Pays, Natural
<1>10. CASE outcome = "seen"
  <2>1. chat' = [chat EXCEPT ![Text(a)].typed = @ + 1, ![Text(a)].shown = @ + 1]
    BY <1>2, <1>10
  <2>2. /\ t # Text(a) => chat'[t] = chat[t]
        /\ t = Text(a) => chat'[t].typed = chat[t].typed + 1 /\ chat'[t].late = chat[t].late
    BY <1>1, <1>3, <2>1 DEF Copies
  <2>3. chat' # chat
    <3>1. chat[Text(a)].typed \in Nat
      BY <1>1, <1>3 DEF Copies
    <3>2. chat'[Text(a)].typed = chat[Text(a)].typed + 1
      BY <1>1, <1>3, <2>1 DEF Copies
    <3> QED
      BY <3>1, <3>2
  <2>4. ~Overtaken(a)
    BY <2>3 DEF Types
  <2>5. \A c \in Drivers : c # a /\ Busy(c) => drive[c].text # Text(a)
    BY <2>4 DEF Overtaken, Busy, Text
  <2>6. \A c \in Bubbles : Busy(c) => drive[c].text = bubble[c].text /\ memo[c] = "none"
    BY DEF PromptsFit, DrivesFit
  <2>7. \A c \in Drivers : Seen(c) => Busy(c)
    BY DEF Seen, Busy
  <2>8. CASE t # Text(a)
    <3>1. Spent(t)' = Spent(t)
      BY <1>1, <1>3, <1>5, <2>6, <2>8 DEF Spent, Text
    <3>2. EntryIsOpen(t)' => EntryIsOpen(t)
      BY <1>1, <1>3, <1>4, <1>5, <1>6, <2>6, <2>8 DEF EntryIsOpen, Text
    <3>3. HandIsOpen(t)' => HandIsOpen(t)
      BY <1>1, <1>3, <1>5, <1>6, <2>6, <2>8 DEF HandIsOpen, Pending, Unsettled, Text
    <3>4. Open(t)' <= Open(t)
      BY <3>2, <3>3 DEF Open, IsOpen
    <3> QED
      BY <1>7, <1>8, <2>2, <2>8, <3>1, <3>4 DEF Costs, Pays, Natural
  <2>9. CASE t = Text(a) /\ a = Pump
    <3>1. Spent(t)' = Spent(t)
      BY <1>1, <1>5, <2>9 DEF Spent
    <3>2. StillListed /\ NextEntry = t
      BY <1>3, <2>4, <2>9 DEF Overtaken, PromptsFit, DrivesFit, Text
    <3>3. \A c \in Bubbles : bubble[c].again /\ bubble[c].text = t => ~Unsettled(c) /\ ~Busy(c)
      BY <1>1, <2>4, <2>5, <2>6, <2>9 DEF Overtaken
    <3>4. EntryIsOpen(t)
      BY <1>1, <1>6, <2>7, <2>9, <3>2, <3>3 DEF EntryIsOpen, StillListed
    <3>5. ~EntryIsOpen(t)'
      BY <1>1, <1>4, <1>5, <1>10, <2>9, <3>2 DEF EntryIsOpen, StillListed
    <3>6. ~HandIsOpen(t)'
      BY <1>1, <1>5, <3>3 DEF HandIsOpen, Pending, Unsettled
    <3>7. Open(t) = 1 /\ Open(t)' = 0
      BY <3>4, <3>5, <3>6 DEF Open, IsOpen
    <3> QED
      BY <1>7, <1>8, <2>2, <2>9, <3>1, <3>7 DEF Costs, Pays, Natural
  <2>10. CASE t = Text(a) /\ a \in Bubbles /\ bubble[a].again
    <3>1. bubble[a].text = t /\ memo[a] = "none"
      BY <1>3, <2>6, <2>10 DEF Text
    <3>2. Spent(t)' = Spent(t)
      BY <1>1, <1>5, <2>10 DEF Spent
    <3>3. HandIsOpen(t)
      BY <1>3, <1>6, <2>10, <3>1 DEF HandIsOpen, Pending
    <3>4. \A c \in Bubbles : bubble[c].again /\ bubble[c].text = t => c = a
      BY <2>10, <3>1 DEF PromptsFit, TapsFit
    <3>5. ~EntryIsOpen(t)'
      BY <1>1, <1>5, <1>10, <2>10, <3>1 DEF EntryIsOpen
    <3>6. ~HandIsOpen(t)'
      BY <1>1, <1>5, <1>10, <3>4 DEF HandIsOpen, Pending
    <3>7. Open(t) = 1 /\ Open(t)' = 0
      BY <3>3, <3>5, <3>6 DEF Open, IsOpen
    <3> QED
      BY <1>7, <1>8, <2>2, <2>10, <3>2, <3>7 DEF Costs, Pays, Natural
  <2>11. CASE t = Text(a) /\ a \in Bubbles /\ ~bubble[a].again
    <3>1. bubble[a].text = t /\ memo[a] = "none"
      BY <1>3, <2>6, <2>11 DEF Text
    <3>2. Spent(t) \subseteq Spent(t)' /\ a \in Spent(t)' /\ a \notin Spent(t)
      BY <1>1, <1>5, <1>6, <1>10, <2>11, <3>1 DEF Spent
    <3>3. Spent(t) \subseteq Bubbles /\ Spent(t)' \subseteq Bubbles
      BY DEF Spent
    <3>4. Cardinality(Spent(t)) + 1 <= Cardinality(Spent(t)')
      BY <3>2, <3>3, OneMoreTap
    <3>5. EntryIsOpen(t)' => EntryIsOpen(t)
      BY <1>1, <1>4, <1>5, <2>11 DEF EntryIsOpen
    <3>6. HandIsOpen(t)' => HandIsOpen(t)
      BY <1>1, <1>5, <2>11 DEF HandIsOpen, Pending, Unsettled
    <3>7. Open(t)' <= Open(t)
      BY <3>5, <3>6 DEF Open, IsOpen
    <3> HIDE DEF Open, Spent
    <3> QED
      BY <1>7, <1>8, <2>2, <2>11, <3>4, <3>7 DEF Costs, Pays, Natural
  <2> QED
    BY <2>8, <2>9, <2>10, <2>11 DEF Drivers
<1> QED
  BY <1>9, <1>10

\* The queue steps on: what it typed is not typed again.
LEMMA StepsPay ==
    ASSUME NEW t \in Texts, PromptsFit, PromptsFit', Busy(Pump),
           NEW result \in {"delivered", "blocked", "failed"}, Stepped(result),
           UNCHANGED <<net, chat>>, result # "delivered" => ~Seen(Pump)
    PROVE  Intents(t)' >= Intents(t) /\ Costs(t) <= Pays(t)
<1>1. /\ UNCHANGED <<bubble, memo>>
      /\ drive' = [drive EXCEPT ![Pump] = Idle]
      /\ NextEntry = drive[Pump].text
      /\ drive[Pump].text \in Texts
  BY BusyHasText DEF Stepped, PromptsFit, DrivesFit, Drivers, Text
<1>2. SameTaps
  BY <1>1 DEF SameTaps, PromptsFit, PromptTypeOK
<1>3. \A b \in Bubbles : (Seen(b)' <=> Seen(b)) /\ (Busy(b)' <=> Busy(b))
  BY <1>1, PumpIsNoBubble DEF Seen, Busy, PromptsFit, PromptTypeOK, Drivers
<1>4. /\ parked'[t].status # "none" => parked[t].status # "none"
      /\ \/ t # NextEntry
         \/ parked[t].era # pump.todo[1][2]
         \/ parked'[t].status = "none"
         \/ result # "delivered"
  <2>1. parked \in [Texts -> Entry]
    BY DEF PromptsFit, PromptTypeOK
  <2>2. CASE parked[NextEntry].era # pump.todo[1][2] \/ result = "blocked"
    <3>1. CASE result = "blocked"
      <4>1. UNCHANGED parked
        BY <3>1, SMTT(60) DEF Stepped
      <4> QED
        BY <3>1, <4>1
    <3>2. CASE parked[NextEntry].era # pump.todo[1][2]
      <4>1. UNCHANGED parked
        BY <3>2, SMTT(60) DEF Stepped
      <4> QED
        BY <3>2, <4>1
    <3> QED
      BY <2>2, <3>1, <3>2
  <2>3. CASE parked[NextEntry].era = pump.todo[1][2] /\ result = "delivered"
    <3>1. parked' = Dropped(NextEntry)
      BY <2>3 DEF Stepped
    <3> QED
      BY <1>1, <2>1, <3>1 DEF Dropped
  <2>4. CASE parked[NextEntry].era = pump.todo[1][2] /\ result = "failed"
    <3> DEFINE e == IF parked[NextEntry].status = "none" THEN parked[NextEntry]
                    ELSE [parked[NextEntry] EXCEPT
                            !.attempts = parked[NextEntry].attempts + 1,
                            !.status = IF parked[NextEntry].attempts + 1 >= MAX_ATTEMPTS
                                       THEN "failed" ELSE parked[NextEntry].status]
    <3>1. parked' = [parked EXCEPT ![NextEntry] = e]
      BY <2>4 DEF Stepped
    <3>2. parked[NextEntry].status = "none" => e = parked[NextEntry]
      OBVIOUS
    <3> HIDE DEF e
    <3>3. t # NextEntry => parked'[t] = parked[t]
      BY <1>1, <2>1, <3>1
    <3>4. t = NextEntry => parked'[t] = e
      BY <1>1, <2>1, <3>1
    <3> QED
      BY <2>4, <3>2, <3>3, <3>4
  <2> QED
    BY <2>2, <2>3, <2>4
<1>5. EntryIsOpen(t)' => EntryIsOpen(t)
  BY <1>1, <1>3, <1>4 DEF EntryIsOpen
<1>6. HandIsOpen(t)' => HandIsOpen(t)
  BY <1>1, <1>3 DEF HandIsOpen, Pending, Unsettled
<1>7. IsOpen(t)' => IsOpen(t)
  BY <1>5, <1>6 DEF IsOpen
<1> QED
  BY <1>1, <1>2, <1>3, <1>7, QuietPays

\* A tap is answered: it is spent when its text is typed or parked.
LEMMA AnswersPay ==
    ASSUME NEW t \in Texts, PromptsFit, PromptsFit', NEW a \in Bubbles, Busy(a),
           NEW result \in {"delivered", "blocked", "failed"}, Answered(a, result),
           UNCHANGED <<net, chat>>, result # "delivered" => ~Seen(a)
    PROVE  Intents(t)' >= Intents(t) /\ Costs(t) <= Pays(t)
<1> DEFINE answer == IF result = "blocked" THEN "parked" ELSE result
<1>1. /\ a # Pump
      /\ Pump \in Drivers
      /\ Bubbles \subseteq Drivers
      /\ parked \in [Texts -> Entry]
      /\ memo \in [Bubbles -> {"none", "delivered", "parked"}]
      /\ bubble \in [Bubbles -> Bubble]
      /\ drive \in [Drivers -> Drive]
      /\ memo[a] = "none"
      /\ drive[a].text = bubble[a].text
      /\ bubble[a].text \in Texts
      /\ Pump \notin Bubbles
  BY PumpIsNoBubble DEF PromptsFit, PromptTypeOK, DrivesFit, TapsFit, Drivers, Busy
<1>2. /\ Hears(a, answer)
      /\ drive' = [drive EXCEPT ![a] = Idle]
      /\ memo' = [memo EXCEPT ![a] = Kept(answer)]
      /\ result = "delivered" => parked' = Dropped(bubble[a].text) /\ UNCHANGED pump
      /\ result = "blocked" => Park(bubble[a].text)
      /\ result = "failed" => UNCHANGED <<parked, pump>>
  BY <1>1 DEF Answered
<1>3. SameTaps
  BY <1>2, AnswersKeepTaps
<1>4. \A c \in Bubbles : c # a => bubble'[c] = bubble[c] /\ memo'[c] = memo[c]
  BY <1>1, <1>2 DEF Hears
<1>5. /\ \A c \in Drivers : c # a => drive'[c] = drive[c]
      /\ drive'[a].at = "idle"
      /\ ~Seen(a)'
  BY <1>1, <1>2 DEF Idle, Seen
<1>6. /\ result = "failed" => memo'[a] = "none"
      /\ result # "failed" => memo'[a] # "none"
  BY <1>1, <1>2 DEF Kept
<1>7. pump'.todo = pump.todo
  <2>1. pump \in [at : {"off", "probing", "walking", "crashed"}, todo : Seq(Texts \X {0, 1})]
    BY DEF PromptsFit, PromptTypeOK
  <2>2. StartPump.todo = pump.todo
    BY <2>1 DEF StartPump
  <2> QED
    BY <1>2, <2>2 DEF Park
<1>8. /\ result = "delivered" => parked'[bubble[a].text].status = "none"
      /\ t # bubble[a].text => parked'[t] = parked[t]
      /\ result = "failed" => parked'[t] = parked[t]
  <2>1. CASE result = "delivered"
    <3>1. parked' = [parked EXCEPT ![bubble[a].text] =
                        [parked[bubble[a].text] EXCEPT !.status = "none", !.attempts = 0]]
      BY <1>2, <2>1 DEF Dropped
    <3>2. [parked[bubble[a].text] EXCEPT !.status = "none", !.attempts = 0].status = "none"
      BY <1>1 DEF Entry
    <3> QED
      BY <1>1, <2>1, <3>1, <3>2
  <2>2. CASE result = "blocked"
    BY <1>1, <1>2, <2>2 DEF Park
  <2>3. CASE result = "failed"
    BY <1>2, <2>3
  <2> QED
    BY <2>1, <2>2, <2>3
<1>9. /\ \A c \in Drivers : c # a => (Seen(c)' <=> Seen(c)) /\ (Busy(c)' <=> Busy(c))
      /\ \A c \in Bubbles : c # a => (Unsettled(c)' <=> Unsettled(c))
  BY <1>4, <1>5 DEF Seen, Busy, Unsettled
<1>10. \A c \in Bubbles : c # a => (Pending(c)' <=> Pending(c))
  BY <1>1, <1>4, <1>9 DEF Pending
<1>11. bubble[a].again => \A c \in Bubbles : bubble[c].again /\ bubble[c].text = bubble[a].text => c = a
  BY DEF PromptsFit, TapsFit
<1>12. CASE result = "blocked" /\ ~bubble[a].again /\ t = bubble[a].text
  <2>1. Spent(t) \subseteq Spent(t)' /\ a \in Spent(t)' /\ a \notin Spent(t)
    BY <1>1, <1>3, <1>4, <1>6, <1>9, <1>12 DEF Spent, SameTaps
  <2>2. Spent(t) \subseteq Bubbles /\ Spent(t)' \subseteq Bubbles
    BY DEF Spent
  <2>3. Cardinality(Spent(t)) + 1 <= Cardinality(Spent(t)')
    BY <2>1, <2>2, OneMoreTap
  <2>4. Natural(t) /\ Natural(t)'
    BY NumbersAreNatural, NumbersStayNatural
  <2>5. Intents(t)' = Intents(t)
    <3>1. {b \in Bubbles : bubble'[b].text = t /\ ~bubble'[b].again}
              = {b \in Bubbles : bubble[b].text = t /\ ~bubble[b].again}
      BY <1>3 DEF SameTaps
    <3> QED
      BY <3>1 DEF Intents
  <2> HIDE DEF Open, Spent, Intents
  <2> QED
    BY <2>3, <2>4, <2>5 DEF Costs, Pays, Natural
<1>13. CASE ~(result = "blocked" /\ ~bubble[a].again /\ t = bubble[a].text)
  <2>1. \A b \in Bubbles : bubble[b].text = t /\ (memo[b] # "none" \/ Seen(b))
                                => memo'[b] # "none" \/ Seen(b)'
    BY <1>1, <1>4, <1>6, <1>9
  <2>2. CASE t # bubble[a].text
    <3>1. EntryIsOpen(t)' => EntryIsOpen(t)
      BY <1>1, <1>3, <1>5, <1>7, <1>8, <1>9, <2>2 DEF EntryIsOpen, SameTaps
    <3>2. HandIsOpen(t)' => HandIsOpen(t)
      BY <1>3, <1>10, <2>2 DEF HandIsOpen, SameTaps
    <3> QED
      BY <1>2, <1>3, <2>1, <3>1, <3>2, QuietPays DEF IsOpen
  <2>3. CASE t = bubble[a].text /\ bubble[a].again /\ result # "delivered"
    <3>1. Pending(a)
      BY <1>1, <2>3 DEF Pending
    <3>2. HandIsOpen(t)
      BY <2>3, <3>1 DEF HandIsOpen
    <3> QED
      BY <1>2, <1>3, <2>1, <3>2, QuietPays DEF IsOpen
  <2>4. CASE t = bubble[a].text /\ bubble[a].again /\ result = "delivered"
    <3>1. ~EntryIsOpen(t)'
      BY <1>8, <2>4 DEF EntryIsOpen
    <3>2. ~HandIsOpen(t)'
      BY <1>3, <1>6, <1>11, <2>4 DEF HandIsOpen, Pending, SameTaps
    <3> QED
      BY <1>2, <1>3, <2>1, <3>1, <3>2, QuietPays DEF IsOpen
  <2>5. CASE t = bubble[a].text /\ ~bubble[a].again
    <3>1. EntryIsOpen(t)' => EntryIsOpen(t)
      BY <1>1, <1>3, <1>5, <1>7, <1>8, <1>9, <1>13, <2>5 DEF EntryIsOpen, SameTaps
    <3>2. HandIsOpen(t)' => HandIsOpen(t)
      BY <1>3, <1>10, <2>5 DEF HandIsOpen, SameTaps
    <3> QED
      BY <1>2, <1>3, <2>1, <3>1, <3>2, QuietPays DEF IsOpen
  <2> QED
    BY <2>2, <2>3, <2>4, <2>5
<1> QED
  BY <1>12, <1>13

LEMMA EndsPay ==
    ASSUME NEW t \in Texts, PromptsFit, PromptsFit', NEW a \in Drivers, Busy(a),
           NEW result \in {"delivered", "blocked", "failed"}, Ends(a, result),
           UNCHANGED <<net, chat>>, result # "delivered" => ~Seen(a)
    PROVE  Intents(t)' >= Intents(t) /\ Costs(t) <= Pays(t)
<1>1. CASE a = Pump
  BY <1>1, StepsPay DEF Ends
<1>2. CASE a \in Bubbles
  BY <1>2, AnswersPay, PumpIsNoBubble DEF Ends
<1> QED
  BY <1>1, <1>2 DEF Drivers

LEMMA DeliveriesPay ==
    ASSUME NEW t \in Texts, PromptsFit, PromptsFit', NEW a \in Drivers, Drives(a), ~overtaken'
    PROVE  Intents(t)' >= Intents(t) /\ Costs(t) <= Pays(t)
<1>1. /\ Busy(a)
      /\ drive \in [Drivers -> Drive]
      /\ Bubbles \subseteq Drivers /\ Pump \in Drivers
      /\ Seen(a) => drive[a].at = "watching" /\ Landed(a)
  BY DEF Drives, Begins, Refused, Types, Confirms, Unconfirmed, Busy, PromptsFit, PromptTypeOK,
         ReceiptsFit, Seen, Drivers
<1>2. CASE Types(a)
  BY <1>2, TypesPay
<1>3. ASSUME NEW d, drive' = [drive EXCEPT ![a] = d], d.at # "watching", d.at # "idle", ~Seen(a),
             UNCHANGED <<bubble, net, memo, parked, pump, chat>>
      PROVE  Intents(t)' >= Intents(t) /\ Costs(t) <= Pays(t)
  <2>1. /\ drive'[a] = d
        /\ \A c \in Drivers : c # a => drive'[c] = drive[c]
    BY <1>1, <1>3
  <2>2. \A c \in Drivers : (Seen(c)' <=> Seen(c)) /\ (Busy(c)' <=> Busy(c))
    BY <1>1, <1>3, <2>1 DEF Seen, Busy
  <2>3. ~Seen(Pump) \/ UNCHANGED <<drive[Pump], pump>>
    BY <1>1, <1>3, <2>1
  <2> QED
    BY <1>1, <1>3, <2>2, <2>3, WaitingPays
<1>4. CASE Begins(a)
  <2>1. drive' = [drive EXCEPT ![a] = [drive[a] EXCEPT !.at = "turn", !.cursor = chat[Text(a)].shown]]
    BY <1>1, <1>4 DEF Begins
  <2>2. [drive[a] EXCEPT !.at = "turn", !.cursor = chat[Text(a)].shown].at = "turn"
    BY <1>1 DEF Drive
  <2> QED
    BY <1>1, <1>3, <1>4, <2>1, <2>2 DEF Begins
<1>5. CASE Refused(a)
  BY <1>1, <1>5, EndsPay DEF Refused
<1>6. CASE Confirms(a)
  BY <1>1, <1>6, EndsPay DEF Confirms
<1>7. CASE Unconfirmed(a)
  <2>1. ~Seen(a)
    BY <1>1, <1>7 DEF Unconfirmed
  <2>2. CASE \E result \in {"blocked", "failed"} : Ends(a, result) /\ UNCHANGED <<net, chat>>
    BY <1>1, <2>1, <2>2, EndsPay
  <2>3. CASE /\ drive' = [drive EXCEPT ![a].at = "turn"]
             /\ UNCHANGED <<bubble, net, memo, parked, pump, chat>>
    <3>1. drive' = [drive EXCEPT ![a] = [drive[a] EXCEPT !.at = "turn"]]
      BY <1>1, <2>3
    <3>2. [drive[a] EXCEPT !.at = "turn"].at = "turn"
      BY <1>1 DEF Drive
    <3> QED
      BY <1>3, <2>1, <2>3, <3>1, <3>2
  <2> QED
    BY <1>7, <2>2, <2>3 DEF Unconfirmed
<1> QED
  BY <1>2, <1>4, <1>5, <1>6, <1>7 DEF Drives

LEMMA AccountsStay ==
    PromptsFit /\ (overtaken \/ Accounted) /\ [PromptNext]_promptVars => overtaken' \/ Accounted'
<1> SUFFICES ASSUME PromptsFit, overtaken \/ Accounted, [PromptNext]_promptVars, ~overtaken'
             PROVE  Accounted'
  OBVIOUS
<1>1. /\ PromptsFit'
      /\ bubble \in [Bubbles -> Bubble]
      /\ memo \in [Bubbles -> {"none", "delivered", "parked"}]
      /\ parked \in [Texts -> Entry]
      /\ chat \in [Texts -> Copies]
      /\ drive \in [Drivers -> Drive]
      /\ net \subseteq Bubbles
  BY FitStays DEF PromptsFit, PromptTypeOK
<1>2. ~overtaken
  BY DEF PromptNext, promptVars, Sends, Retries, RetriesParked, Posted, Reloads, DismissesParked,
         Probes, Walks, Crashes, Dies, GivesUp, Reconciles, DismissesBubble, Arrives, Expires,
         Drives, Begins, Refused, Types, Confirms, Unconfirmed, Surfaces
<1>3. Accounted
  BY <1>2
<1>4. ASSUME forgets' = forgets,
             \A t \in Texts : Intents(t)' >= Intents(t) /\ Costs(t) <= Pays(t)
      PROVE  Accounted'
  BY <1>1, <1>3, <1>4, PaidStays
<1>5. CASE UNCHANGED promptVars \/ Probes \/ Walks
  <2>1. /\ UNCHANGED <<bubble, net, memo, parked, chat, forgets>>
        /\ \A b \in Bubbles : (Seen(b)' <=> Seen(b)) /\ (Busy(b)' <=> Busy(b))
    BY <1>1, <1>5, PumpIsNoBubble DEF promptVars, Probes, Walks, Seen, Busy, Drivers
  <2>2. ~Seen(Pump) \/ UNCHANGED <<drive[Pump], pump>>
    BY <1>5 DEF promptVars, Probes, Walks, Seen, PromptsFit, DrivesFit, Busy
  <2> QED
    BY <1>1, <1>4, <2>1, <2>2, WaitingPays
<1>6. CASE Crashes \/ Dies \/ \E b \in Bubbles : Expires(b)
  BY <1>1, <1>3, <1>6, ForgivenStays DEF Crashes, Dies, Expires, Forgets
<1>7. CASE DismissesParked
  <2>1. UNCHANGED <<bubble, net, drive, memo, pump, forgets>>
    BY <1>7 DEF DismissesParked
  <2>2. SameTaps
    BY <1>1, <2>1 DEF SameTaps
  <2>3. ASSUME NEW t \in Texts
        PROVE  Intents(t)' >= Intents(t) /\ Costs(t) <= Pays(t)
    <3>1. parked'[t].status = "none"
      BY <1>1, <1>7 DEF DismissesParked, Entry
    <3>2. chat'[t].typed = chat[t].typed /\ chat'[t].late = chat[t].late
      BY <1>1, <1>7 DEF DismissesParked, Copies
    <3>3. IsOpen(t)' => IsOpen(t)
      BY <2>1, <3>1 DEF IsOpen, EntryIsOpen, HandIsOpen, Pending, Seen, Busy, Unsettled
    <3> QED
      BY <1>1, <2>1, <2>2, <3>2, <3>3, QuietPays DEF Seen
  <2> QED
    BY <1>4, <2>1, <2>3
<1>8. ASSUME NEW b \in Bubbles, NEW u \in Texts, Sends(b, u) \/ RetriesParked(b, u)
      PROVE  Accounted'
  <2>1. forgets' = forgets
    BY <1>8 DEF Sends, RetriesParked, Posted
  <2>2. ASSUME NEW t \in Texts
        PROVE  Intents(t)' >= Intents(t) /\ Costs(t) <= Pays(t)
    <3>1. CASE Sends(b, u)
      <4>1. Posted(b, u, FALSE) /\ bubble[b].state = "none"
        BY <3>1 DEF Sends
      <4> QED
        BY <1>1, <4>1, PostsPay
    <3>2. CASE RetriesParked(b, u)
      <4>1. Posted(b, u, TRUE)
        BY <3>2 DEF RetriesParked
      <4> QED
        BY <1>1, <3>2, <4>1, PostsPay
    <3> QED
      BY <1>8, <3>1, <3>2
  <2> QED
    BY <1>4, <2>1, <2>2
<1>9. ASSUME NEW b \in Bubbles, Retries(b)
      PROVE  Accounted'
  <2>1. /\ bubble[b].state = "error"
        /\ Posted(b, bubble[b].text, bubble[b].again)
        /\ forgets' = forgets
    BY <1>9 DEF Retries, Posted
  <2>2. bubble[b].text \in Texts /\ bubble[b].again \in BOOLEAN
    BY <1>1, <2>1 DEF PromptsFit, TapsFit, Bubble
  <2>3. ASSUME NEW t \in Texts
        PROVE  Intents(t)' >= Intents(t) /\ Costs(t) <= Pays(t)
    BY <1>1, <2>1, <2>2, PostsPay
  <2> QED
    BY <1>4, <2>1, <2>3
<1>10. ASSUME NEW b \in Bubbles, Reloads \/ GivesUp(b) \/ Reconciles(b) \/ DismissesBubble(b)
       PROVE  Accounted'
  <2>1. /\ SameTaps
        /\ UNCHANGED <<drive, memo, parked, pump, chat, forgets>>
    BY <1>10, PhoneFits DEF Reloads, GivesUp, Reconciles, DismissesBubble
  <2>2. \A c \in Bubbles : Unsettled(c)' => Unsettled(c)
    <3>1. CASE Reloads
      BY <1>1, <3>1 DEF Reloads, Unsettled, Bubble
    <3>2. CASE GivesUp(b)
      BY <1>1, <3>2 DEF GivesUp, Unsettled, Bubble
    <3>3. CASE Reconciles(b) \/ DismissesBubble(b)
      BY <1>1, <3>3 DEF Reconciles, DismissesBubble, Unsettled, Bubble
    <3> QED
      BY <1>10, <3>1, <3>2, <3>3
  <2> QED
    BY <1>1, <1>4, <2>1, <2>2, PhonePays
<1>11. ASSUME NEW b \in Bubbles, Arrives(b)
       PROVE  Accounted'
  <2>1. /\ b \in net
        /\ net' = net \ {b}
        /\ UNCHANGED <<memo, parked, pump, chat, forgets>>
    BY <1>11 DEF Arrives
  <2>2. SameTaps /\ \A c \in Bubbles : c # b => bubble'[c] = bubble[c]
    <3>1. CASE Hears(b, memo[b])
      BY <1>1, <3>1, AnswersKeepTaps DEF Hears
    <3>2. CASE UNCHANGED bubble
      BY <1>1, <3>2 DEF SameTaps
    <3> QED
      BY <1>11, <3>1, <3>2 DEF Arrives
  <2>3. /\ \A c \in Drivers : c # b => drive'[c] = drive[c]
        /\ Seen(b)' <=> Seen(b)
    <3>1. CASE UNCHANGED drive
      BY <3>1 DEF Seen
    <3>2. CASE ~Busy(b) /\ drive' = [drive EXCEPT ![b] = [Idle EXCEPT !.at = "asked", !.text = bubble[b].text]]
      BY <1>1, <3>2 DEF Seen, Busy, Idle, Drivers
    <3> QED
      BY <1>11, <3>1, <3>2 DEF Arrives, Joins, InFlight, Busy
  <2>4. \A c \in Drivers : Seen(c)' <=> Seen(c)
    BY <2>3 DEF Seen
  <2>5. \A c \in Bubbles : Pending(c)' => Pending(c)
    <3>1. Pending(b)' => Pending(b)
      BY <2>1, <2>3 DEF Pending, Unsettled
    <3>2. \A c \in Bubbles : c # b => (Pending(c)' => Pending(c))
      BY <2>1, <2>2, <2>3, <2>4 DEF Pending, Unsettled, Busy, Drivers
    <3> QED
      BY <3>1, <3>2
  <2>6. ASSUME NEW t \in Texts
        PROVE  Intents(t)' >= Intents(t) /\ Costs(t) <= Pays(t)
    <3>1. EntryIsOpen(t)' => EntryIsOpen(t)
      BY <2>1, <2>2, <2>3, <2>4, PumpIsNoBubble DEF EntryIsOpen, SameTaps, Drivers
    <3>2. HandIsOpen(t)' => HandIsOpen(t)
      BY <2>2, <2>5 DEF HandIsOpen, SameTaps
    <3> QED
      BY <1>1, <2>1, <2>2, <2>4, <3>1, <3>2, QuietPays DEF IsOpen, Drivers
  <2> QED
    BY <1>4, <2>1, <2>6
<1>12. ASSUME NEW u \in Texts, Surfaces(u)
       PROVE  Accounted'
  <2>1. /\ UNCHANGED <<bubble, net, drive, memo, parked, pump, forgets>>
        /\ \A t \in Texts : chat'[t].typed = chat[t].typed /\ chat'[t].late = chat[t].late
    BY <1>1, <1>12 DEF Surfaces, Copies
  <2>2. SameTaps
    BY <1>1, <2>1 DEF SameTaps
  <2>3. ASSUME NEW t \in Texts
        PROVE  Intents(t)' >= Intents(t) /\ Costs(t) <= Pays(t)
    <3>1. IsOpen(t)' => IsOpen(t)
      BY <2>1 DEF IsOpen, EntryIsOpen, HandIsOpen, Pending, Seen, Busy, Unsettled
    <3> QED
      BY <1>1, <2>1, <2>2, <3>1, QuietPays DEF Seen
  <2> QED
    BY <1>4, <2>1, <2>3
<1>13. ASSUME NEW a \in Drivers, Drives(a)
       PROVE  Accounted'
  <2>1. forgets' = forgets
    BY <1>13 DEF Drives, Begins, Refused, Types, Confirms, Unconfirmed
  <2> QED
    BY <1>1, <1>4, <1>13, <2>1, DeliveriesPay
<1>14. CASE Reloads
  <2>1. \E b \in Bubbles : TRUE
    BY <1>14, ReloadsHasTap
  <2> QED
    BY <1>10, <1>14, <2>1
<1> QED
  BY <1>5, <1>6, <1>7, <1>8, <1>9, <1>10, <1>11, <1>12, <1>13, <1>14 DEF PromptNext

\* The prompts stay in order: phone, relay and queue agree on what is on its way,
\* every answer is backed, and every copy is paid for by a tap.
THEOREM PromptsAreInOrder == PromptSpec => []PromptsInOrder
<1>1. PromptInit => PromptsInOrder
  BY PromptsStart
<1>2. PromptsInOrder /\ [PromptNext]_promptVars => PromptsInOrder'
  BY FitStays, AnswersStay, AccountsStay DEF PromptsInOrder
<1> QED
  BY <1>1, <1>2, PTL DEF PromptSpec

\* A tap says its prompt once, for any number of taps and texts, however often it
\* is asked for, parked, retried by hand and walked: each copy beyond the taps is
\* one that stayed out of sight or that the relay forgot.
THEOREM TapsSayItOnce == PromptSpec => []OnePromptPerTap
<1>1. PromptsInOrder => OnePromptPerTap
  <2> SUFFICES ASSUME PromptsFit, Accounted, NEW t \in Texts
               PROVE  chat[t].typed <= Intents(t) + forgets * (Intents(t) + 1) + chat[t].late
    BY DEF PromptsInOrder, OnePromptPerTap, CopiesAreMeant
  <2>1. Natural(t)
    BY NumbersAreNatural
  <2>2. chat[t].typed + Open(t) <= Cardinality(Spent(t)) + forgets * (Intents(t) + 1) + chat[t].late
    BY DEF Accounted
  <2>3. forgets * (Intents(t) + 1) \in Nat
    BY <2>1, MoreIsAllowed DEF Natural
  <2> HIDE DEF Open, Spent, Intents
  <2> QED
    BY <2>1, <2>2, <2>3 DEF Natural
<1> QED
  BY <1>1, PromptsAreInOrder, PTL

\* A tap whose bubble the relay's answer has taken off the phone has a row of its
\* text that came after it, or is parked, or was let go of where it was parked,
\* unless another delivery of its text was looking at the chat as it was sent.
THEOREM AnswersStayBacked == PromptSpec => []AnswersAreBacked
<1>1. PromptsInOrder => AnswersAreBacked
  BY DEF PromptsInOrder, AnswersHold, MarksFit, AnswersKept, Unheard, Due, AnswersAreBacked
<1> QED
  BY <1>1, PromptsAreInOrder, PTL
=============================================================================
