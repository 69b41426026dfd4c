------------------------------ MODULE KeepAwake ------------------------------
(* Windows in which the Mac stays awake with its lid closed: the root helper  *)
(* (src/src/host/nosleep-helper.ts), a detached process for each window, and  *)
(* the relay that starts and stops helpers and puts a shut Mac to sleep when  *)
(* one ends (src/src/host/nosleep.ts). A helper reads the power settings,     *)
(* changes them, writes its record and puts back what it read. The settings   *)
(* are one flag here, sleepDisabled. Requests come from several phones and are*)
(* not serialised.                                                            *)
EXTENDS Integers

CONSTANTS MaxWindows,   \* helpers that are started
          MaxStops,     \* requests to let the Mac sleep
          MaxLidMoves,
          MaxSlips      \* failing steps and deaths of the relay, together

ASSUME AwakeAssumption == MaxWindows \in Nat

VARIABLES helper,         \* the process of each window
          sleepDisabled,  \* pmset disablesleep, standby and powernap
          pidfile,        \* the window on record, 0 for none
          due,            \* windows whose time is over
          lid, asleep,    \* the Mac: shut, sleeping
          expiryKey,      \* the window the relay's timer waits for, 0 for none
          ending,         \* the expiry that has found no window and asks for the lid
          disarm,         \* the request that waits for the window's end
          sleepSoon,      \* the relay is to put the Mac to sleep in a moment
          raced,          \* a window was started while another was alive and not on record
          struck,         \* a signal came while a window was putting the settings back
          missed,         \* a slip left the end of a window to nobody
          stops, lidMoves, slips

awakeVars == <<helper, sleepDisabled, pidfile, due, lid, asleep, expiryKey, ending, disarm,
               sleepSoon, raced, struck, missed, stops, lidMoves, slips>>

machine == <<lid, asleep, lidMoves>>
relayVars == <<expiryKey, ending, disarm, sleepSoon, stops>>

Windows == 1..MaxWindows

AwakeInit ==
    /\ helper = [w \in Windows |-> [pc |-> "none", old |-> 0, saved |-> FALSE, term |-> FALSE]]
    /\ sleepDisabled = FALSE /\ pidfile = 0 /\ due = {}
    /\ lid \in BOOLEAN /\ asleep = FALSE
    /\ expiryKey = 0 /\ ending = FALSE /\ disarm = FALSE /\ sleepSoon = FALSE
    /\ raced = FALSE /\ struck = FALSE /\ missed = FALSE /\ stops = 0 /\ lidMoves = 0 /\ slips = 0

Is(w, pc) == helper[w].pc = pc

Alive(w) == ~Is(w, "none") /\ ~Is(w, "dead")

\* armedRecord and armedPid: the window on record, if its process lives.
Armed == IF pidfile # 0 /\ Alive(pidfile) THEN pidfile ELSE 0

\* A successor does not see them.
Unseen == {w \in Windows : Alive(w) /\ pidfile # w}

Slip == slips < MaxSlips /\ slips' = slips + 1

-----------------------------------------------------------------------------
(* The helper. *)

Goes(w, pc) == helper' = [helper EXCEPT ![w].pc = pc]

\* What TERM does to a window: trap 'exit 143'. In the trap for the exit that ends
\* the shell, and what is left of cleanup is not done.
Signalled(w) ==
    IF helper[w].pc \in {"restore", "restored"} THEN [helper[w] EXCEPT !.pc = "cut"]
    ELSE [helper[w] EXCEPT !.term = TRUE]

Strikes(w) == struck' = (struck \/ Is(w, "restore"))

\* It signals the window on record, if there is one, and waits for its end.
Looks(w) ==
    /\ Is(w, "started")
    /\ \/ Armed = 0 /\ Goes(w, "capture") /\ UNCHANGED struck
       \/ /\ Armed # 0 /\ Strikes(Armed)
          /\ helper' = [helper EXCEPT ![w].pc = "waiting", ![w].old = Armed,
                                      ![Armed] = Signalled(Armed)]
    /\ UNCHANGED <<sleepDisabled, pidfile, due, machine, relayVars, raced, missed, slips>>

\* Deviation: it goes on when the wait is over, whether the window has ended or not.
WaitIsOver(w) == TRUE

\* kill -0: the window that was signalled is gone.
IncumbentIsGone(w) == ~Alive(helper[w].old)

Waited(w) ==
    /\ Is(w, "waiting") /\ IncumbentIsGone(w)
    /\ Goes(w, "capture")
    /\ UNCHANGED <<sleepDisabled, pidfile, due, machine, relayVars, raced, struck, missed, slips>>

\* The wait is bounded: it refuses to arm.
Refuses(w) ==
    /\ Is(w, "waiting") /\ Alive(helper[w].old) /\ Slip
    /\ Goes(w, "dead") /\ missed' = TRUE
    /\ UNCHANGED <<sleepDisabled, pidfile, due, machine, relayVars, raced, struck>>

Captures(w) ==
    /\ Is(w, "capture")
    /\ helper' = [helper EXCEPT ![w].pc = "flip", ![w].saved = sleepDisabled]
    /\ UNCHANGED <<sleepDisabled, pidfile, due, machine, relayVars, raced, struck, missed, slips>>

Flips(w) ==
    /\ Is(w, "flip")
    /\ sleepDisabled' = TRUE /\ Goes(w, "record")
    /\ UNCHANGED <<pidfile, due, machine, relayVars, raced, struck, missed, slips>>

\* The lock of the screen could not be blocked: it gives up, and restores.
BacksOut(w) ==
    /\ Is(w, "record") /\ Slip
    /\ Goes(w, "restore") /\ missed' = TRUE
    /\ UNCHANGED <<sleepDisabled, pidfile, due, machine, relayVars, raced, struck>>

Records(w) ==
    /\ Is(w, "record")
    /\ pidfile' = w /\ Goes(w, "armed")
    /\ UNCHANGED <<sleepDisabled, due, machine, relayVars, raced, struck, missed, slips>>


\* Its time is over, or it is told to stop.
IsOver(w) == w \in due \/ helper[w].term

Finishes(w) ==
    /\ Is(w, "armed") /\ IsOver(w)
    /\ Goes(w, "restore")
    /\ UNCHANGED <<sleepDisabled, pidfile, due, machine, relayVars, raced, struck, missed, slips>>

\* cleanup: the settings are put back ...
Restores(w) ==
    /\ Is(w, "restore")
    /\ sleepDisabled' = helper[w].saved /\ Goes(w, "restored")
    /\ UNCHANGED <<pidfile, due, machine, relayVars, raced, struck, missed, slips>>

\* ... and the record goes, if it is still its own.
Clears(w) ==
    /\ Is(w, "restored")
    /\ pidfile' = IF pidfile = w THEN 0 ELSE pidfile
    /\ Goes(w, "dead")
    /\ UNCHANGED <<sleepDisabled, due, machine, relayVars, raced, struck, missed, slips>>

\* A cleanup that was cut short: the rest stays as it is.
Exits(w) ==
    /\ Is(w, "cut") /\ Goes(w, "dead")
    /\ UNCHANGED <<sleepDisabled, pidfile, due, machine, relayVars, raced, struck, missed, slips>>

HelperSteps(w) ==
    \/ Looks(w) \/ Waited(w) \/ Captures(w) \/ Flips(w) \/ Records(w)
    \/ Finishes(w) \/ Restores(w) \/ Clears(w) \/ Exits(w)

-----------------------------------------------------------------------------
(* The relay. *)

\* armNoSleep starts a helper; that it is armed is found by its scans.
Arms(w) ==
    /\ Is(w, "none") /\ \A v \in 1..(w - 1) : ~Is(v, "none")
    /\ Goes(w, "started") /\ raced' = (raced \/ Unseen # {})
    /\ UNCHANGED <<sleepDisabled, pidfile, due, machine, relayVars, struck, missed, slips>>

\* disarmNoSleep: --stop signals the window on record, or removes a stale record.
Stops ==
    /\ ~disarm /\ stops < MaxStops /\ stops' = stops + 1
    /\ disarm' = TRUE
    /\ \/ /\ Armed # 0 /\ Strikes(Armed)
          /\ helper' = [helper EXCEPT ![Armed] = Signalled(Armed)] /\ UNCHANGED pidfile
       \/ Armed = 0 /\ pidfile' = 0 /\ UNCHANGED <<helper, struck>>
    /\ UNCHANGED <<sleepDisabled, due, machine, expiryKey, ending, sleepSoon, raced, missed, slips>>

\* The window is gone: the timer is cancelled, and a shut Mac is put to sleep soon.
Disarmed ==
    /\ disarm /\ Armed = 0
    /\ disarm' = FALSE /\ expiryKey' = 0 /\ sleepSoon' = (sleepSoon \/ lid)
    /\ UNCHANGED <<helper, sleepDisabled, pidfile, due, machine, ending, raced, struck, missed,
                   stops, slips>>

\* It was not gone in time, or another one has taken its place.
StillArmed ==
    /\ disarm /\ Armed # 0 /\ Slip
    /\ disarm' = FALSE /\ missed' = TRUE
    /\ UNCHANGED <<helper, sleepDisabled, pidfile, due, machine, expiryKey, ending, sleepSoon,
                   raced, struck, stops>>

\* A new window may have been armed since.
SleepsSoon ==
    /\ sleepSoon /\ sleepSoon' = FALSE
    /\ asleep' = (Armed = 0)
    /\ UNCHANGED <<helper, sleepDisabled, pidfile, due, lid, expiryKey, ending, disarm,
                   raced, struck, missed, stops, lidMoves, slips>>

\* rescanExpiry: a timer for the window on record, in the place of any other.
Rescans ==
    /\ expiryKey # Armed
    /\ expiryKey' = Armed
    /\ UNCHANGED <<helper, sleepDisabled, pidfile, due, machine, ending, disarm, sleepSoon,
                   raced, struck, missed, stops, slips>>

\* windowExpired, long enough after the time is over for the helper to be gone. A
\* record is that of another window, and not this one's to end.
TimerExpires ==
    /\ expiryKey \in due /\ ~Alive(expiryKey)
    /\ expiryKey' = 0 /\ ending' = (ending \/ Armed = 0)
    /\ UNCHANGED <<helper, sleepDisabled, pidfile, due, machine, disarm, sleepSoon,
                   raced, struck, missed, stops, slips>>

\* The answer to the question for the lid; no second look at the record.
SleepsAtExpiry ==
    /\ ending /\ ending' = FALSE
    /\ asleep' = lid
    /\ UNCHANGED <<helper, sleepDisabled, pidfile, due, lid, expiryKey, disarm, sleepSoon,
                   raced, struck, missed, stops, lidMoves, slips>>

\* It dies, and starts again with no timer; the helpers go on.
RelayRestarts ==
    /\ Slip
    /\ expiryKey' = 0 /\ ending' = FALSE /\ disarm' = FALSE /\ sleepSoon' = FALSE
    /\ missed' = TRUE
    /\ UNCHANGED <<helper, sleepDisabled, pidfile, due, machine, raced, struck, stops>>

-----------------------------------------------------------------------------
(* The Mac. *)

\* A window is longer than the minute between two scans, and they see the one on
\* record.
TimePasses(w) ==
    /\ w \notin due /\ (expiryKey = w \/ (Is(w, "armed") /\ pidfile # w))
    /\ due' = due \cup {w}
    /\ UNCHANGED <<helper, sleepDisabled, pidfile, machine, relayVars, raced, struck, missed, slips>>

\* macOS sleeps when the lid is closed, if it may; it does not look again later.
LidMoves ==
    /\ lidMoves < MaxLidMoves /\ lidMoves' = lidMoves + 1
    /\ lid' = ~lid /\ asleep' = (~lid /\ ~sleepDisabled)
    /\ UNCHANGED <<helper, sleepDisabled, pidfile, due, relayVars, raced, struck, missed, slips>>

\* Nothing runs while it sleeps.
AwakeNext ==
    \/ LidMoves
    \/ /\ ~asleep
       /\ \/ \E w \in Windows : HelperSteps(w) \/ Refuses(w) \/ BacksOut(w) \/ Arms(w) \/ TimePasses(w)
          \/ Stops \/ Disarmed \/ StillArmed \/ SleepsSoon
          \/ Rescans \/ TimerExpires \/ SleepsAtExpiry \/ RelayRestarts

\* The helper's loop, the scans and the timers of the relay, while the Mac is awake.
AwakeFairness ==
    /\ \A w \in Windows : WF_awakeVars(~asleep /\ HelperSteps(w))
    /\ WF_awakeVars(~asleep /\ Disarmed) /\ WF_awakeVars(~asleep /\ SleepsSoon)
    /\ WF_awakeVars(~asleep /\ Rescans) /\ WF_awakeVars(~asleep /\ TimerExpires)
    /\ WF_awakeVars(~asleep /\ SleepsAtExpiry)

AwakeSpec == AwakeInit /\ [][AwakeNext]_awakeVars /\ AwakeFairness

-----------------------------------------------------------------------------
(* Properties *)

\* No helper is between its change of the settings and their restore.
NobodyHolds == \A w \in Windows : helper[w].pc \notin {"record", "armed", "restore", "cut"}

\* When nobody keeps it awake, the Mac may sleep: takeovers, stops, waits that
\* are given up and failing windows all put the settings back as the first window
\* found them. Left out are windows that were started at the same time, and signals
\* to one that is putting the settings back.
SleepIsRestored == NobodyHolds /\ ~raced /\ ~struck => ~sleepDisabled

\* "Exactly one window may be armed", and an arm "waits for its restore to land before
\* capturing" (nosleep-helper.ts): whatever the phones do, the settings are restored.
\* The code does not keep it. A window is on record, for its successor to see, only
\* after it has changed the settings; and it is still on record, for a successor or
\* --stop to signal, while its trap for the exit restores them.
SleepIsAlwaysRestored == NobodyHolds => ~sleepDisabled

\* A window that nobody has ended.
Wanted(w) == Alive(w) /\ w \notin due /\ ~helper[w].term

Excused == asleep \/ ~lid \/ missed \/ \E w \in Windows : Wanted(w)


\* "Awake until 12:30 promises a Mac that sleeps at 12:30" (nosleep.ts). The code
\* does not keep it: a scan between the helper's end and the timer finds no window
\* and cancels the timer.
ExpirySleeps == expiryKey \in due /\ lid ~> Excused
=============================================================================
