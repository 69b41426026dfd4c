----------------------------- MODULE DevForwards -----------------------------
(* The forwards of a workspace's dev server                                   *)
(* (src/src/dev-server/controller.ts): a loopback bridge in the relay and a   *)
(* mapping of Tailscale Serve that leads to it. Tailscale keeps the mapping   *)
(* over the death of the relay; a receipt in a file says which it was. Two    *)
(* relays share the file: each reads it once, at its start, and each save     *)
(* writes all that one relay knows. Every command to Tailscale is awaited, may*)
(* fail, and may have been carried out when it fails. One workspace with one  *)
(* target; the numbers of bridges are not used again.                         *)
EXTENDS Integers, Sequences

CONSTANTS Relays,
          Ports,        \* 1..n: where Tailscale can serve the target
          MaxBridges,   \* bridges that are opened
          MaxTaps,      \* Start and Stop, of all phones
          MaxFaults     \* commands that fail and relays that die, together

VARIABLES file,     \* the receipt on disk
          serve,    \* what each port leads to, 0 for nothing
          opened,   \* the relay each bridge was opened by, in order
          open,     \* the bridges that answer
          relay,    \* what each relay remembers: its receipt, its own bridge
          thread,   \* the request a relay works on, and its restore()
          taps, faults

forwardVars == <<file, serve, opened, open, relay, thread, taps, faults>>

Threads == {"tap", "boot"}

NoRecord == [port |-> 0, bridge |-> 0]

\* mine: the receipt it works on; held: the bridge it is to close; port, bridge:
\* what it is about to serve.
Done == [pc |-> "done", mine |-> NoRecord, held |-> 0, port |-> 0, bridge |-> 0,
         failed |-> FALSE, start |-> FALSE]

\* A relay that starts has the receipt of the file and runs restore() beside what
\* the phones ask. mixed: a request came before that was over.
Started(r) ==
    /\ relay' = [relay EXCEPT ![r] = [record |-> file, own |-> 0, mixed |-> FALSE, spoiled |-> FALSE]]
    /\ thread' = [thread EXCEPT ![r] = [t \in Threads |->
                    IF t = "boot" THEN [Done EXCEPT !.pc = "restore", !.mine = file] ELSE Done]]

ForwardInit ==
    /\ file = NoRecord /\ serve = [p \in Ports |-> 0]
    /\ opened = <<>> /\ open = {}
    /\ relay = [r \in Relays |-> [record |-> NoRecord, own |-> 0, mixed |-> FALSE, spoiled |-> FALSE]]
    /\ thread = [r \in Relays |-> [t \in Threads |-> Done]]
    /\ taps = 0 /\ faults = 0

At(r, t, pc) == thread[r][t].pc = pc

Mine(r, t) == thread[r][t].mine

Goes(r, t, pc) == thread' = [thread EXCEPT ![r][t].pc = pc]

Ends(r, t) == thread' = [thread EXCEPT ![r][t] = Done]

\* A request that fails ends; a Start that had the task run first releases what is
\* left.
GivesUp(r) ==
    thread' \in {[thread EXCEPT ![r]["tap"] = Done],
                [thread EXCEPT ![r]["tap"] = [Done EXCEPT !.pc = "release"]]}

Fault == faults < MaxFaults /\ faults' = faults + 1

\* serveProxyAt: the mapping is the one the receipt names.
IsServed(rec) == rec.port # 0 /\ serve[rec.port] = rec.bridge

\* save: the whole of what this relay knows.
Saves(r) == file' = relay'[r].record

Remembers(r, rec, own) ==
    relay' = [relay EXCEPT ![r].record = rec, ![r].own = own]

CanOpen == Len(opened) < MaxBridges

\* createDevProxy
Opens(r) ==
    /\ CanOpen
    /\ opened' = Append(opened, r) /\ open' = open \cup {Len(opened) + 1}

-----------------------------------------------------------------------------
(* Requests, one after the other. *)

\* Start looks at the receipt it has; Stop releases it, once the task is stopped.
Taps(r) ==
    /\ At(r, "tap", "done") /\ taps < MaxTaps /\ taps' = taps + 1
    /\ \E start \in BOOLEAN :
        thread' = [thread EXCEPT ![r]["tap"] =
            [Done EXCEPT !.pc = IF start THEN "look" ELSE "release", !.start = start]]
    /\ relay' = [relay EXCEPT ![r].mixed = @ \/ ~At(r, "boot", "done")]
    /\ UNCHANGED <<file, serve, opened, open, faults>>

\* The receipt is kept when its mapping and its bridge are there; otherwise it is
\* released, and a new one made.
Looks(r) ==
    /\ At(r, "tap", "look")
    /\ LET rec == relay[r].record
       IN  /\ \/ rec = NoRecord /\ Goes(r, "tap", "choose")
              \/ rec # NoRecord /\ IsServed(rec) /\ rec.bridge \in open /\ Ends(r, "tap")
              \/ rec # NoRecord /\ ~(IsServed(rec) /\ rec.bridge \in open) /\ Goes(r, "tap", "release")
           /\ UNCHANGED relay
           /\ file' = IF IsServed(rec) /\ rec.bridge \in open THEN rec ELSE file
    /\ UNCHANGED <<serve, opened, open, taps, faults>>

-----------------------------------------------------------------------------
(* releaseRecord, of a request and of restore(). *)

\* A request without a receipt has nothing to release.
BeginsRelease(r, t) ==
    /\ At(r, t, "release")
    /\ IF t = "tap" /\ relay[r].record = NoRecord
       THEN Ends(r, t)
       ELSE thread' = [thread EXCEPT ![r][t].mine = relay[r].record,
                         ![r][t].held = relay[r].own, ![r][t].pc = "unset"]
    /\ UNCHANGED <<file, serve, opened, open, relay, taps, faults>>

\* serve status: the mapping is switched off only if it is the receipt's.
Checks(r, t) ==
    /\ At(r, t, "unset")
    /\ Goes(r, t, IF IsServed(Mine(r, t)) THEN "off" ELSE "close")
    /\ UNCHANGED <<file, serve, opened, open, relay, taps, faults>>

\* serve off: whatever is there by now.
SwitchesOff(r, t) ==
    /\ At(r, t, "off")
    /\ serve' = [serve EXCEPT ![Mine(r, t).port] = 0]
    /\ Goes(r, t, "close")
    /\ UNCHANGED <<file, opened, open, relay, taps, faults>>

\* Either command fails; switching off may have been done.
FailsToUnset(r, t) ==
    /\ thread[r][t].pc \in {"unset", "off"} /\ Mine(r, t) # NoRecord /\ Fault
    /\ thread' = [thread EXCEPT ![r][t].failed = TRUE, ![r][t].pc = "close"]
    /\ \/ UNCHANGED serve
       \/ At(r, t, "off") /\ serve' = [serve EXCEPT ![Mine(r, t).port] = 0]
    /\ UNCHANGED <<file, opened, open, relay, taps>>

\* The bridge it had is closed either way; the receipt is kept for the next start
\* if its mapping may still be there. Start goes on when it is gone.
Closes(r, t) ==
    /\ At(r, t, "close")
    /\ open' = open \ {thread[r][t].held}
    /\ Remembers(r, IF thread[r][t].failed THEN relay[r].record ELSE NoRecord, 0)
    /\ Saves(r)
    /\ CASE thread[r][t].start /\ ~thread[r][t].failed ->
            thread' = [thread EXCEPT ![r][t] = [Done EXCEPT !.pc = "choose", !.start = TRUE]]
         [] thread[r][t].start /\ thread[r][t].failed -> GivesUp(r)
         [] OTHER -> Ends(r, t)
    /\ UNCHANGED <<serve, opened, taps, faults>>

-----------------------------------------------------------------------------
(* A new forward. *)

\* serve status fails, or the task does not listen: nothing was made.
FailsToAsk(r) ==
    /\ thread[r]["tap"].pc \in {"look", "choose"} /\ Fault
    /\ GivesUp(r)
    /\ UNCHANGED <<file, serve, opened, open, relay, taps>>

\* The first port Tailscale serves nothing on, and a bridge; without one of them
\* the request fails.
Chooses(r) ==
    /\ At(r, "tap", "choose")
    /\ LET free == {p \in Ports : serve[p] = 0}
       IN  IF free = {}
           THEN GivesUp(r) /\ UNCHANGED <<opened, open>>
           ELSE /\ Opens(r)
                /\ \E p \in free :
                     /\ \A q \in free : p <= q
                     /\ thread' = [thread EXCEPT ![r]["tap"].pc = "serve",
                            ![r]["tap"].bridge = Len(opened) + 1, ![r]["tap"].port = p]
    /\ UNCHANGED <<file, serve, relay, taps, faults>>

\* tailscale serve
Serves(r, t) ==
    /\ At(r, t, "serve")
    /\ serve' = [serve EXCEPT ![thread[r][t].port] = thread[r][t].bridge]
    /\ Goes(r, t, "record")
    /\ UNCHANGED <<file, opened, open, relay, taps, faults>>

\* The receipt is known to the relay, then to the file. A receipt that restore()
\* works on is the one a request has in its hands.
Records(r, t) ==
    /\ At(r, t, "record")
    /\ LET rec == [port |-> thread[r][t].port, bridge |-> thread[r][t].bridge]
       IN  /\ Remembers(r, rec, rec.bridge)
           /\ thread' = [thread EXCEPT ![r] = [u \in Threads |->
                IF u = t THEN Done
                ELSE IF t = "boot" /\ thread[r][u].mine = Mine(r, t)
                     THEN [thread[r][u] EXCEPT !.mine = rec] ELSE thread[r][u]]]
    /\ Saves(r)
    /\ UNCHANGED <<serve, opened, open, taps, faults>>

\* Deviation: the bridge of a failed request is forgotten.
ForgetsBridge(b) == open

\* Before the request fails, its bridge is closed.
WithoutBridge(b) == open \ {b}

\* serve fails in a request, done or not: the mapping is looked for and taken away,
\* which may fail as well, and the bridge is closed.
FailsToServe(r) ==
    /\ At(r, "tap", "serve") /\ Fault
    /\ LET me == thread[r]["tap"]
       IN  /\ serve' \in {serve, [serve EXCEPT ![me.port] = me.bridge], [serve EXCEPT ![me.port] = 0]}
           /\ open' = WithoutBridge(me.bridge)
    /\ GivesUp(r)
    /\ UNCHANGED <<file, opened, relay, taps>>

-----------------------------------------------------------------------------
(* restore(), beside the requests. *)

\* Its end saves.
EndsRestore(r) == Ends(r, "boot") /\ Saves(r)

\* There is nothing to restore, or another relay's bridge answers.
Skips(r) ==
    /\ At(r, "boot", "restore")
    /\ IF Mine(r, "boot") = NoRecord \/ Mine(r, "boot").bridge \in open
       THEN UNCHANGED relay /\ EndsRestore(r)
       ELSE Goes(r, "boot", "owned") /\ UNCHANGED <<relay, file>>
    /\ UNCHANGED <<serve, opened, open, taps, faults>>

\* The mapping is somebody else's by now: the receipt goes. Or the dev server is
\* closed: it is released. Or a new bridge is opened for the same port.
Restores(r) ==
    /\ At(r, "boot", "owned")
    /\ \/ /\ ~IsServed(Mine(r, "boot"))
          /\ Remembers(r, NoRecord, relay[r].own) /\ EndsRestore(r)
          /\ UNCHANGED <<opened, open>>
       \/ /\ IsServed(Mine(r, "boot"))
          /\ Goes(r, "boot", "release") /\ UNCHANGED <<file, relay, opened, open>>
       \/ /\ IsServed(Mine(r, "boot")) /\ Opens(r)
          /\ thread' = [thread EXCEPT ![r]["boot"].pc = "serve",
                          ![r]["boot"].port = Mine(r, "boot").port,
                          ![r]["boot"].bridge = Len(opened) + 1]
          /\ UNCHANGED <<file, relay>>
    /\ UNCHANGED <<serve, taps, faults>>

\* A command fails: the record is left as it was. After serve, done or not, nothing
\* looks for the mapping and nothing closes the bridge.
FailsToRestore(r) ==
    /\ thread[r]["boot"].pc \in {"owned", "serve"} /\ Fault
    /\ \/ UNCHANGED serve
       \/ At(r, "boot", "serve")
          /\ serve' = [serve EXCEPT ![thread[r]["boot"].port] = thread[r]["boot"].bridge]
    /\ relay' = [relay EXCEPT ![r].spoiled = @ \/ At(r, "boot", "serve")]
    /\ EndsRestore(r)
    /\ UNCHANGED <<opened, open, taps>>

\* A relay dies and is started again: its bridges are closed, Tailscale's mappings
\* stay. A relay that updates itself does the same.
Restarts(r) ==
    /\ Fault
    /\ open' = {b \in open : opened[b] # r}
    /\ Started(r)
    /\ UNCHANGED <<file, serve, opened, taps>>

ForwardNext ==
    \E r \in Relays :
        \/ Taps(r) \/ Looks(r) \/ FailsToAsk(r) \/ Chooses(r) \/ FailsToServe(r)
        \/ Skips(r) \/ Restores(r) \/ FailsToRestore(r) \/ Restarts(r)
        \/ \E t \in Threads :
            \/ BeginsRelease(r, t) \/ Checks(r, t) \/ SwitchesOff(r, t)
            \/ FailsToUnset(r, t) \/ Closes(r, t) \/ Serves(r, t) \/ Records(r, t)

ForwardSpec == ForwardInit /\ [][ForwardNext]_forwardVars

-----------------------------------------------------------------------------
(* Properties.                                                             *)

Tracked(r, b) ==
    \/ relay[r].record.bridge = b
    \/ \E t \in Threads : thread[r][t].bridge = b

\* What nobody has a receipt for leads nowhere: two relays overwrite each other's
\* file, relays die between the mapping and the receipt, and commands fail half
\* done, but a mapping that leads to a bridge that answers is in the memory of the
\* relay that answers, so that its next Stop removes it (the bridge is closed on
\* every failure). Left out is a relay whose restore() was still running when a
\* request came, or had its own command fail.
UntrackedIsInert ==
    \A p \in Ports : serve[p] \in open =>
        LET r == opened[serve[p]]
        IN  relay[r].mixed \/ relay[r].spoiled \/ Tracked(r, serve[p])

\* The same of every relay. The code does not keep it (restore() re-serves the
\* mapping a request has just released, and leaves its bridge open when its own
\* command times out); no run states it.
EveryUntrackedIsInert ==
    \A p \in Ports : serve[p] \in open => Tracked(opened[serve[p]], serve[p])
=============================================================================
