------------------------------ MODULE UiWindow ------------------------------
(***************************************************************************)
(* What the shared UI lease promises, without relays, rows or crashes: the *)
(* one Conductor window is driven by at most one external command at a      *)
(* time, and a command drives it at most once.                              *)
(***************************************************************************)
CONSTANTS Drivers, None

VARIABLES
    driver,    \* the command that drives the window, or None
    finished   \* the commands that will never (again) drive it

Init == driver = None /\ finished = {}

Begin(d) ==
    /\ driver = None /\ d \notin finished
    /\ driver' = d
    /\ UNCHANGED finished

End(d) ==
    /\ driver = d
    /\ driver' = None
    /\ finished' = finished \cup {d}

\* A command that was prepared is given up before it begins.
Discard(d) ==
    /\ driver # d /\ d \notin finished
    /\ finished' = finished \cup {d}
    /\ UNCHANGED driver

Next == \E d \in Drivers : Begin(d) \/ End(d) \/ Discard(d)

Spec == Init /\ [][Next]_<<driver, finished>>
=============================================================================
