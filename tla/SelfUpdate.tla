----------------------------- MODULE SelfUpdate ------------------------------
(* The installed relay keeps itself current (src/src/host/autoupdate.ts): it  *)
(* asks the registry for the latest release, has npm install it over the      *)
(* files it runs from, and exits for launchd to start it again. The files may *)
(* show the installation only after npm has returned, somebody else may swap  *)
(* them at any time, and a successor that starts too early runs the old       *)
(* version. Versions are numbers; 0 stands for files that cannot be read.     *)
EXTENDS Integers

CONSTANTS MaxVersion,   \* releases there will be
          MaxSwaps,     \* installations by hand
          MaxFailures   \* checks or installations that fail

VARIABLES released,   \* the registry's latest
          disk,       \* the version in the installed package.json
          settling,   \* an installation the files do not show yet, 0 without one
          running,    \* the version this process booted as (CURRENT)
          check,      \* runCheck: where it is, and the latest it was told
          restarting, \* an exit is scheduled
          early,      \* no check is due before the first ninety seconds are over
          installed,  \* history: how often the relay installed each release since the last
                      \* installation by hand
          swaps, failures

updateVars == <<released, disk, settling, running, check, restarting, early, installed,
                swaps, failures>>

-----------------------------------------------------------------------------
Idle == [at |-> "idle", latest |-> 0]

UpdateInit ==
    /\ released \in 1..2 /\ disk = 1 /\ running = 1 /\ settling = 0
    /\ check = Idle /\ restarting = FALSE /\ early = TRUE
    /\ installed = [v \in 1..MaxVersion |-> 0]
    /\ swaps = 0 /\ failures = 0

\* Deviation: only what runs counts.
OnlyRunning == running

\* The newer of what runs and what the files say; files that say nothing do not
\* count, a process that could not read them at its start counts as the oldest.
InstalledVersion == IF disk > running THEN disk ELSE running

-----------------------------------------------------------------------------
(* The world. *)

Releases ==
    /\ released < MaxVersion /\ released' = released + 1
    /\ UNCHANGED <<disk, settling, running, check, restarting, early, installed, swaps,
                   failures>>

\* A deploy or an npm run by hand: the files are unreadable for a moment.
Swaps ==
    /\ swaps < MaxSwaps /\ swaps' = swaps + 1
    /\ settling = 0 /\ disk # 0
    /\ \E v \in 1..released : settling' = v
    /\ disk' = 0 /\ installed' = [v \in 1..MaxVersion |-> 0]
    /\ UNCHANGED <<released, running, check, restarting, early, failures>>

\* The files show what was installed.
Settles ==
    /\ settling # 0
    /\ disk' = settling /\ settling' = 0
    /\ UNCHANGED <<released, running, check, restarting, early, installed, swaps, failures>>

-----------------------------------------------------------------------------
(* The relay. *)

\* The timer of the first check, and of each later one.
Ripens ==
    /\ early /\ ~restarting /\ settling = 0
    /\ early' = FALSE
    /\ UNCHANGED <<released, disk, settling, running, check, restarting, installed, swaps,
                   failures>>

\* runCheck asks the registry, unless a check runs or the exit is scheduled.
AsksRegistry ==
    /\ ~early /\ ~restarting /\ check.at = "idle"
    /\ check' = [at |-> "asked", latest |-> released]
    /\ UNCHANGED <<released, disk, settling, running, restarting, early, installed, swaps,
                   failures>>

\* The answer is compared with what is installed, not with what runs.
Judges ==
    /\ check.at = "asked"
    /\ check' = IF check.latest > InstalledVersion
                THEN [check EXCEPT !.at = "installing"] ELSE Idle
    /\ UNCHANGED <<released, disk, settling, running, restarting, early, installed, swaps,
                   failures>>

\* npm resolves the tag again, returns, and its files may lag.
Installs ==
    /\ check.at = "installing" /\ settling = 0
    /\ installed' = [installed EXCEPT ![released] = @ + 1]
    /\ \/ disk' = released /\ UNCHANGED settling
       \/ settling' = released /\ UNCHANGED disk
    /\ check' = [check EXCEPT !.at = "waiting"]
    /\ UNCHANGED <<released, running, restarting, early, swaps, failures>>

\* The files are watched for five seconds: the exit is scheduled when they show
\* the version that was announced, or when the time is up.
Waits ==
    /\ check.at = "waiting"
    /\ restarting' = TRUE /\ check' = Idle
    /\ UNCHANGED <<released, disk, settling, running, early, installed, swaps, failures>>

\* The registry does not answer, or npm fails or takes too long.
CheckFails ==
    /\ check.at \in {"asked", "installing"}
    /\ failures < MaxFailures /\ failures' = failures + 1
    /\ check' = Idle
    /\ UNCHANGED <<released, disk, settling, running, restarting, early, installed, swaps>>

\* restartIfDiskSkewed, once a minute; files that cannot be read are no skew.
NoticesSkew ==
    /\ disk \notin {0, running} /\ ~restarting
    /\ restarting' = TRUE
    /\ UNCHANGED <<released, disk, settling, running, check, early, installed, swaps,
                   failures>>

\* The process exits, whatever its check is at, and launchd starts it again from
\* the files. A package.json that cannot be read makes it version 0.0.0. An npm
\* that was under way may still finish.
Relaunches ==
    /\ restarting
    /\ running' = disk
    /\ check' = Idle /\ restarting' = FALSE /\ early' = TRUE
    /\ \/ UNCHANGED <<settling, installed>>
       \/ /\ check.at = "installing" /\ settling = 0
          /\ settling' = released
          /\ installed' = [installed EXCEPT ![released] = @ + 1]
    /\ UNCHANGED <<released, disk, swaps, failures>>

UpdateNext ==
    \/ Releases \/ Swaps \/ Settles \/ Ripens
    \/ AsksRegistry \/ Judges \/ Installs \/ Waits \/ CheckFails \/ NoticesSkew \/ Relaunches

-----------------------------------------------------------------------------
(* Properties.                                                             *)

\* A release is installed once: a process that was started too early, or by an
\* installation that was not its own, does not install what is on the disk
\* already and restart for it again (installedVersion). And the restarts come to
\* an end, in the last release, on the disk and in the process, whatever was
\* installed by hand in between (restartIfDiskSkewed).
UpdateSettles ==
    /\ [](\A v \in 1..MaxVersion : installed[v] <= 1)
    /\ <>[](running = released /\ disk = released)
=============================================================================
