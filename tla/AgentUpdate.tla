----------------------------- MODULE AgentUpdate -----------------------------
(***************************************************************************)
(* How an agent's node is installed and kept up to date: the installer an  *)
(* operator runs, the timer that runs the updater, which runs the same     *)
(* installer from the copy it left behind, and systemd.                    *)
(*                                                                         *)
(*   scripts/install-agent.sh             the installer's steps            *)
(*   cmd/sshhub-agent-update/main.go      main, currentAgentArgs           *)
(*                                                                         *)
(* Releases are numbered in the order of their versions, and the ones here *)
(* carry a valid signature (module HubUpdate has the others).  The unit    *)
(* files are one pair: what the agent is started with (--hub, --hub-pin,   *)
(* --sshd) and the soak period of the timer.  systemd acts on what it has  *)
(* loaded, not on what is on disk.                                         *)
(***************************************************************************)
EXTENDS Naturals

CONSTANTS
    MaxVersion,     \* bound: releases that ever appear
    Bad,            \* versions whose agent does not stay up
    Flags,          \* values of the agent's flags
    MaxFaults,      \* bound: interruptions, reboots, withdrawn releases
    MaxInstalls     \* bound: runs of the installer by hand

Versions == 1..MaxVersion

\* --update-soak: the default, 0, and --no-auto-update.
Soaks == {"day", "zero", "off"}

ASSUME Assumption ==
    /\ MaxVersion \in Nat \ {0}
    /\ Bad \subseteq Versions
    /\ MaxFaults \in Nat
    /\ MaxInstalls \in Nat
    /\ Flags # {}

VARIABLES
    latest,     \* the version the release page calls the latest
    aged,       \* it has been public for a day
    agentBin,   \* the binaries in /usr/local/bin
    updaterBin,
    disk,       \* the unit files
    loaded,     \* the units systemd has loaded
    running,    \* the version of the agent that runs, 0 for none
    job,        \* the two runs of the installer there may be
    wanted,     \* what the last completed run by hand asked for
    muddled,    \* a run by hand was interrupted, or met the timer's
    installs, faults

pageVars == <<latest, aged>>
nodeVars == <<agentBin, updaterBin, disk, loaded, running>>
vars == <<pageVars, nodeVars, job, wanted, muddled, installs, faults>>

Units == [flags : Flags, soak : Soaks]

\* The steps of the installer, each named for what it does next.
Pcs == {"idle", "agent", "unit", "updater", "persist", "timer", "reload", "restart"}

Jobs == {"hand", "timer"}

Job == [pc : Pcs, version : Versions, units : Units]

TypeOK ==
    /\ latest \in Versions
    /\ aged \in BOOLEAN
    /\ agentBin \in Versions
    /\ updaterBin \in Versions
    /\ disk \in Units
    /\ loaded \in Units
    /\ running \in 0..MaxVersion
    /\ job \in [Jobs -> Job]
    /\ wanted \in Units
    /\ muddled \in BOOLEAN
    /\ installs \in Nat
    /\ faults \in Nat

Idle(u) == [pc |-> "idle", version |-> 1, units |-> u]

\* The first release is installed and runs.
Init ==
    /\ latest = 1
    /\ aged = TRUE
    /\ agentBin = 1
    /\ updaterBin = 1
    /\ disk \in {u \in Units : u.soak # "off"}
    /\ loaded = disk
    /\ running = 1
    /\ job = [j \in Jobs |-> Idle(disk)]
    /\ wanted = disk
    /\ muddled = FALSE
    /\ installs = 0
    /\ faults = 0

Active(j) == job[j].pc # "idle"
-----------------------------------------------------------------------------
(***************************************************************************)
(* The release page.                                                       *)
(***************************************************************************)

Publish ==
    /\ latest < MaxVersion
    /\ latest' = latest + 1
    /\ aged' = FALSE
    /\ UNCHANGED <<nodeVars, job, wanted, muddled, installs, faults>>

Age ==
    /\ ~aged
    /\ aged' = TRUE
    /\ UNCHANGED <<latest, nodeVars, job, wanted, muddled, installs, faults>>

\* A release is taken back; the one before it is the latest again.
Withdraw ==
    /\ latest > 1
    /\ faults < MaxFaults
    /\ faults' = faults + 1
    /\ latest' = latest - 1
    /\ aged' = TRUE
    /\ UNCHANGED <<nodeVars, job, wanted, muddled, installs>>
-----------------------------------------------------------------------------
(***************************************************************************)
(* The runs of the installer begin.                                        *)
(***************************************************************************)

Begin(j, v, u) ==
    /\ ~Active(j)
    /\ job' = [job EXCEPT ![j] = [pc |-> "agent", version |-> v, units |-> u]]
    /\ muddled' = (muddled \/ \E k \in Jobs : Active(k))
    /\ UNCHANGED <<pageVars, nodeVars, wanted>>

\* Mutant of IsDue: any other release will do.
IsDue_NotNewer ==
    /\ loaded.soak # "off"
    /\ latest # updaterBin
    /\ loaded.soak = "zero" \/ aged

\* Mutant of IsDue: the updater is a part of the agent.
IsDue_InAgent ==
    /\ running # 0
    /\ loaded.soak # "off"
    /\ latest > updaterBin
    /\ loaded.soak = "zero" \/ aged

\* The updater compares with its own version, and its unit gives the soak.
IsDue ==
    /\ loaded.soak # "off"
    /\ latest > updaterBin
    /\ loaded.soak = "zero" \/ aged

\* Mutant of CarriedOver: the installer's defaults.
CarriedOver_Default == [flags |-> CHOOSE f \in Flags : TRUE, soak |-> "day"]

\* currentAgentArgs: the flags of the loaded unit, and no soak, for which
\* the installer has a default.
CarriedOver == [flags |-> loaded.flags, soak |-> "day"]

TimerFires ==
    /\ IsDue
    /\ Begin("timer", latest, CarriedOver)
    /\ UNCHANGED <<installs, faults>>

InstallByHand(v, u) ==
    /\ v <= latest
    /\ installs < MaxInstalls
    /\ installs' = installs + 1
    /\ Begin("hand", v, u)
    /\ UNCHANGED faults
-----------------------------------------------------------------------------
(***************************************************************************)
(* The installer, once the release is verified.                            *)
(***************************************************************************)

At(j, pc, next) ==
    /\ job[j].pc = pc
    /\ job' = [job EXCEPT ![j].pc = next]
    /\ UNCHANGED <<pageVars, muddled, installs, faults>>

ReplaceAgent(j) ==
    /\ At(j, "agent", "unit")
    /\ agentBin' = job[j].version
    /\ UNCHANGED <<updaterBin, disk, loaded, running, wanted>>

WriteUnit(j) ==
    /\ At(j, "unit", "updater")
    /\ disk' = [disk EXCEPT !.flags = job[j].units.flags]
    /\ UNCHANGED <<agentBin, updaterBin, loaded, running, wanted>>

ReplaceUpdater(j) ==
    /\ At(j, "updater", "persist")
    /\ updaterBin' = job[j].version
    /\ UNCHANGED <<agentBin, disk, loaded, running, wanted>>

\* Mutant of ReplaceBinaries: the updater goes first.
ReplaceBinaries_UpdaterFirst(j) ==
    \/ /\ At(j, "agent", "unit")
       /\ updaterBin' = job[j].version
       /\ UNCHANGED <<agentBin, disk, loaded, running, wanted>>
    \/ WriteUnit(j)
    \/ /\ At(j, "updater", "persist")
       /\ agentBin' = job[j].version
       /\ UNCHANGED <<updaterBin, disk, loaded, running, wanted>>

ReplaceBinaries(j) == ReplaceAgent(j) \/ WriteUnit(j) \/ ReplaceUpdater(j)

\* Mutant of Persist: copying a file onto itself is no error.
Persist_SameFile(j) ==
    /\ At(j, "persist", "timer")
    /\ UNCHANGED <<nodeVars, wanted>>

\* The installer leaves itself and the verifier behind.  Run from there it
\* skips its own copy, but not the verifier's: install refuses to copy a file
\* onto itself, which ends the run.
Persist(j) ==
    /\ At(j, "persist", IF j = "hand" THEN "timer" ELSE "idle")
    /\ UNCHANGED <<nodeVars, wanted>>

\* The timer is written, or stopped at once and removed.
WriteTimer(j) ==
    /\ At(j, "timer", "reload")
    /\ disk' = [disk EXCEPT !.soak = job[j].units.soak]
    /\ loaded' = [loaded EXCEPT !.soak = IF job[j].units.soak = "off" THEN "off" ELSE @]
    /\ UNCHANGED <<agentBin, updaterBin, running, wanted>>

Reload(j) ==
    /\ At(j, "reload", "restart")
    /\ loaded' = disk
    /\ UNCHANGED <<agentBin, updaterBin, disk, running, wanted>>

Restart(j) ==
    /\ At(j, "restart", "idle")
    /\ running' = agentBin
    /\ wanted' = IF j = "hand" THEN job[j].units ELSE wanted
    /\ UNCHANGED <<agentBin, updaterBin, disk, loaded>>

JobStep(j) == ReplaceBinaries(j) \/ Persist(j) \/ WriteTimer(j) \/ Reload(j) \/ Restart(j)
-----------------------------------------------------------------------------
(***************************************************************************)
(* The agent, systemd and the machine.                                     *)
(***************************************************************************)

BadAgentDies ==
    /\ running \in Bad
    /\ running' = 0
    /\ UNCHANGED <<pageVars, agentBin, updaterBin, disk, loaded, job, wanted, muddled>>
    /\ UNCHANGED <<installs, faults>>

\* Restart=always: whatever binary is there by then.
SystemdRestarts ==
    /\ running = 0
    /\ running' = agentBin
    /\ UNCHANGED <<pageVars, agentBin, updaterBin, disk, loaded, job, wanted, muddled>>
    /\ UNCHANGED <<installs, faults>>

\* An error, a signal, or the timer's TimeoutStartSec.
Interrupt(j) ==
    /\ Active(j)
    /\ faults < MaxFaults
    /\ faults' = faults + 1
    /\ job' = [job EXCEPT ![j].pc = "idle"]
    /\ muddled' = (muddled \/ j = "hand")
    /\ UNCHANGED <<pageVars, nodeVars, wanted, installs>>

Reboot ==
    /\ faults < MaxFaults
    /\ faults' = faults + 1
    /\ running' = 0
    /\ loaded' = disk
    /\ muddled' = (muddled \/ Active("hand"))
    /\ job' = [j \in Jobs |-> [job[j] EXCEPT !.pc = "idle"]]
    /\ UNCHANGED <<pageVars, agentBin, updaterBin, disk, wanted, installs>>

Next ==
    \/ Publish \/ Age \/ Withdraw
    \/ TimerFires
    \/ \E v \in Versions, u \in Units : InstallByHand(v, u)
    \/ \E j \in Jobs : JobStep(j) \/ Interrupt(j)
    \/ BadAgentDies \/ SystemdRestarts \/ Reboot

\* The timer fires every six hours, runs go on, days pass, and an agent that
\* does not stay up dies again and is restarted.
Fairness ==
    /\ WF_vars(TimerFires)
    /\ WF_vars(Age)
    /\ \A j \in Jobs : WF_vars(JobStep(j))
    /\ WF_vars(BadAgentDies)
    /\ WF_vars(SystemdRestarts)

Spec == Init /\ [][Next]_vars /\ Fairness
-----------------------------------------------------------------------------
(***************************************************************************)
(* Properties.  Runs by hand that are interrupted, or that the timer's run *)
(* meets, are outside of them: the installer takes no lock.                *)
(***************************************************************************)

\* Automatic updates leave an agent's flags and its soak period as the
\* operator chose them, on disk and for systemd, wherever they are
\* interrupted (currentAgentArgs, "so an update preserves them").
SettingsKept == muddled \/ Active("hand") \/ (disk = wanted /\ loaded = wanted)

\* What the timer installs is newer than the last release that was installed
\* whole, which is the updater's: neither program is ever taken below that,
\* wherever runs are interrupted and whichever releases are withdrawn.  An agent
\* that is ahead of its updater, from a run that was cut short, may be taken
\* back, but no further ("refuses anything not strictly newer").
NeverBackwards ==
    [][~muddled /\ ~Active("hand") =>
          /\ updaterBin' >= updaterBin
          /\ agentBin' >= updaterBin]_vars

\* The timer has something to do, were it not for what is installed.
Waiting == ~muddled /\ loaded.soak # "off" /\ latest >= agentBin

\* However updates are interrupted, the agent on disk ends up the latest one:
\* an updater that is already new would see nothing to do (the installer's
\* order).
CatchesUp == <>[](Waiting => agentBin = latest)

\* An agent that does not stay up is superseded as soon as a release that
\* does is out, by nobody's hand ("even when the agent is crash-looping").
CrashLoopEnds == <>[](Waiting /\ latest \notin Bad => running \notin Bad \cup {0})

\* "a bad agent release can still be superseded without hand-installing on
\* every node": the latest release ends up running.
UpdatesTakeEffect == <>[](Waiting => running = latest)
=============================================================================
