-------------------------- MODULE AgentUpdateProofs --------------------------
(***************************************************************************)
(* Theorems about the agents' updates, for any releases, settings and      *)
(* interruptions: an operator's settings survive, no update goes back, and *)
(* what each kind of run leaves behind and makes run.                      *)
(***************************************************************************)
EXTENDS AgentUpdate, TLAPS

\* The timer's run ends where it persists itself.
TimerStops == job["timer"].pc \notin {"timer", "reload", "restart"}

\* What a run that nothing interferes with has done so far.
HandProgress ==
    LET h == job["hand"] IN
    /\ h.pc \in {"updater", "persist", "timer", "reload", "restart"} =>
        disk.flags = h.units.flags
    /\ h.pc \in {"reload", "restart"} => disk.soak = h.units.soak
    /\ h.pc = "restart" => loaded = disk

TimerProgress ==
    /\ Active("timer") => job["timer"].units.flags = wanted.flags
    /\ job["timer"].pc = "agent" => job["timer"].version > updaterBin

Undisturbed ==
    /\ ~(Active("hand") /\ Active("timer"))
    /\ HandProgress
    /\ TimerProgress

IInv ==
    /\ TypeOK
    /\ TimerStops
    /\ muddled \/ Undisturbed
    /\ SettingsKept

LEMMA InitHolds == Init => IInv
<1> SUFFICES ASSUME Init PROVE IInv
  OBVIOUS
<1>1. disk \in Units /\ \A j \in Jobs : job[j] = Idle(disk)
  BY DEF Init
<1>2. /\ 1 \in Versions /\ Idle(disk) \in Job
      /\ Idle(disk).pc = "idle"
  BY <1>1, Assumption DEF Versions, Job, Pcs, Idle
<1>3. TypeOK
  <2>1. job \in [Jobs -> Job]
    BY <1>2 DEF Init
  <2>2. running \in 0..MaxVersion
    BY Assumption DEF Init
  <2> QED
    BY <1>1, <1>2, <2>1, <2>2 DEF Init, TypeOK
<1>4. "hand" \in Jobs /\ "timer" \in Jobs
  BY DEF Jobs
<1> QED
  BY <1>1, <1>2, <1>3, <1>4 DEF Init, IInv, TimerStops, Undisturbed, HandProgress,
     TimerProgress, SettingsKept, Active

-----------------------------------------------------------------------------
(***************************************************************************)
(* Each step keeps it.                                                     *)
(***************************************************************************)

LEMMA PageKeeps ==
  ASSUME IInv, Publish \/ Age \/ Withdraw
  PROVE  IInv'
<1>1. UNCHANGED <<nodeVars, job, wanted, muddled, installs>>
  BY DEF Publish, Age, Withdraw
<1>2. latest' \in Versions /\ aged' \in BOOLEAN /\ faults' \in Nat
  <2>1. latest \in Versions /\ faults \in Nat /\ aged \in BOOLEAN /\ MaxVersion \in Nat
    BY Assumption DEF IInv, TypeOK
  <2>2. latest' \in Versions
    BY <2>1 DEF Publish, Age, Withdraw, Versions
  <2>3. faults' \in Nat
    BY <2>1 DEF Publish, Age, Withdraw
  <2>4. aged' \in BOOLEAN
    BY <2>1, Zenon DEF Publish, Age, Withdraw
  <2> QED
    BY <2>2, <2>3, <2>4
<1> QED
  BY <1>1, <1>2 DEF nodeVars, IInv, TypeOK, TimerStops, Undisturbed, HandProgress,
     TimerProgress, SettingsKept, Active

LEMMA BeginKeeps ==
  ASSUME IInv, NEW j \in Jobs, NEW v \in Versions, NEW u \in Units, Begin(j, v, u),
         j = "timer" => u.flags = loaded.flags /\ v > updaterBin,
         installs' \in Nat, faults' \in Nat
  PROVE  IInv'
<1> DEFINE new == [pc |-> "agent", version |-> v, units |-> u]
<1>1. /\ UNCHANGED <<latest, aged, agentBin, updaterBin, disk, loaded, running, wanted>>
      /\ job' = [job EXCEPT ![j] = new]
      /\ muddled' = (muddled \/ \E k \in Jobs : Active(k))
  BY DEF Begin, pageVars, nodeVars
<1>2. new \in Job
  BY DEF Job, Pcs
<1>3. muddled' \in BOOLEAN
  BY <1>1
<1>4. TypeOK'
  BY <1>1, <1>2, <1>3 DEF IInv, TypeOK
<1>5. /\ job'[j] = new
      /\ \A k \in Jobs \ {j} : job'[k] = job[k]
      /\ Jobs = {"hand", "timer"}
  BY <1>1 DEF IInv, TypeOK, Jobs
<1>6. TimerStops'
  BY <1>5 DEF IInv, TimerStops
<1>7. CASE muddled \/ \E k \in Jobs : Active(k)
  <2>1. muddled'
    BY <1>1, <1>7
  <2> QED
    BY <1>4, <1>6, <2>1 DEF IInv, SettingsKept
<1>8. CASE ~muddled /\ \A k \in Jobs : ~Active(k)
  <2>1. disk = wanted /\ loaded = wanted
    BY <1>5, <1>8 DEF IInv, SettingsKept
  <2>2. \A k \in Jobs \ {j} : job'[k].pc = "idle"
    BY <1>5, <1>8 DEF Active
  <2>3. new.pc = "agent" /\ new.version = v /\ new.units = u
    OBVIOUS
  <2>4. Undisturbed'
    BY <1>1, <1>5, <2>1, <2>2, <2>3
       DEF Undisturbed, HandProgress, TimerProgress, Active
  <2>5. SettingsKept'
    BY <1>1, <2>1 DEF SettingsKept
  <2> QED
    BY <1>4, <1>6, <2>4, <2>5 DEF IInv
<1> QED
  BY <1>7, <1>8

LEMMA TimerFiresKeeps ==
  ASSUME IInv, TimerFires
  PROVE  IInv'
<1>1. CarriedOver \in Units /\ CarriedOver.flags = loaded.flags
  BY DEF CarriedOver, IInv, TypeOK, Units, Soaks
<1> QED
  BY <1>1, BeginKeeps DEF TimerFires, IsDue, IInv, TypeOK, Jobs

LEMMA InstallKeeps ==
  ASSUME IInv, NEW v \in Versions, NEW u \in Units, InstallByHand(v, u)
  PROVE  IInv'
<1>1. installs' \in Nat /\ faults' \in Nat
  BY DEF InstallByHand, IInv, TypeOK
<1> QED
  BY <1>1, BeginKeeps DEF InstallByHand, Jobs

\* A step of a run of the installer.
LEMMA Moves ==
  ASSUME TypeOK, NEW j \in Jobs, NEW pc \in Pcs, NEW next \in Pcs, At(j, pc, next)
  PROVE  /\ job[j].pc = pc /\ job'[j].pc = next
         /\ job'[j].version = job[j].version /\ job'[j].units = job[j].units
         /\ \A k \in Jobs : k # j => job'[k] = job[k]
         /\ job' \in [Jobs -> Job]
         /\ job[j].version \in Versions /\ job[j].units \in Units
         /\ UNCHANGED <<latest, aged, muddled, installs, faults>>
<1>1. /\ job \in [Jobs -> Job] /\ job[j] \in Job
      /\ job' = [job EXCEPT ![j].pc = next]
      /\ job[j].pc = pc
  BY DEF At, TypeOK
<1>2. [job[j] EXCEPT !.pc = next] \in Job
  BY <1>1 DEF Job
<1>3. UNCHANGED <<latest, aged, muddled, installs, faults>>
  BY DEF At, pageVars
<1> QED
  BY <1>1, <1>2, <1>3 DEF Job

\* While an undisturbed run goes on there is no other.
LEMMA Alone ==
  ASSUME IInv, ~muddled, NEW j \in Jobs, Active(j)
  PROVE  /\ j = "hand" => ~Active("timer") /\ HandProgress
         /\ j = "timer" => /\ ~Active("hand") /\ TimerProgress
                           /\ disk = wanted /\ loaded = wanted
BY DEF IInv, Undisturbed, SettingsKept

LEMMA BinariesKeep ==
  ASSUME IInv, NEW j \in Jobs, ReplaceAgent(j) \/ ReplaceUpdater(j)
  PROVE  IInv'
<1>1. PICK pc \in {"agent", "updater"}, next \in {"unit", "persist"} :
        /\ At(j, pc, next)
        /\ (pc = "agent") = (next = "unit")
        /\ UNCHANGED <<disk, loaded, running, wanted>>
        /\ agentBin' \in {agentBin, job[j].version}
        /\ updaterBin' \in {updaterBin, job[j].version}
        /\ pc = "agent" => updaterBin' = updaterBin
  BY DEF ReplaceAgent, ReplaceUpdater
<1>2. pc \in Pcs /\ next \in Pcs /\ TypeOK
  BY DEF Pcs, IInv
<1>3. /\ job[j].pc = pc /\ job'[j].pc = next
      /\ job'[j].version = job[j].version /\ job'[j].units = job[j].units
      /\ \A k \in Jobs : k # j => job'[k] = job[k]
      /\ job' \in [Jobs -> Job]
      /\ job[j].version \in Versions
      /\ UNCHANGED <<latest, aged, muddled, installs, faults>>
  BY <1>1, <1>2, Moves
<1>4. TypeOK'
  BY <1>1, <1>2, <1>3 DEF TypeOK
<1>5. "hand" \in Jobs /\ "timer" \in Jobs /\ Jobs = {"hand", "timer"}
  BY DEF Jobs
<1>6. TimerStops'
  BY <1>3, <1>5 DEF IInv, TimerStops
<1>7. SettingsKept'
  BY <1>1, <1>3, <1>5 DEF IInv, SettingsKept, Active
<1>8. ASSUME ~muddled PROVE Undisturbed'
  <2>1. CASE j = "hand"
    BY <1>1, <1>3, <1>5, <1>8, <2>1, Alone
       DEF Active, Undisturbed, HandProgress, TimerProgress
  <2>2. CASE j = "timer"
    BY <1>1, <1>3, <1>5, <1>8, <2>2, Alone
       DEF Active, Undisturbed, HandProgress, TimerProgress
  <2> QED
    BY <1>5, <2>1, <2>2
<1> QED
  BY <1>3, <1>4, <1>6, <1>7, <1>8 DEF IInv

LEMMA WriteUnitKeeps ==
  ASSUME IInv, NEW j \in Jobs, WriteUnit(j)
  PROVE  IInv'
<1>1. /\ At(j, "unit", "updater")
      /\ disk' = [disk EXCEPT !.flags = job[j].units.flags]
      /\ UNCHANGED <<agentBin, updaterBin, loaded, running, wanted>>
  BY DEF WriteUnit
<1>2. "unit" \in Pcs /\ "updater" \in Pcs /\ TypeOK
  BY DEF Pcs, IInv
<1>3. /\ job[j].pc = "unit" /\ job'[j].pc = "updater"
      /\ job'[j].version = job[j].version /\ job'[j].units = job[j].units
      /\ \A k \in Jobs : k # j => job'[k] = job[k]
      /\ job' \in [Jobs -> Job]
      /\ job[j].units \in Units
      /\ UNCHANGED <<latest, aged, muddled, installs, faults>>
  BY <1>1, <1>2, Moves
<1>4. disk' \in Units /\ disk'.flags = job[j].units.flags /\ disk'.soak = disk.soak
  BY <1>1, <1>2, <1>3 DEF TypeOK, Units
<1>5. TypeOK'
  BY <1>1, <1>2, <1>3, <1>4 DEF TypeOK
<1>6. "hand" \in Jobs /\ "timer" \in Jobs /\ Jobs = {"hand", "timer"}
  BY DEF Jobs
<1>7. TimerStops'
  BY <1>3, <1>6 DEF IInv, TimerStops
<1>8. CASE muddled
  BY <1>3, <1>5, <1>7, <1>8 DEF IInv, SettingsKept
<1>9. CASE ~muddled /\ j = "hand"
  <2>1. Undisturbed'
    BY <1>1, <1>3, <1>4, <1>6, <1>9, Alone
       DEF Active, Undisturbed, HandProgress, TimerProgress
  <2>2. SettingsKept'
    BY <1>3, <1>9 DEF SettingsKept, Active
  <2> QED
    BY <1>3, <1>5, <1>7, <2>1, <2>2 DEF IInv
<1>10. CASE ~muddled /\ j = "timer"
  <2>1. job[j].units.flags = wanted.flags /\ disk = wanted /\ loaded = wanted
    BY <1>3, <1>10, Alone DEF Active, TimerProgress
  <2>2. disk' = disk
    BY <1>1, <1>2, <2>1 DEF TypeOK, Units
  <2>3. Undisturbed'
    BY <1>1, <1>3, <1>6, <1>10, <2>2, Alone
       DEF Active, Undisturbed, HandProgress, TimerProgress
  <2>4. SettingsKept'
    BY <1>1, <2>1, <2>2 DEF SettingsKept
  <2> QED
    BY <1>3, <1>5, <1>7, <2>3, <2>4 DEF IInv
<1> QED
  BY <1>6, <1>8, <1>9, <1>10

LEMMA PersistKeeps ==
  ASSUME IInv, NEW j \in Jobs, Persist(j)
  PROVE  IInv'
<1>1. PICK next \in {"timer", "idle"} :
        At(j, "persist", next) /\ (j = "timer" => next = "idle") /\ UNCHANGED <<nodeVars, wanted>>
        /\ (j = "hand" => next = "timer")
  BY DEF Persist, Jobs
<1>2. next \in Pcs /\ "persist" \in Pcs /\ TypeOK
  BY DEF Pcs, IInv
<1>3. /\ job[j].pc = "persist" /\ job'[j].pc = next
      /\ job'[j].version = job[j].version /\ job'[j].units = job[j].units
      /\ \A k \in Jobs : k # j => job'[k] = job[k]
      /\ job' \in [Jobs -> Job]
      /\ UNCHANGED <<latest, aged, muddled, installs, faults>>
  BY <1>1, <1>2, Moves
<1>4. UNCHANGED <<agentBin, updaterBin, disk, loaded, running, wanted>>
  BY <1>1 DEF nodeVars
<1>5. TypeOK'
  BY <1>2, <1>3, <1>4 DEF TypeOK
<1>6. "hand" \in Jobs /\ "timer" \in Jobs /\ Jobs = {"hand", "timer"}
  BY DEF Jobs
<1>7. TimerStops'
  BY <1>1, <1>3, <1>6 DEF IInv, TimerStops
<1>8. SettingsKept'
  BY <1>1, <1>3, <1>4, <1>6 DEF IInv, SettingsKept, Active
<1>9. ASSUME ~muddled PROVE Undisturbed'
  BY <1>1, <1>3, <1>4, <1>6, <1>9, Alone
     DEF Active, Undisturbed, HandProgress, TimerProgress
<1> QED
  BY <1>3, <1>5, <1>7, <1>8, <1>9 DEF IInv

\* The last steps are those of a run by hand.
LEMMA WriteTimerKeeps ==
  ASSUME IInv, NEW j \in Jobs, WriteTimer(j)
  PROVE  IInv'
<1>1. /\ At(j, "timer", "reload")
      /\ disk' = [disk EXCEPT !.soak = job[j].units.soak]
      /\ loaded' = [loaded EXCEPT !.soak = IF job[j].units.soak = "off" THEN "off" ELSE @]
      /\ UNCHANGED <<agentBin, updaterBin, running, wanted>>
  BY DEF WriteTimer
<1>2. "timer" \in Pcs /\ "reload" \in Pcs /\ TypeOK
  BY DEF Pcs, IInv
<1>3. /\ job[j].pc = "timer" /\ job'[j].pc = "reload"
      /\ job'[j].version = job[j].version /\ job'[j].units = job[j].units
      /\ \A k \in Jobs : k # j => job'[k] = job[k]
      /\ job' \in [Jobs -> Job]
      /\ job[j].units \in Units
      /\ UNCHANGED <<latest, aged, muddled, installs, faults>>
  BY <1>1, <1>2, Moves
<1>4. /\ disk' \in Units /\ loaded' \in Units
      /\ disk'.flags = disk.flags /\ disk'.soak = job[j].units.soak
  BY <1>1, <1>2, <1>3 DEF TypeOK, Units, Soaks
<1>5. TypeOK'
  BY <1>1, <1>2, <1>3, <1>4 DEF TypeOK
<1>6. /\ j = "hand" /\ "timer" \in Jobs /\ TimerStops'
      /\ Active("hand") /\ Active("hand")'
  BY <1>3 DEF IInv, TimerStops, Jobs, Active
<1>7. ASSUME ~muddled PROVE Undisturbed'
  BY <1>1, <1>3, <1>4, <1>6, <1>7, Alone
     DEF Active, Undisturbed, HandProgress, TimerProgress
<1> QED
  BY <1>3, <1>5, <1>6, <1>7 DEF IInv, SettingsKept

LEMMA ReloadKeeps ==
  ASSUME IInv, NEW j \in Jobs, Reload(j)
  PROVE  IInv'
<1>1. /\ At(j, "reload", "restart") /\ loaded' = disk
      /\ UNCHANGED <<agentBin, updaterBin, disk, running, wanted>>
  BY DEF Reload
<1>2. "restart" \in Pcs /\ "reload" \in Pcs /\ TypeOK
  BY DEF Pcs, IInv
<1>3. /\ job[j].pc = "reload" /\ job'[j].pc = "restart"
      /\ job'[j].version = job[j].version /\ job'[j].units = job[j].units
      /\ \A k \in Jobs : k # j => job'[k] = job[k]
      /\ job' \in [Jobs -> Job]
      /\ UNCHANGED <<latest, aged, muddled, installs, faults>>
  BY <1>1, <1>2, Moves
<1>4. TypeOK'
  BY <1>1, <1>2, <1>3 DEF TypeOK
<1>5. /\ j = "hand" /\ "timer" \in Jobs /\ TimerStops'
      /\ Active("hand") /\ Active("hand")'
  BY <1>3 DEF IInv, TimerStops, Jobs, Active
<1>6. ASSUME ~muddled PROVE Undisturbed'
  BY <1>1, <1>3, <1>5, <1>6, Alone
     DEF Active, Undisturbed, HandProgress, TimerProgress
<1> QED
  BY <1>3, <1>4, <1>5, <1>6 DEF IInv, SettingsKept

LEMMA RestartKeeps ==
  ASSUME IInv, NEW j \in Jobs, Restart(j)
  PROVE  IInv'
<1>1. /\ At(j, "restart", "idle") /\ running' = agentBin
      /\ wanted' = IF j = "hand" THEN job[j].units ELSE wanted
      /\ UNCHANGED <<agentBin, updaterBin, disk, loaded>>
  BY DEF Restart
<1>2. "restart" \in Pcs /\ "idle" \in Pcs /\ TypeOK
  BY DEF Pcs, IInv
<1>3. /\ job[j].pc = "restart" /\ job'[j].pc = "idle"
      /\ job'[j].version = job[j].version /\ job'[j].units = job[j].units
      /\ \A k \in Jobs : k # j => job'[k] = job[k]
      /\ job' \in [Jobs -> Job]
      /\ job[j].units \in Units
      /\ UNCHANGED <<latest, aged, muddled, installs, faults>>
  BY <1>1, <1>2, Moves
<1>4. agentBin \in 0..MaxVersion
  BY <1>2, Assumption DEF TypeOK, Versions
<1>5. TypeOK'
  BY <1>1, <1>2, <1>3, <1>4 DEF TypeOK
<1>6. j = "hand" /\ "timer" \in Jobs /\ TimerStops' /\ Active("hand")
  BY <1>3 DEF IInv, TimerStops, Jobs, Active
<1>7. ASSUME ~muddled PROVE Undisturbed' /\ disk' = wanted' /\ loaded' = wanted'
  <2>1. /\ ~Active("timer")
        /\ disk.flags = job[j].units.flags /\ disk.soak = job[j].units.soak
        /\ loaded = disk
    BY <1>3, <1>6, <1>7, Alone DEF HandProgress
  <2>2. disk = job[j].units
    BY <1>2, <1>3, <2>1 DEF TypeOK, Units
  <2>3. Undisturbed'
    BY <1>1, <1>3, <1>6, <2>1 DEF Active, Undisturbed, HandProgress, TimerProgress
  <2> QED
    BY <1>1, <1>6, <2>1, <2>2, <2>3
<1> QED
  BY <1>3, <1>5, <1>6, <1>7 DEF IInv, SettingsKept

LEMMA AgentKeeps ==
  ASSUME IInv, BadAgentDies \/ SystemdRestarts
  PROVE  IInv'
<1>1. /\ UNCHANGED <<latest, aged, agentBin, updaterBin, disk, loaded, job, wanted, muddled>>
      /\ UNCHANGED <<installs, faults>> /\ running' \in {0, agentBin}
  BY DEF BadAgentDies, SystemdRestarts, pageVars
<1>2. running' \in 0..MaxVersion
  BY <1>1, Assumption DEF IInv, TypeOK, Versions
<1> QED
  BY <1>1, <1>2 DEF IInv, TypeOK, TimerStops, Undisturbed, HandProgress, TimerProgress,
     SettingsKept, Active

\* A run by hand that is cut short may leave anything; the timer's does not.
LEMMA InterruptKeeps ==
  ASSUME IInv, NEW j \in Jobs, Interrupt(j)
  PROVE  IInv'
<1>1. /\ UNCHANGED <<latest, aged, agentBin, updaterBin, disk, loaded, running, wanted>>
      /\ UNCHANGED installs /\ faults' = faults + 1
      /\ Active(j) /\ job' = [job EXCEPT ![j].pc = "idle"]
      /\ muddled' = (muddled \/ j = "hand")
  BY DEF Interrupt, pageVars, nodeVars
<1>2. /\ TypeOK /\ job[j] \in Job /\ job \in [Jobs -> Job]
  BY DEF IInv, TypeOK
<1>3. [job[j] EXCEPT !.pc = "idle"] \in Job
  BY <1>2 DEF Job, Pcs
<1>4. /\ job' \in [Jobs -> Job] /\ job'[j].pc = "idle"
      /\ \A k \in Jobs : k # j => job'[k] = job[k]
  BY <1>1, <1>2, <1>3 DEF Job
<1>5. muddled' \in BOOLEAN
  BY <1>1
<1>6. TypeOK'
  BY <1>1, <1>2, <1>4, <1>5 DEF TypeOK
<1>7. "hand" \in Jobs /\ "timer" \in Jobs /\ Jobs = {"hand", "timer"}
  BY DEF Jobs
<1>8. TimerStops'
  BY <1>4, <1>7 DEF IInv, TimerStops
<1>9. CASE muddled \/ j = "hand"
  <2>1. muddled'
    BY <1>1, <1>9
  <2> QED
    BY <1>6, <1>8, <2>1 DEF IInv, SettingsKept
<1>10. CASE ~muddled /\ j = "timer"
  <2>1. Undisturbed'
    BY <1>1, <1>4, <1>7, <1>10, Alone
       DEF Active, Undisturbed, HandProgress, TimerProgress
  <2>2. SettingsKept'
    BY <1>1, <1>10, <1>7, Alone DEF SettingsKept
  <2> QED
    BY <1>6, <1>8, <2>1, <2>2 DEF IInv
<1> QED
  BY <1>7, <1>9, <1>10

LEMMA RebootKeeps ==
  ASSUME IInv, Reboot
  PROVE  IInv'
<1>1. /\ UNCHANGED <<latest, aged, agentBin, updaterBin, disk, wanted, installs>>
      /\ faults' = faults + 1 /\ running' = 0 /\ loaded' = disk
      /\ job' = [j \in Jobs |-> [job[j] EXCEPT !.pc = "idle"]]
      /\ muddled' = (muddled \/ Active("hand"))
  BY DEF Reboot, pageVars
<1>2. TypeOK /\ job \in [Jobs -> Job]
  BY DEF IInv, TypeOK
<1>3. \A j \in Jobs : [job[j] EXCEPT !.pc = "idle"] \in Job
  BY <1>2 DEF Job, Pcs
<1>4. job' \in [Jobs -> Job] /\ \A j \in Jobs : job'[j].pc = "idle"
  BY <1>1, <1>2, <1>3 DEF Job
<1>5. muddled' \in BOOLEAN
  BY <1>1
<1>6. running' \in 0..MaxVersion
  BY <1>1, Assumption
<1>7. TypeOK'
  BY <1>1, <1>2, <1>4, <1>5, <1>6 DEF TypeOK
<1>8. "hand" \in Jobs /\ "timer" \in Jobs /\ Jobs = {"hand", "timer"}
  BY DEF Jobs
<1>9. TimerStops'
  BY <1>4, <1>8 DEF TimerStops
<1>10. CASE muddled \/ Active("hand")
  <2>1. muddled'
    BY <1>1, <1>10
  <2> QED
    BY <1>7, <1>9, <2>1 DEF IInv, SettingsKept
<1>11. CASE ~muddled /\ ~Active("hand")
  <2>1. Undisturbed'
    BY <1>4, <1>8 DEF Undisturbed, HandProgress, TimerProgress, Active
  <2>2. SettingsKept'
    BY <1>1, <1>11 DEF IInv, SettingsKept
  <2> QED
    BY <1>7, <1>9, <2>1, <2>2 DEF IInv
<1> QED
  BY <1>10, <1>11

LEMMA NextKeeps == IInv /\ [Next]_vars => IInv'
<1> SUFFICES ASSUME IInv, [Next]_vars PROVE IInv'
  OBVIOUS
<1>1. CASE UNCHANGED vars
  BY <1>1 DEF vars, pageVars, nodeVars, IInv, TypeOK, TimerStops, Undisturbed,
     HandProgress, TimerProgress, SettingsKept, Active
<1>2. ASSUME NEW j \in Jobs, JobStep(j) PROVE IInv'
  BY <1>2, BinariesKeep, WriteUnitKeeps, PersistKeeps, WriteTimerKeeps, ReloadKeeps,
     RestartKeeps DEF JobStep, ReplaceBinaries
<1> QED
  BY <1>1, <1>2, PageKeeps, TimerFiresKeeps, InstallKeeps, AgentKeeps, InterruptKeeps,
     RebootKeeps DEF Next

LEMMA Invariance == Spec => []IInv
<1>1. Init => IInv
  BY InitHolds
<1>2. IInv /\ [Next]_vars => IInv'
  BY NextKeeps
<1> QED
  BY <1>1, <1>2, PTL DEF Spec

-----------------------------------------------------------------------------
(***************************************************************************)
(* The theorems.                                                           *)
(***************************************************************************)

\* Binaries, units, runs and releases stay in their ranges.
THEOREM TypeCorrect == Spec => []TypeOK
<1>1. IInv => TypeOK
  BY DEF IInv
<1> QED
  BY <1>1, Invariance, PTL

\* No automatic update changes what the operator asked for, for any flags and
\* wherever it is interrupted, though it carries over the flags only and the
\* installer's default is another soak period (currentAgentArgs).
THEOREM OperatorsSettingsKept == Spec => []SettingsKept
<1>1. IInv => SettingsKept
  BY DEF IInv
<1> QED
  BY <1>1, Invariance, PTL
-----------------------------------------------------------------------------
(***************************************************************************)
(* What a run leaves behind, and what runs.                                *)
(***************************************************************************)

\* The binaries as far as a run has replaced them.  Between runs, and wherever
\* the timer's is cut short, the updater is not ahead of the agent.
BinariesInv ==
    muddled \/
        /\ \A j \in Jobs : job[j].pc \in {"unit", "updater"} => agentBin = job[j].version
        /\ job["hand"].pc \in {"persist", "timer", "reload", "restart"} =>
            agentBin = job["hand"].version /\ updaterBin = job["hand"].version
        /\ ~Active("hand") => updaterBin <= agentBin

\* The one that runs, hand or timer, is alone, and the timer's goes forward.
LEMMA JobKeepsBinaries ==
  ASSUME IInv, IInv', BinariesInv, NEW j \in Jobs, JobStep(j)
  PROVE  BinariesInv'
<1>0. /\ Jobs = {"hand", "timer"} /\ TypeOK /\ agentBin \in Nat /\ updaterBin \in Nat
      /\ job[j].version \in Nat
  BY Assumption DEF IInv, TypeOK, Job, Jobs, Versions
<1>1. PICK pc \in Pcs \ {"idle"}, next \in Pcs :
        /\ At(j, pc, next)
        /\ agentBin' = IF pc = "agent" THEN job[j].version ELSE agentBin
        /\ updaterBin' = IF pc = "updater" THEN job[j].version ELSE updaterBin
        /\ pc = "agent" => next = "unit"
        /\ pc = "unit" => next = "updater"
        /\ pc = "updater" => next = "persist"
        /\ pc = "persist" => next \in {"timer", "idle"} /\ (j = "hand" => next = "timer")
        /\ pc = "timer" => next = "reload"
        /\ pc = "reload" => next = "restart"
        /\ pc = "restart" => next = "idle"
  <2>1. CASE ReplaceAgent(j)
    BY <2>1 DEF ReplaceAgent, Pcs
  <2>2. CASE WriteUnit(j)
    BY <2>2 DEF WriteUnit, Pcs
  <2>3. CASE ReplaceUpdater(j)
    BY <2>3 DEF ReplaceUpdater, Pcs
  <2>4. CASE Persist(j)
    BY <1>0, <2>4 DEF Persist, Pcs, nodeVars
  <2>5. CASE WriteTimer(j)
    BY <2>5 DEF WriteTimer, Pcs
  <2>6. CASE Reload(j)
    BY <2>6 DEF Reload, Pcs
  <2>7. CASE Restart(j)
    BY <2>7 DEF Restart, Pcs
  <2> QED
    BY <2>1, <2>2, <2>3, <2>4, <2>5, <2>6, <2>7 DEF JobStep, ReplaceBinaries
<1>2. /\ job[j].pc = pc /\ job'[j].pc = next /\ job'[j].version = job[j].version
      /\ \A k \in Jobs : k # j => job'[k] = job[k]
      /\ muddled' = muddled
  BY <1>0, <1>1, Moves
<1>3. CASE muddled
  BY <1>2, <1>3 DEF BinariesInv
<1>4. CASE ~muddled /\ j = "hand"
  <2>1. job["timer"].pc = "idle" /\ job'["timer"].pc = "idle"
    BY <1>0, <1>1, <1>2, <1>4, Alone DEF Active
  <2> QED
    BY <1>0, <1>1, <1>2, <1>4, <2>1 DEF BinariesInv, Active, Pcs
<1>5. CASE ~muddled /\ j = "timer"
  <2>1. job["hand"].pc = "idle" /\ job'["hand"].pc = "idle"
    BY <1>0, <1>1, <1>2, <1>5, Alone DEF Active
  <2>2. pc = "agent" => job[j].version > updaterBin
    BY <1>0, <1>1, <1>2, <1>5, Alone DEF Active, TimerProgress
  <2>3. pc \in {"agent", "unit", "updater", "persist"}
    BY <1>1, <1>2, <1>5 DEF IInv, TimerStops, Pcs
  <2>4. pc \in {"unit", "updater"} => agentBin = job[j].version
    BY <1>2, <1>5 DEF BinariesInv
  <2>5. updaterBin <= agentBin
    BY <2>1, <1>5 DEF BinariesInv, Active
  <2>6. /\ job'[j].pc \in {"unit", "updater"} => agentBin' = job'[j].version
        /\ updaterBin' <= agentBin'
    BY <1>0, <1>1, <1>2, <2>2, <2>3, <2>4, <2>5
  <2> QED
    BY <1>0, <1>2, <1>5, <2>1, <2>6 DEF BinariesInv, Active
<1> QED
  BY <1>0, <1>3, <1>4, <1>5

LEMMA BinariesHold == Spec => []BinariesInv
<1>1. Init => BinariesInv
  BY DEF Init, BinariesInv, Idle, Jobs
<1>2. IInv /\ IInv' /\ BinariesInv /\ [Next]_vars => BinariesInv'
  <2> SUFFICES ASSUME IInv, IInv', BinariesInv, [Next]_vars PROVE BinariesInv'
    OBVIOUS
  <2>0. Jobs = {"hand", "timer"} /\ job \in [Jobs -> Job]
    BY DEF IInv, TypeOK, Jobs
  <2>1. CASE Publish \/ Age \/ Withdraw \/ BadAgentDies \/ SystemdRestarts \/ UNCHANGED vars
    <3>1. UNCHANGED <<agentBin, updaterBin, job, muddled>>
      BY <2>1 DEF Publish, Age, Withdraw, BadAgentDies, SystemdRestarts, vars, nodeVars
    <3> QED
      BY <3>1 DEF BinariesInv, Active
  <2>2. ASSUME NEW j \in Jobs, NEW v, NEW u, Begin(j, v, u)
        PROVE  BinariesInv'
    <3>1. /\ UNCHANGED <<agentBin, updaterBin>> /\ ~Active(j)
          /\ job'[j].pc = "agent" /\ \A k \in Jobs \ {j} : job'[k] = job[k]
          /\ muddled' = (muddled \/ \E k \in Jobs : Active(k))
      BY <2>0, <2>2 DEF Begin, nodeVars
    <3>2. ~muddled' => ~muddled /\ \A k \in Jobs : ~Active(k)
      BY <3>1
    <3> QED
      BY <2>0, <3>1, <3>2 DEF BinariesInv, Active
  <2>3. ASSUME NEW j \in Jobs, Interrupt(j)
        PROVE  BinariesInv'
    <3>1. /\ UNCHANGED <<agentBin, updaterBin>>
          /\ job'[j].pc = "idle" /\ \A k \in Jobs \ {j} : job'[k] = job[k]
          /\ muddled' = (muddled \/ j = "hand")
      BY <2>0, <2>3 DEF Interrupt, nodeVars, Job
    <3> QED
      BY <2>0, <3>1 DEF BinariesInv, Active
  <2>4. CASE Reboot
    <3>1. /\ UNCHANGED <<agentBin, updaterBin>> /\ \A k \in Jobs : job'[k].pc = "idle"
          /\ muddled' = (muddled \/ Active("hand"))
      BY <2>0, <2>4 DEF Reboot, Job
    <3> QED
      BY <2>0, <3>1 DEF BinariesInv, Active
  <2>5. ASSUME NEW j \in Jobs, JobStep(j)
        PROVE  BinariesInv'
    BY <2>5, JobKeepsBinaries
  <2> QED
    BY <2>0, <2>1, <2>2, <2>3, <2>4, <2>5 DEF Next, TimerFires, InstallByHand
<1> QED
  BY <1>1, <1>2, Invariance, PTL DEF Spec

\* What a run of the timer installs is newer than the release installed whole
\* last, the updater's, and neither program is ever taken below that: not where
\* runs of the timer are cut short, nor where releases are taken back while one
\* goes on.  An agent that a run cut short left ahead of its updater may be
\* taken back, no further than to that release (main, "refuses anything not
\* strictly newer").
THEOREM NoDowngrade == Spec => NeverBackwards
<1> DEFINE Onwards == ~muddled /\ ~Active("hand") =>
                        updaterBin' >= updaterBin /\ agentBin' >= updaterBin
<1>1. IInv /\ BinariesInv /\ [Next]_vars => [Onwards]_vars
  <2> SUFFICES ASSUME IInv, BinariesInv, Next, ~muddled, ~Active("hand")
               PROVE  updaterBin' >= updaterBin /\ agentBin' >= updaterBin
    OBVIOUS
  <2>1. /\ agentBin \in Nat /\ updaterBin \in Nat /\ updaterBin <= agentBin
        /\ job["timer"].version \in Nat
    BY Assumption DEF IInv, TypeOK, BinariesInv, Versions, Job, Jobs
  <2>2. CASE UNCHANGED <<agentBin, updaterBin>>
    BY <2>1, <2>2
  <2>3. CASE ReplaceAgent("timer")
    <3>1. /\ job["timer"].pc = "agent" /\ agentBin' = job["timer"].version
          /\ updaterBin' = updaterBin
      BY <2>3 DEF ReplaceAgent, At
    <3>2. job["timer"].version > updaterBin
      BY <3>1 DEF IInv, Undisturbed, TimerProgress
    <3> QED
      BY <2>1, <3>1, <3>2
  <2>4. CASE ReplaceUpdater("timer")
    <3>1. /\ job["timer"].pc = "updater" /\ updaterBin' = job["timer"].version
          /\ agentBin' = agentBin
      BY <2>4 DEF ReplaceUpdater, At
    <3>2. job["timer"].version = agentBin
      BY <3>1 DEF BinariesInv, Jobs
    <3> QED
      BY <2>1, <3>1, <3>2
  <2>5. ~ReplaceAgent("hand") /\ ~ReplaceUpdater("hand")
    BY DEF ReplaceAgent, ReplaceUpdater, At, Active
  <2>6. \/ UNCHANGED <<agentBin, updaterBin>>
        \/ \E j \in Jobs : ReplaceAgent(j) \/ ReplaceUpdater(j)
    BY DEF Next, Publish, Age, Withdraw, TimerFires, InstallByHand, Begin, Interrupt,
       JobStep, ReplaceBinaries, WriteUnit, Persist, WriteTimer, Reload, Restart,
       BadAgentDies, SystemdRestarts, Reboot, nodeVars
  <2> QED
    BY <2>2, <2>3, <2>4, <2>5, <2>6 DEF Jobs
<1> QED
  BY <1>1, Invariance, BinariesHold, PTL DEF Spec, NeverBackwards

\* The updater compares releases with its own version.  Wherever updates are
\* interrupted it is not ahead of the agent beside it, so that a release newer
\* than the agent is never taken for one that is there already (the order in
\* which the installer replaces them; IsDue).
THEOREM NothingOverlooked ==
    Spec => [](muddled \/ Active("hand") \/ (latest > agentBin => latest > updaterBin))
<1>1. IInv /\ BinariesInv =>
        (muddled \/ Active("hand") \/ (latest > agentBin => latest > updaterBin))
  <2> SUFFICES ASSUME IInv, BinariesInv, ~muddled, ~Active("hand"), latest > agentBin
               PROVE  latest > updaterBin
    OBVIOUS
  <2>1. latest \in Nat /\ agentBin \in Nat /\ updaterBin \in Nat
    BY Assumption DEF IInv, TypeOK, Versions
  <2> QED
    BY <2>1 DEF BinariesInv
<1> QED
  BY <1>1, Invariance, BinariesHold, PTL

\* A run by hand that nothing interrupted or met has, when it restarts the
\* agent, both binaries of the release and both units as asked for, on disk
\* and in systemd (install-agent.sh, from the first replacement to the end).
HandInstallsAll ==
    [][Restart("hand") /\ ~muddled =>
        LET h == job["hand"] IN
        /\ running' = h.version /\ agentBin' = h.version /\ updaterBin' = h.version
        /\ disk' = h.units /\ loaded' = h.units]_vars

\* Nothing of an installation by hand is missing at its end (install-agent.sh).
THEOREM InstallsAreWhole == Spec => HandInstallsAll
<1> DEFINE Whole == Restart("hand") /\ ~muddled =>
              LET h == job["hand"] IN
              /\ running' = h.version /\ agentBin' = h.version /\ updaterBin' = h.version
              /\ disk' = h.units /\ loaded' = h.units
<1>1. IInv /\ IInv' /\ BinariesInv /\ [Next]_vars => [Whole]_vars
  <2> SUFFICES ASSUME IInv, IInv', BinariesInv, Restart("hand"), ~muddled
               PROVE  /\ running' = job["hand"].version
                      /\ agentBin' = job["hand"].version
                      /\ updaterBin' = job["hand"].version
                      /\ disk' = job["hand"].units /\ loaded' = job["hand"].units
    OBVIOUS
  <2>1. /\ job["hand"].pc = "restart" /\ running' = agentBin
        /\ wanted' = job["hand"].units /\ UNCHANGED <<agentBin, updaterBin, muddled>>
        /\ job' = [job EXCEPT !["hand"].pc = "idle"]
    BY DEF Restart, At
  <2>2. "hand" \in Jobs /\ job \in [Jobs -> Job]
    BY DEF IInv, TypeOK, Jobs
  <2>3. job'["hand"].pc = "idle"
    BY <2>1, <2>2 DEF Job
  <2>4. disk' = wanted' /\ loaded' = wanted'
    BY <2>1, <2>3 DEF IInv, SettingsKept, Active
  <2> QED
    BY <2>1, <2>4 DEF BinariesInv
<1> QED
  BY <1>1, Invariance, BinariesHold, PTL DEF Spec, HandInstallsAll

\* What runs changes by the end of a run by hand, or as the agent or the
\* machine goes down and comes back.
OnlyHandsRestart ==
    [][running' # running => running' = 0 \/ running = 0 \/ Restart("hand")]_vars

\* No automatic update makes the node run what it has installed: its run ends
\* before the restart, for any releases and however often it is repeated
\* (install-agent.sh:125; the run agent_update_unattended shows it once).
THEOREM TimerNeverRestarts == Spec => OnlyHandsRestart
<1> DEFINE ByHand == running' # running => running' = 0 \/ running = 0 \/ Restart("hand")
<1>1. IInv /\ [Next]_vars => [ByHand]_vars
  <2> SUFFICES ASSUME IInv, Next, running' # running, running' # 0, running # 0
               PROVE  Restart("hand")
    OBVIOUS
  <2>1. PICK j \in Jobs : Restart(j)
    BY DEF Next, Publish, Age, Withdraw, TimerFires, InstallByHand, Begin, Interrupt,
       JobStep, ReplaceBinaries, ReplaceAgent, WriteUnit, ReplaceUpdater, Persist,
       WriteTimer, Reload, BadAgentDies, SystemdRestarts, Reboot, pageVars, nodeVars
  <2>2. job[j].pc = "restart"
    BY <2>1 DEF Restart, At
  <2> QED
    BY <2>1, <2>2 DEF IInv, TimerStops, Jobs
<1> QED
  BY <1>1, Invariance, PTL DEF Spec, OnlyHandsRestart
=============================================================================
