------------------------------ MODULE HubUpdate ------------------------------
(***************************************************************************)
(* How a release reaches the hub: the release page, the updater goroutine  *)
(* of the running hub with its soak period, sshhub-ctl update beside it,   *)
(* the lock file both take, the signed manifest and the artifact, the two  *)
(* binaries they replace, and the restart.                                 *)
(*                                                                         *)
(*   internal/hubupdate/update.go   StartAutoUpdater, applyIfDueWith,      *)
(*                                  DownloadAndApplyHubUpdate              *)
(*   internal/release/release.go    Verify, VerifyArtifact                 *)
(*   cmd/sshhub-sign/main.go        manifest                               *)
(*   cmd/sshhub-ctl/main.go         update                                 *)
(*                                                                         *)
(* A tag is the place of a release in the order of publication; VersionOf  *)
(* gives the version it spells, which need not follow that order.  A build *)
(* is what an archive contains: which release it was made for, and which   *)
(* of the maintainer's builds of it, 0 for anyone else's.                  *)
(***************************************************************************)
EXTENDS Versions

CONSTANTS
    Hub,            \* the updater goroutine of the hub
    Ctls,           \* sshhub-ctl update processes
    NoOne, NoManifest,
    Soak,           \* auto_update_wait: "disabled", "none" or "wait"
    MaxTag,         \* bound: releases
    VersionOf,      \* VersionOf[t]: the version of a release
    MaxFaults       \* bound: crashes, failing steps and irregular releases

Tags   == 1..MaxTag
Builds == [tag : Tags, build : 0..2]

\* What sshhub-sign signs: the version and the digest of each archive.  A
\* manifest that is missing or not signed with the trusted key is none.
Manifests == [tag : Tags, build : 1..2, urgent : BOOLEAN]

ASSUME UpdaterAssumption == Hub \notin Ctls /\ NoOne \notin Ctls \cup {Hub}

ASSUME ParameterAssumption ==
    /\ Soak \in {"disabled", "none", "wait"}
    /\ MaxTag \in Nat \ {0}
    /\ VersionOf \in [Tags -> Seq(Component)]
    /\ NoManifest \notin Manifests
    /\ MaxFaults \in Nat

Updaters == Ctls \cup {Hub}

VARIABLES
    latest,     \* the latest release
    manifest,   \* manifest[t]: the one on the page of release t
    artifact,   \* artifact[t]: the archive on that page
    mature,     \* the last release public for the soak period
    hubBin, ctlBin,     \* builds of the installed sshhub and sshhub-ctl
    running,    \* build of the running hub
    lock,       \* who holds .sshhub-update.lock
    pc,         \* where an updater is
    self,       \* the release compiled into its process
    target,     \* the release it installs
    held,       \* the manifest it has verified
    payload,    \* the build it has verified against that
    faults,

    \* History, read by no action of the program.
    signed,     \* manifests the maintainer has signed
    torn        \* an installation ended between its two renames

releaseVars == <<latest, manifest, artifact, mature, signed>>
installVars == <<hubBin, ctlBin, running, torn>>
fetchVars   == <<self, target, held, payload>>
vars == <<releaseVars, installVars, lock, pc, fetchVars, faults>>

Pcs == {"idle", "due", "asking", "locked", "trusted", "verified", "half",
        "installed", "ended"}

\* The pcs at which the lock file is locked.
Holding == {"locked", "trusted", "verified", "half"}

TypeOK ==
    /\ latest \in Tags
    /\ manifest \in [Tags -> Manifests \cup {NoManifest}]
    /\ artifact \in [Tags -> Builds]
    /\ mature \in Tags
    /\ hubBin \in Builds
    /\ ctlBin \in Builds
    /\ running \in Builds
    /\ lock \in Updaters \cup {NoOne}
    /\ pc \in [Updaters -> Pcs]
    /\ self \in [Updaters -> Tags]
    /\ target \in [Updaters -> Tags]
    /\ held \in [Updaters -> Manifests \cup {NoManifest}]
    /\ payload \in [Updaters -> Builds]
    /\ faults \in Nat
    /\ signed \subseteq Manifests
    /\ torn \in BOOLEAN

\* sshhub-sign manifest, over the archive of one release.
Sign(b, isUrgent) == [tag |-> b.tag, build |-> b.build, urgent |-> isUrgent]

Built(t, k) == [tag |-> t, build |-> k]

First == Built(1, 1)

Init ==
    /\ latest = 1
    /\ manifest = [t \in Tags |-> IF t = 1 THEN Sign(First, FALSE) ELSE NoManifest]
    /\ artifact = [t \in Tags |-> First]
    /\ mature = 1
    /\ hubBin = First
    /\ ctlBin = First
    /\ running = First
    /\ lock = NoOne
    /\ pc = [u \in Updaters |-> "idle"]
    /\ self = [u \in Updaters |-> 1]
    /\ target = [u \in Updaters |-> 1]
    /\ held = [u \in Updaters |-> NoManifest]
    /\ payload = [u \in Updaters |-> First]
    /\ faults = 0
    /\ signed = {Sign(First, FALSE)}
    /\ torn = FALSE

Newer(t, s) == IsNewer(VersionOf[t], VersionOf[s])
-----------------------------------------------------------------------------
(***************************************************************************)
(* The release page.                                                       *)
(***************************************************************************)

\* A release is published with the archive and the manifest made for it.
Publish(isUrgent) ==
    LET t == latest + 1 IN
    /\ t \in Tags
    /\ latest' = t
    /\ artifact' = [artifact EXCEPT ![t] = Built(t, 1)]
    /\ manifest' = [manifest EXCEPT ![t] = Sign(Built(t, 1), isUrgent)]
    /\ signed' = signed \cup {manifest'[t]}
    /\ UNCHANGED <<mature, installVars, lock, pc, fetchVars, faults>>

\* Or with something else: an archive of anyone's, the previous release's archive
\* or manifest, no manifest.
PublishIrregular(b, m) ==
    LET t == latest + 1 IN
    /\ t \in Tags
    /\ faults < MaxFaults
    /\ faults' = faults + 1
    /\ b \in {Built(t, 0), Built(latest, 1)}
    /\ m # NoManifest => m \in signed /\ m.tag = latest
    /\ latest' = t
    /\ artifact' = [artifact EXCEPT ![t] = b]
    /\ manifest' = [manifest EXCEPT ![t] = m]
    /\ UNCHANGED <<mature, signed, installVars, lock, pc, fetchVars>>

\* The maintainer replaces a release's archive, and then its manifest.
Rebuild ==
    /\ artifact[latest].build # 2
    /\ faults < MaxFaults
    /\ faults' = faults + 1
    /\ artifact' = [artifact EXCEPT ![latest] = Built(latest, 2)]
    /\ UNCHANGED <<latest, manifest, mature, signed, installVars, lock, pc, fetchVars>>

Resign(isUrgent) ==
    /\ artifact[latest] = Built(latest, 2)
    /\ manifest[latest] # NoManifest => manifest[latest].build # 2
    /\ manifest' = [manifest EXCEPT ![latest] = Sign(Built(latest, 2), isUrgent)]
    /\ signed' = signed \cup {manifest'[latest]}
    /\ UNCHANGED <<latest, artifact, mature, installVars, lock, pc, fetchVars, faults>>

\* The soak period of the next release passes, counted from its publication.
Mature ==
    /\ mature < latest
    /\ mature' = mature + 1
    /\ UNCHANGED <<latest, manifest, artifact, signed>>
    /\ UNCHANGED <<installVars, lock, pc, fetchVars, faults>>

\* Mutant of Verified: a manifest is good for any release.
Verified_AnyTag(t) ==
    IF manifest[t] # NoManifest THEN manifest[t] ELSE NoManifest

\* fetchVerifiedManifest: what is on the page of t if it verifies and names
\* the version asked for.
Verified(t) ==
    IF manifest[t] # NoManifest /\ manifest[t].tag = t THEN manifest[t] ELSE NoManifest

SignedUrgent(t) == Verified(t) # NoManifest /\ Verified(t).urgent
-----------------------------------------------------------------------------
(***************************************************************************)
(* Who wants to install what.                                              *)
(***************************************************************************)

\* Mutant of Due: the wait runs from the first release newer than the hub.
Due_FirstSeen(t) ==
    \/ Soak = "none"
    \/ Soak = "wait" /\ (SignedUrgent(t) \/ \E s \in 1..mature : Newer(s, self[Hub]))

\* applyIfDueWith: a release installs at once, when its signed manifest says
\* it is urgent, or when it has been public long enough.
Due(t) ==
    \/ Soak = "none"
    \/ Soak = "wait" /\ (SignedUrgent(t) \/ t <= mature)

\* The goroutine polls: it asks for the latest release each time anew.
Check ==
    /\ pc[Hub] = "idle"
    /\ Soak # "disabled"
    /\ Newer(latest, self[Hub])
    /\ Due(latest)
    /\ pc' = [pc EXCEPT ![Hub] = "due"]
    /\ target' = [target EXCEPT ![Hub] = latest]
    /\ UNCHANGED <<releaseVars, installVars, lock, self, held, payload, faults>>

\* sshhub-ctl update, with or without --version.
CtlStart(c, t) ==
    /\ pc[c] = "idle"
    /\ t \in 1..latest
    /\ self' = [self EXCEPT ![c] = ctlBin.tag]
    /\ pc' = [pc EXCEPT ![c] = "due"]
    /\ target' = [target EXCEPT ![c] = t]
    /\ UNCHANGED <<releaseVars, installVars, lock, held, payload, faults>>
-----------------------------------------------------------------------------
(***************************************************************************)
(* DownloadAndApplyHubUpdate.                                              *)
(***************************************************************************)

\* The function is over, for good or with an error: its lock is released and
\* its variables are gone.
Leave(u, to) ==
    /\ pc' = [pc EXCEPT ![u] = to]
    /\ lock' = IF lock = u THEN NoOne ELSE lock
    /\ target' = [target EXCEPT ![u] = 1]
    /\ held' = [held EXCEPT ![u] = NoManifest]
    /\ payload' = [payload EXCEPT ![u] = First]

\* After an error the goroutine polls again and the command ends.
Return(u) == Leave(u, "idle")

\* A step that sets m and b if a condition holds and returns if it does not.
StepIf(u, from, cond, to, m, b) ==
    /\ pc[u] = from
    /\ \/ /\ cond
          /\ pc' = [pc EXCEPT ![u] = to]
          /\ held' = [held EXCEPT ![u] = m]
          /\ payload' = [payload EXCEPT ![u] = b]
          /\ UNCHANGED <<lock, target>>
       \/ ~cond /\ Return(u)
    /\ UNCHANGED <<releaseVars, installVars, self, faults>>

\* Mutant of Compare: the version need not be newer.
Compare_WellFormed(u) ==
    StepIf(u, "due", IsWellFormed(VersionOf[target[u]]), "asking", held[u], payload[u])

\* Mutant of Compare: nor well-formed.
Compare_Newer(u) ==
    StepIf(u, "due", Newer(target[u], self[u]), "asking", held[u], payload[u])

\* Only what spells a version, and is newer than the program that installs it.
Compare(u) ==
    LET ok == IsWellFormed(VersionOf[target[u]]) /\ Newer(target[u], self[u])
    IN  StepIf(u, "due", ok, "asking", held[u], payload[u])

\* Mutant of TakeLock: the result of flock is ignored.
TakeLock_Ignored(u) ==
    /\ pc[u] = "asking"
    /\ pc' = [pc EXCEPT ![u] = "locked"]
    /\ lock' = u
    /\ UNCHANGED <<releaseVars, installVars, fetchVars, faults>>

\* flock without waiting.
TakeLock(u) ==
    /\ pc[u] = "asking"
    /\ \/ /\ lock = NoOne
          /\ pc' = [pc EXCEPT ![u] = "locked"]
          /\ lock' = u
          /\ UNCHANGED <<target, held, payload>>
       \/ lock # NoOne /\ Return(u)
    /\ UNCHANGED <<releaseVars, installVars, self, faults>>

FetchManifest(u) ==
    LET m == Verified(target[u])
    IN  StepIf(u, "locked", m # NoManifest, "trusted", m, payload[u])

\* Mutant of Download: the archive is not held against the manifest.
Download_Unchecked(u) ==
    StepIf(u, "trusted", TRUE, "verified", NoManifest, artifact[target[u]])

\* The page may have changed since.  VerifyArtifact compares the digest, and
\* the manifest is not looked at again.
Download(u) ==
    LET b == artifact[target[u]]
    IN  StepIf(u, "trusted", b = Built(held[u].tag, held[u].build), "verified",
               NoManifest, b)

\* The first rename.
ReplaceHub(u) ==
    /\ pc[u] = "verified"
    /\ hubBin' = payload[u]
    /\ pc' = [pc EXCEPT ![u] = "half"]
    /\ UNCHANGED <<releaseVars, ctlBin, running, torn, lock, fetchVars, faults>>

\* The second one, and the end of the function.
ReplaceCtl(u) ==
    /\ pc[u] = "half"
    /\ ctlBin' = payload[u]
    /\ torn' = FALSE
    /\ Leave(u, "installed")
    /\ UNCHANGED <<releaseVars, hubBin, running, self, faults>>

\* A download, an extraction or a rename fails.
Fail(u) ==
    /\ pc[u] \in Holding
    /\ faults < MaxFaults
    /\ faults' = faults + 1
    /\ Return(u)
    /\ torn' = (torn \/ pc[u] = "half")
    /\ UNCHANGED <<releaseVars, hubBin, ctlBin, running, self>>
-----------------------------------------------------------------------------
(***************************************************************************)
(* Restarts.                                                               *)
(***************************************************************************)

\* The hub comes back as what is installed, with a new goroutine.  Whatever
\* the old one was doing has ended, and its lock with it.
HubRestarts ==
    /\ running' = hubBin
    /\ self' = [self EXCEPT ![Hub] = hubBin.tag]
    /\ target' = [target EXCEPT ![Hub] = 1]
    /\ held' = [held EXCEPT ![Hub] = NoManifest]
    /\ payload' = [payload EXCEPT ![Hub] = First]
    /\ torn' = (torn \/ pc[Hub] = "half")
    /\ lock' = IF lock = Hub THEN NoOne ELSE lock

\* Mutant of Restart: the new binaries wait for the next start.
Restart_Omitted(u) ==
    /\ pc[u] = "installed"
    /\ Return(u)
    /\ UNCHANGED <<releaseVars, installVars, self, faults>>

\* systemctl restart, by whoever has installed something.
Restart(u) ==
    /\ pc[u] = "installed"
    /\ HubRestarts
    /\ pc' = [pc EXCEPT ![u] = "idle", ![Hub] = "idle"]
    /\ UNCHANGED <<releaseVars, hubBin, ctlBin, faults>>

\* systemctl fails.  The goroutine has reported success and is not started
\* again; the command ends.
RestartFail(u) ==
    /\ pc[u] = "installed"
    /\ pc' = [pc EXCEPT ![u] = IF u = Hub THEN "ended" ELSE "idle"]
    /\ UNCHANGED <<releaseVars, installVars, lock, fetchVars, faults>>

\* The hub ends for any other reason, and systemd starts it.
HubCrash ==
    /\ faults < MaxFaults
    /\ faults' = faults + 1
    /\ HubRestarts
    /\ pc' = [pc EXCEPT ![Hub] = "idle"]
    /\ UNCHANGED <<releaseVars, hubBin, ctlBin>>

\* A command is interrupted.
CtlCrash(c) ==
    /\ pc[c] # "idle"
    /\ faults < MaxFaults
    /\ faults' = faults + 1
    /\ Return(c)
    /\ torn' = (torn \/ pc[c] = "half")
    /\ UNCHANGED <<releaseVars, hubBin, ctlBin, running, self>>

-----------------------------------------------------------------------------
Install(u) ==
    \/ Compare(u) \/ TakeLock(u) \/ FetchManifest(u) \/ Download(u)
    \/ ReplaceHub(u) \/ ReplaceCtl(u) \/ Restart(u)

Next ==
    \/ \E isUrgent \in BOOLEAN : Publish(isUrgent)
    \/ \E b \in Builds, m \in Manifests \cup {NoManifest} : PublishIrregular(b, m)
    \/ Rebuild
    \/ \E isUrgent \in BOOLEAN : Resign(isUrgent)
    \/ Mature
    \/ Check
    \/ \E c \in Ctls, t \in Tags : CtlStart(c, t)
    \/ \E u \in Updaters : Install(u) \/ Fail(u) \/ RestartFail(u)
    \/ HubCrash
    \/ \E c \in Ctls : CtlCrash(c)

\* The goroutine polls and an installation goes on; time passes.
Fairness ==
    /\ WF_vars(Check)
    /\ \A u \in Updaters : WF_vars(Install(u))
    /\ WF_vars(Mature)

SafeSpec == Init /\ [][Next]_vars
Spec == SafeSpec /\ Fairness
-----------------------------------------------------------------------------
(***************************************************************************)
(* Properties.                                                             *)
(***************************************************************************)

IsSigned(b) == \E m \in signed : b = Built(m.tag, m.build)

\* Nothing is ever installed, or run, that the maintainer has not signed as
\* that build, whatever the page shows when the manifest and later the archive
\* are fetched (update.go:243, VerifyArtifact).
OnlyVerified == IsSigned(hubBin) /\ IsSigned(ctlBin) /\ IsSigned(running)

\* What replaces a binary was made for the release that was asked for, and is
\* a well-formed version newer than the program that installs it: an older
\* release under a new name, or a tag that only compares as newer, is not
\* installed (update.go:205, update.go:563).
OnlyNewer ==
    [][hubBin' # hubBin =>
        \E u \in Updaters :
            /\ hubBin'.tag = target[u]
            /\ Newer(target[u], self[u])
            /\ IsWellFormed(VersionOf[target[u]])]_vars

\* The hub replaces itself with a release only when that has been public for
\* the soak period or was signed as urgent, however many releases, failures and
\* restarts lie between the check and the rename (update.go:352).
SoakHonoured ==
    [][pc[Hub] = "verified" /\ pc'[Hub] = "half"
        => \/ Soak = "none"
           \/ hubBin'.tag <= mature
           \/ \E m \in signed : m.urgent /\ m.tag = hubBin'.tag]_vars

\* The two binaries are one build whenever nobody replaces them, but for
\* installations that were interrupted: the lock keeps two of them from
\* mixing their renames (update.go:226).
PairMatches == lock = NoOne /\ ~torn => hubBin = ctlBin

\* The page of a release shows one build.
Intact(t) ==
    /\ Verified(t) # NoManifest
    /\ artifact[t] = Built(t, Verified(t).build)

\* A well-formed release that stays the latest, with its page intact, ends up
\* running, unless what runs is as new, whatever commands and failures came
\* before: only an endless stream of commands, which keep the lock from the
\* goroutine, or a goroutine that has ended without a restart prevents it
\* (update.go:231, update.go:507).
LatestInstalled ==
    \A t \in Tags :
        /\ Soak # "disabled"
        /\ IsWellFormed(VersionOf[t])
        /\ <>[](latest = t /\ Intact(t))
        /\ <>[](\A c \in Ctls : pc[c] = "idle")
        /\ []<>(pc[Hub] # "ended")
        => <>[]~Newer(t, running.tag)
=============================================================================
