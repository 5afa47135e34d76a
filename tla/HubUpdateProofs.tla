-------------------------- MODULE HubUpdateProofs --------------------------
(***************************************************************************)
(* Theorems about hub updates, for any number of commands, releases and    *)
(* faults: only what the maintainer signed is installed, it is newer than  *)
(* the program that installs it, the soak period is honoured, and the two  *)
(* binaries match unless an installation was interrupted.                  *)
(***************************************************************************)
EXTENDS HubUpdate, TLAPS

\* The hub's goroutine may install t without waiting any longer.
Cleared(t) ==
    \/ Soak = "none"
    \/ t <= mature
    \/ \E m \in signed : m.urgent /\ m.tag = t

Wanted == {"due", "asking"} \cup Holding

\* What an updater's pc says of its variables.
Checked(u) ==
    /\ pc[u] \in Holding => lock = u
    /\ pc[u] \in {"asking"} \cup Holding =>
        IsWellFormed(VersionOf[target[u]]) /\ Newer(target[u], self[u])
    /\ pc[u] = "trusted" => held[u] \in signed /\ held[u].tag = target[u]
    /\ pc[u] \in {"verified", "half"} => IsSigned(payload[u]) /\ payload[u].tag = target[u]
    /\ pc[u] = "half" => hubBin = payload[u]

ManifestsSigned == \A t \in Tags : manifest[t] # NoManifest => manifest[t] \in signed

\* Only an installation that is between its renames, or was interrupted
\* there, leaves two different binaries.
Paired == ~torn => hubBin = ctlBin \/ \E u \in Updaters : pc[u] = "half"

IInv ==
    /\ TypeOK
    /\ OnlyVerified
    /\ ManifestsSigned
    /\ \A u \in Updaters : Checked(u)
    /\ pc[Hub] \in Wanted => Cleared(target[Hub])
    /\ Paired

-----------------------------------------------------------------------------
(***************************************************************************)
(* Versions.                                                               *)
(***************************************************************************)

LEMMA AtType ==
  ASSUME NEW v \in Seq(Component), NEW i \in Nat
  PROVE  At(v, i) \in Nat /\ (At(v, i) > 0 => i \in 1..Len(v))
<1>1. i \in 1..Len(v) => v[i] \in Component
  OBVIOUS
<1>2. CASE i \in 1..Len(v) /\ v[i] # NotANumber
  <2>1. v[i] \in Nat
    BY <1>1, <1>2 DEF Component
  <2>2. At(v, i) = v[i]
    BY <1>2 DEF At
  <2> QED
    BY <1>2, <2>1, <2>2
<1>3. CASE ~(i \in 1..Len(v) /\ v[i] # NotANumber)
  <2>1. At(v, i) = 0
    BY <1>3 DEF At
  <2> QED
    BY <2>1
<1> QED
  BY <1>2, <1>3

\* What compareVersions finds newer is a strict order on every version it may
\* be handed, the malformed ones included, and a total one on those that
\* DownloadAndApplyHubUpdate lets through.
THEOREM NewerIsOrder ==
  ASSUME NEW v \in Seq(Component), NEW w \in Seq(Component), NEW x \in Seq(Component)
  PROVE  /\ ~IsNewer(v, v)
         /\ IsNewer(v, w) => ~IsNewer(w, v)
         /\ IsNewer(v, w) /\ IsNewer(w, x) => IsNewer(v, x)
         /\ IsWellFormed(v) /\ IsWellFormed(w) /\ v # w
                => IsNewer(v, w) \/ IsNewer(w, v)
<1>1. ~IsNewer(v, v)
  <2>1. \A i \in Places(v, v) : i \in Nat
    BY DEF Places
  <2>2. \A i \in Places(v, v) : At(v, i) \in Nat
    BY <2>1, AtType
  <2>3. \A i \in Places(v, v) : ~(At(v, i) > At(v, i))
    BY <2>2
  <2> QED
    BY <2>3 DEF IsNewer
<1>2. ASSUME IsNewer(v, w), IsNewer(w, v) PROVE FALSE
  <2>1. PICK i \in Places(v, w) : /\ At(v, i) > At(w, i)
                                  /\ \A k \in 1..(i - 1) : At(v, k) = At(w, k)
    BY <1>2 DEF IsNewer
  <2>2. PICK j \in Places(w, v) : /\ At(w, j) > At(v, j)
                                  /\ \A k \in 1..(j - 1) : At(w, k) = At(v, k)
    BY <1>2 DEF IsNewer
  <2>3. i \in Nat \ {0} /\ j \in Nat \ {0}
    BY DEF Places
  <2>4. /\ At(v, i) \in Nat /\ At(w, i) \in Nat
        /\ At(v, j) \in Nat /\ At(w, j) \in Nat
    BY <2>3, AtType
  <2>5. i = j \/ i \in 1..(j - 1) \/ j \in 1..(i - 1)
    BY <2>3
  <2> QED
    BY <2>1, <2>2, <2>4, <2>5
<1>3. ASSUME IsNewer(v, w), IsNewer(w, x) PROVE IsNewer(v, x)
  <2>1. PICK i \in Places(v, w) : /\ At(v, i) > At(w, i)
                                  /\ \A k \in 1..(i - 1) : At(v, k) = At(w, k)
    BY <1>3 DEF IsNewer
  <2>2. PICK j \in Places(w, x) : /\ At(w, j) > At(x, j)
                                  /\ \A k \in 1..(j - 1) : At(w, k) = At(x, k)
    BY <1>3 DEF IsNewer
  <2>3. i \in Nat \ {0} /\ j \in Nat \ {0}
    BY DEF Places
  <2> DEFINE k == IF i < j THEN i ELSE j
  <2>4. k \in Nat \ {0} /\ k <= i /\ k <= j
    BY <2>3
  <2>5. At(v, k) \in Nat /\ At(w, k) \in Nat /\ At(x, k) \in Nat
    BY <2>4, AtType
  <2>6. At(v, k) > At(x, k)
    BY <2>1, <2>2, <2>3, <2>5
  <2>7. \A n \in 1..(k - 1) : At(v, n) = At(x, n)
    BY <2>1, <2>2, <2>3
  <2>8. k \in 1..Len(v)
    <3>1. k \in Nat /\ At(v, k) > 0
      BY <2>4, <2>5, <2>6
    <3> HIDE DEF k
    <3> QED
      BY <3>1, AtType
  <2>9. k \in Places(v, x)
    BY <2>4, <2>8 DEF Places
  <2> QED
    BY <2>6, <2>7, <2>9 DEF IsNewer
<1>4. ASSUME IsWellFormed(v), IsWellFormed(w), v # w
      PROVE  IsNewer(v, w) \/ IsNewer(w, v)
  <2>1. /\ Len(v) = 3 /\ Len(w) = 3
        /\ \A i \in 1..3 : v[i] \in Nat /\ w[i] \in Nat /\ At(v, i) = v[i] /\ At(w, i) = w[i]
    <3>1. Len(v) = 3 /\ Len(w) = 3
      BY <1>4 DEF IsWellFormed
    <3>2. \A i \in 1..3 : v[i] \in Component /\ w[i] \in Component
      <4>1. /\ \A i \in 1..Len(v) : v[i] \in Component
            /\ \A i \in 1..Len(w) : w[i] \in Component
        OBVIOUS
      <4> QED
        BY <3>1, <4>1
    <3>3. \A i \in 1..3 : /\ At(v, i) = v[i] /\ v[i] # NotANumber
                          /\ At(w, i) = w[i] /\ w[i] # NotANumber
      BY <1>4, <3>1 DEF IsWellFormed, At
    <3> QED
      BY <3>1, <3>2, <3>3 DEF Component
  <2>2. v[1] # w[1] \/ v[2] # w[2] \/ v[3] # w[3]
    <3> SUFFICES ASSUME v[1] = w[1], v[2] = w[2], v[3] = w[3] PROVE FALSE
      OBVIOUS
    <3>1. \A i \in 1..3 : v[i] = w[i]
      OBVIOUS
    <3> QED
      BY <1>4, <2>1, <3>1
  <2>3. Places(v, w) = 1..3 /\ Places(w, v) = 1..3
    BY <2>1 DEF Places
  <2>4. \A i \in 1..3 : v[i] # w[i] /\ (\A k \in 1..(i - 1) : v[k] = w[k])
            => IsNewer(v, w) \/ IsNewer(w, v)
    BY <2>1, <2>3 DEF IsNewer
  <2> QED
    BY <2>2, <2>4
<1> QED
  BY <1>1, <1>2, <1>3, <1>4

-----------------------------------------------------------------------------
(***************************************************************************)
(* The invariant is inductive.                                             *)
(***************************************************************************)

LEMMA BuildsTyped ==
  /\ First \in Builds
  /\ \A t \in Tags, k \in 0..2 : Built(t, k) \in Builds
  /\ \A t \in Tags, k \in 1..2, isUrgent \in BOOLEAN :
        Sign(Built(t, k), isUrgent) \in Manifests
BY ParameterAssumption DEF First, Built, Sign, Builds, Manifests, Tags

LEMMA InitHolds == Init => IInv
<1> SUFFICES ASSUME Init PROVE IInv
  OBVIOUS
<1>1. 1 \in Tags
  BY ParameterAssumption DEF Tags
<1>2. Sign(First, FALSE) \in Manifests
  BY <1>1 DEF First, Built, Sign, Manifests
<1>3. TypeOK
  <2>1. /\ latest \in Tags /\ mature \in Tags
        /\ artifact \in [Tags -> Builds]
        /\ hubBin \in Builds /\ ctlBin \in Builds /\ running \in Builds
        /\ faults \in Nat
    BY <1>1, BuildsTyped DEF Init
  <2>2. manifest \in [Tags -> Manifests \cup {NoManifest}] /\ signed \subseteq Manifests
    BY <1>2 DEF Init
  <2>3. torn \in BOOLEAN
    BY DEF Init
  <2>4. /\ lock \in Updaters \cup {NoOne}
        /\ pc \in [Updaters -> Pcs]
        /\ self \in [Updaters -> Tags] /\ target \in [Updaters -> Tags]
        /\ held \in [Updaters -> Manifests \cup {NoManifest}]
        /\ payload \in [Updaters -> Builds]
    BY <1>1, BuildsTyped DEF Init, Pcs
  <2> QED
    BY <2>1, <2>2, <2>3, <2>4 DEF TypeOK
<1>4. OnlyVerified
  <2>1. Sign(First, FALSE) \in signed
    BY DEF Init
  <2>2. First = Built(Sign(First, FALSE).tag, Sign(First, FALSE).build)
    BY DEF First, Built, Sign
  <2> QED
    BY <2>1, <2>2 DEF Init, OnlyVerified, IsSigned
<1>5. ManifestsSigned
  BY DEF Init, ManifestsSigned
<1> QED
  BY <1>3, <1>4, <1>5, UpdaterAssumption
     DEF Init, IInv, Checked, Paired, Wanted, Holding, Updaters

\* The page changes, and time passes: what was signed stays signed and what
\* was mature stays mature.
LEMMA PageKeeps ==
  ASSUME IInv,
         UNCHANGED <<installVars, lock, pc, fetchVars>>,
         signed \subseteq signed', mature <= mature',
         TypeOK', ManifestsSigned'
  PROVE  IInv'
<1> USE DEF installVars, fetchVars
<1>1. \A b : IsSigned(b) => IsSigned(b)'
  BY DEF IsSigned
<1>2. \A t \in Tags : Cleared(t) => Cleared(t)'
  BY DEF Cleared, IInv, TypeOK, Tags
<1>3. OnlyVerified'
  BY <1>1 DEF IInv, OnlyVerified
<1>4. \A u \in Updaters : Checked(u)'
  BY <1>1 DEF IInv, Checked
<1>5. pc'[Hub] \in Wanted => Cleared(target[Hub])'
  BY <1>2 DEF IInv, TypeOK, Updaters
<1> QED
  BY <1>3, <1>4, <1>5 DEF IInv, Paired

LEMMA ReleaseKeeps ==
  ASSUME IInv,
         \/ \E isUrgent \in BOOLEAN : Publish(isUrgent)
         \/ \E b \in Builds, m \in Manifests \cup {NoManifest} : PublishIrregular(b, m)
         \/ Rebuild
         \/ \E isUrgent \in BOOLEAN : Resign(isUrgent)
         \/ Mature
  PROVE  IInv'
<1> USE DEF installVars, fetchVars
<1>1. CASE \E isUrgent \in BOOLEAN : Publish(isUrgent)
  <2> PICK isUrgent \in BOOLEAN : Publish(isUrgent)
    BY <1>1
  <2> DEFINE t == latest + 1
  <2>1. t \in Tags /\ manifest'[t] = Sign(Built(t, 1), isUrgent)
    BY DEF Publish, IInv, TypeOK
  <2>2. manifest'[t] \in Manifests /\ Built(t, 1) \in Builds
    BY <2>1, BuildsTyped
  <2>3. TypeOK'
    BY <2>1, <2>2 DEF Publish, IInv, TypeOK
  <2>4. ManifestsSigned'
    BY DEF Publish, IInv, TypeOK, ManifestsSigned
  <2> QED
    BY <2>3, <2>4, PageKeeps DEF Publish, IInv, TypeOK, Tags
<1>2. CASE \E b \in Builds, m \in Manifests \cup {NoManifest} : PublishIrregular(b, m)
  <2> PICK b \in Builds, m \in Manifests \cup {NoManifest} : PublishIrregular(b, m)
    BY <1>2
  <2>1. TypeOK'
    BY DEF PublishIrregular, IInv, TypeOK
  <2>2. ManifestsSigned'
    BY DEF PublishIrregular, IInv, TypeOK, ManifestsSigned
  <2> QED
    BY <2>1, <2>2, PageKeeps DEF PublishIrregular, IInv, TypeOK, Tags
<1>3. CASE Rebuild
  <2>1. Built(latest, 2) \in Builds
    BY BuildsTyped DEF IInv, TypeOK
  <2>2. TypeOK'
    BY <1>3, <2>1 DEF Rebuild, IInv, TypeOK
  <2>3. ManifestsSigned'
    BY <1>3 DEF Rebuild, IInv, ManifestsSigned
  <2> QED
    BY <1>3, <2>2, <2>3, PageKeeps DEF Rebuild, IInv, TypeOK, Tags
<1>4. CASE \E isUrgent \in BOOLEAN : Resign(isUrgent)
  <2> PICK isUrgent \in BOOLEAN : Resign(isUrgent)
    BY <1>4
  <2>1. manifest'[latest] = Sign(Built(latest, 2), isUrgent)
    BY DEF Resign, IInv, TypeOK
  <2>2. manifest'[latest] \in Manifests
    BY <2>1, BuildsTyped DEF IInv, TypeOK
  <2>3. TypeOK'
    BY <2>1, <2>2 DEF Resign, IInv, TypeOK
  <2>4. ManifestsSigned'
    BY DEF Resign, IInv, TypeOK, ManifestsSigned
  <2> QED
    BY <2>3, <2>4, PageKeeps DEF Resign, IInv, TypeOK, Tags
<1>5. CASE Mature
  <2>1. TypeOK'
    <3>1. mature' \in Tags
      BY <1>5, ParameterAssumption DEF Mature, IInv, TypeOK, Tags
    <3> QED
      BY <1>5, <3>1 DEF Mature, IInv, TypeOK
  <2>2. ManifestsSigned'
    BY <1>5 DEF Mature, IInv, ManifestsSigned
  <2> QED
    BY <1>5, <2>1, <2>2, PageKeeps DEF Mature, IInv, TypeOK, Tags
<1> QED
  BY <1>1, <1>2, <1>3, <1>4, <1>5

\* A step of one updater that installs nothing.
LEMMA LocalStep ==
  ASSUME IInv, NEW u \in Updaters,
         UNCHANGED <<releaseVars, hubBin, ctlBin, running>>,
         TypeOK', Checked(u)',
         \A v \in Updaters \ {u} :
            /\ pc'[v] = pc[v] /\ self'[v] = self[v] /\ target'[v] = target[v]
            /\ held'[v] = held[v] /\ payload'[v] = payload[v],
         \/ lock' = lock \/ lock = NoOne \/ lock = u,
         torn' = (torn \/ pc[u] = "half"),
         u = Hub /\ pc'[u] \in Wanted => Cleared(target'[u])
  PROVE  IInv'
<1> USE DEF releaseVars
<1>1. OnlyVerified' /\ ManifestsSigned'
  BY DEF IInv, OnlyVerified, ManifestsSigned, IsSigned
<1>2. ASSUME NEW v \in Updaters PROVE Checked(v)'
  <2>1. CASE v = u
    BY <2>1
  <2>2. CASE v # u
    <3>1. Checked(v) /\ NoOne # v
      BY UpdaterAssumption DEF IInv, Updaters
    <3> QED
      BY <2>2, <3>1 DEF Checked, IsSigned
  <2> QED
    BY <2>1, <2>2
<1>3. pc'[Hub] \in Wanted => Cleared(target[Hub])'
  <2>1. \A t : Cleared(t) => Cleared(t)'
    BY DEF Cleared
  <2>2. CASE u = Hub
    BY <2>1, <2>2 DEF Cleared
  <2>3. CASE u # Hub
    BY <2>1, <2>3 DEF IInv, Updaters
  <2> QED
    BY <2>2, <2>3
<1>4. Paired'
  <2>1. CASE torn'
    BY <2>1 DEF Paired
  <2>2. CASE ~torn'
    <3>1. ~torn /\ pc[u] # "half"
      BY <2>2
    <3>2. hubBin = ctlBin \/ \E v \in Updaters \ {u} : pc[v] = "half"
      BY <3>1 DEF IInv, Paired
    <3> QED
      BY <3>2 DEF Paired
  <2> QED
    BY <2>1, <2>2
<1> QED
  BY <1>1, <1>2, <1>3, <1>4 DEF IInv

\* Leaving the function, from anywhere.
LEMMA LeaveTyped ==
  ASSUME IInv, NEW u \in Updaters, NEW to \in Pcs, Leave(u, to)
  PROVE  /\ lock' \in Updaters \cup {NoOne}
         /\ pc' \in [Updaters -> Pcs]
         /\ target' \in [Updaters -> Tags]
         /\ held' \in [Updaters -> Manifests \cup {NoManifest}]
         /\ payload' \in [Updaters -> Builds]
         /\ pc'[u] = to
         /\ lock' = lock \/ lock = u
         /\ \A v \in Updaters \ {u} :
              /\ pc'[v] = pc[v] /\ target'[v] = target[v]
              /\ held'[v] = held[v] /\ payload'[v] = payload[v]
<1>1. 1 \in Tags
  BY ParameterAssumption DEF Tags
<1> QED
  BY <1>1, BuildsTyped DEF Leave, IInv, TypeOK

LEMMA StartKeeps ==
  ASSUME IInv, Check \/ \E c \in Ctls, t \in Tags : CtlStart(c, t)
  PROVE  IInv'
<1>1. CASE Check
  <2>1. Hub \in Updaters
    BY DEF Updaters
  <2>2. TypeOK'
    BY <1>1, <2>1 DEF Check, installVars, releaseVars, IInv, TypeOK, Pcs
  <2>3. Checked(Hub)'
    BY <1>1, <2>1 DEF Check, IInv, TypeOK, Checked, Holding
  <2>4. Cleared(latest)
    <3>1. SignedUrgent(latest) =>
            \E m \in signed : m.urgent /\ m.tag = latest
      BY DEF SignedUrgent, Verified, IInv, TypeOK, ManifestsSigned
    <3> QED
      BY <1>1, <3>1 DEF Check, Due, Cleared
  <2>5. Cleared(target'[Hub])
    BY <1>1, <2>1, <2>4 DEF Check, IInv, TypeOK
  <2> QED
    BY <1>1, <2>1, <2>2, <2>3, <2>5, LocalStep DEF Check, installVars, IInv, TypeOK
<1>2. CASE \E c \in Ctls, t \in Tags : CtlStart(c, t)
  <2> PICK c \in Ctls, t \in Tags : CtlStart(c, t)
    BY <1>2
  <2>1. c \in Updaters /\ c # Hub
    BY UpdaterAssumption DEF Updaters
  <2>2. TypeOK'
    BY <2>1 DEF CtlStart, installVars, releaseVars, IInv, TypeOK, Pcs, Builds
  <2>3. Checked(c)'
    BY <2>1 DEF CtlStart, IInv, TypeOK, Checked, Holding
  <2> QED
    BY <2>1, <2>2, <2>3, LocalStep DEF CtlStart, installVars, IInv, TypeOK
<1> QED
  BY <1>1, <1>2

\* The steps before the first rename.
LEMMA FetchKeeps ==
  ASSUME IInv, NEW u \in Updaters,
         Compare(u) \/ TakeLock(u) \/ FetchManifest(u) \/ Download(u)
  PROVE  IInv'
<1>1. /\ UNCHANGED <<releaseVars, installVars, self, faults>>
      /\ pc[u] \in {"due", "asking", "locked", "trusted"}
  BY DEF Compare, TakeLock, FetchManifest, Download, StepIf
<1>2. CASE Return(u)
  <2>1. TypeOK'
    BY <1>1, <1>2, LeaveTyped DEF Return, Pcs, releaseVars, installVars, IInv, TypeOK
  <2>2. Checked(u)' /\ pc'[u] \notin Wanted
    BY <1>2, LeaveTyped DEF Return, Pcs, Checked, Holding, Wanted
  <2>3. torn \in BOOLEAN /\ torn' = torn /\ pc[u] # "half"
    BY <1>1 DEF installVars, IInv, TypeOK
  <2>4. torn' = (torn \/ pc[u] = "half")
    BY <2>3
  <2> QED
    BY <1>1, <1>2, <2>1, <2>2, <2>4, LeaveTyped, LocalStep
       DEF Return, Pcs, releaseVars, installVars
<1>3. CASE ~Return(u)
  <2>1. /\ target' = target
        /\ \A v \in Updaters \ {u} :
            pc'[v] = pc[v] /\ held'[v] = held[v] /\ payload'[v] = payload[v]
        /\ lock' = lock \/ lock = NoOne
    BY <1>3 DEF Compare, TakeLock, FetchManifest, Download, StepIf, IInv, TypeOK
  <2>2. TypeOK' /\ Checked(u)'
    <3>1. CASE Compare(u)
      <4>1. TypeOK'
        BY <1>3, <3>1 DEF Compare, StepIf, releaseVars, installVars, IInv, TypeOK, Pcs
      <4>2. Checked(u)'
        BY <1>3, <3>1 DEF Compare, StepIf, IInv, TypeOK, Checked, Holding
      <4> QED
        BY <4>1, <4>2
    <3>2. CASE TakeLock(u)
      <4>1. TypeOK'
        BY <1>3, <3>2 DEF TakeLock, releaseVars, installVars, IInv, TypeOK, Pcs
      <4>2. Checked(u)'
        BY <1>3, <3>2 DEF TakeLock, IInv, TypeOK, Checked, Holding
      <4> QED
        BY <4>1, <4>2
    <3>3. CASE FetchManifest(u)
      <4>1. Verified(target[u]) \in Manifests \cup {NoManifest}
        BY DEF Verified, IInv, TypeOK
      <4>2. TypeOK'
        BY <1>3, <3>3, <4>1
           DEF FetchManifest, StepIf, releaseVars, installVars, IInv, TypeOK, Pcs
      <4>3. Verified(target[u]) # NoManifest =>
                Verified(target[u]) \in signed /\ Verified(target[u]).tag = target[u]
        BY DEF Verified, IInv, TypeOK, ManifestsSigned
      <4>4. Checked(u)'
        BY <1>1, <1>3, <3>3, <4>3
           DEF FetchManifest, StepIf, releaseVars, IInv, TypeOK, Checked, Holding
      <4> QED
        BY <4>2, <4>4
    <3>4. CASE Download(u)
      <4> DEFINE b == artifact[target[u]]
      <4>1. b \in Builds
        BY DEF IInv, TypeOK
      <4>2. TypeOK'
        BY <1>3, <3>4, <4>1
           DEF Download, StepIf, releaseVars, installVars, IInv, TypeOK, Pcs
      <4>3. b = Built(held[u].tag, held[u].build) /\ pc[u] = "trusted"
        BY <1>3, <3>4 DEF Download, StepIf
      <4>4. held[u] \in signed /\ held[u].tag = target[u]
        BY <4>3 DEF IInv, Checked
      <4>5. IsSigned(b) /\ b.tag = target[u]
        BY <4>3, <4>4 DEF IsSigned, Built
      <4>6. pc'[u] = "verified" /\ payload'[u] = b /\ UNCHANGED <<target, self, lock, signed>>
        BY <1>1, <1>3, <3>4 DEF Download, StepIf, IInv, TypeOK, releaseVars
      <4> HIDE DEF b
      <4>7. Checked(u)'
        BY <4>3, <4>5, <4>6 DEF IInv, Checked, Holding, IsSigned
      <4> QED
        BY <4>2, <4>7
    <3> QED
      BY <3>1, <3>2, <3>3, <3>4
  <2>3. pc[u] \in Wanted /\ target'[u] = target[u]
    BY <1>1, <2>1 DEF Wanted, Holding
  <2>4. u = Hub => Cleared(target'[u])
    BY <2>3 DEF IInv
  <2>5. torn \in BOOLEAN /\ torn' = torn /\ pc[u] # "half"
    BY <1>1 DEF installVars, IInv, TypeOK
  <2>6. torn' = (torn \/ pc[u] = "half")
    BY <2>5
  <2> QED
    BY <1>1, <2>1, <2>2, <2>4, <2>6, LocalStep DEF releaseVars, installVars
<1> QED
  BY <1>2, <1>3

\* Between the renames: whoever is there holds the lock, so that nobody else
\* is.
LEMMA ReplaceHubKeeps ==
  ASSUME IInv, NEW u \in Updaters, ReplaceHub(u)
  PROVE  IInv' /\ IsSigned(payload[u])
<1>1. pc[u] = "verified" /\ lock = u /\ IsSigned(payload[u])
  BY DEF ReplaceHub, IInv, Checked, Holding
<1>2. TypeOK'
  BY DEF ReplaceHub, releaseVars, fetchVars, IInv, TypeOK, Pcs
<1>3. OnlyVerified' /\ ManifestsSigned'
  BY <1>1 DEF ReplaceHub, releaseVars, IInv, OnlyVerified, ManifestsSigned, IsSigned
<1>4. Checked(u)'
  BY <1>1 DEF ReplaceHub, releaseVars, fetchVars, IInv, TypeOK, Checked, Holding, IsSigned
<1>5. ASSUME NEW v \in Updaters \ {u} PROVE Checked(v)'
  <2>1. pc'[v] = pc[v] /\ pc[v] \notin Holding
    BY <1>1 DEF ReplaceHub, IInv, TypeOK, Checked
  <2> QED
    BY <2>1 DEF ReplaceHub, fetchVars, IInv, Checked, Holding
<1>6. pc'[Hub] \in Wanted => Cleared(target[Hub])'
  <2>1. pc'[Hub] \in Wanted => pc[Hub] \in Wanted
    BY <1>1 DEF ReplaceHub, IInv, TypeOK, Wanted, Holding
  <2> QED
    BY <2>1 DEF ReplaceHub, releaseVars, fetchVars, IInv, Cleared
<1>7. Paired'
  BY DEF ReplaceHub, IInv, TypeOK, Paired
<1> QED
  BY <1>1, <1>2, <1>3, <1>4, <1>5, <1>6, <1>7 DEF IInv

LEMMA ReplaceCtlKeeps ==
  ASSUME IInv, NEW u \in Updaters, ReplaceCtl(u)
  PROVE  IInv'
<1>1. pc[u] = "half" /\ lock = u /\ hubBin = payload[u] /\ IsSigned(payload[u])
  BY DEF ReplaceCtl, IInv, Checked, Holding
<1>2. TypeOK'
  <2>1. "installed" \in Pcs /\ torn' \in BOOLEAN /\ ctlBin' \in Builds
    BY DEF ReplaceCtl, IInv, TypeOK, Pcs
  <2> QED
    BY <2>1, LeaveTyped DEF ReplaceCtl, releaseVars, IInv, TypeOK
<1>3. OnlyVerified' /\ ManifestsSigned'
  BY <1>1 DEF ReplaceCtl, releaseVars, IInv, OnlyVerified, ManifestsSigned, IsSigned
<1>4. \A v \in Updaters : pc'[v] \notin Holding
  BY <1>1 DEF ReplaceCtl, Leave, IInv, TypeOK, Checked, Holding
<1>5. ASSUME NEW v \in Updaters PROVE Checked(v)'
  <2>1. pc'[v] = "asking" => /\ pc[v] = "asking" /\ target'[v] = target[v]
                             /\ self'[v] = self[v]
    BY <1>1 DEF ReplaceCtl, Leave, IInv, TypeOK
  <2> QED
    BY <1>4, <2>1 DEF IInv, Checked, Holding
<1>6. pc'[Hub] \in Wanted => Cleared(target[Hub])'
  <2>1. pc'[Hub] \in Wanted => pc[Hub] \in Wanted /\ target'[Hub] = target[Hub]
    BY <1>1 DEF ReplaceCtl, Leave, IInv, TypeOK, Wanted, Holding, Updaters
  <2> QED
    BY <2>1 DEF ReplaceCtl, releaseVars, IInv, Cleared
<1>7. Paired'
  BY <1>1 DEF ReplaceCtl, Paired
<1> QED
  BY <1>2, <1>3, <1>5, <1>6, <1>7 DEF IInv

\* A step fails, or a command is interrupted.
LEMMA FailKeeps ==
  ASSUME IInv, NEW u \in Updaters, Fail(u) \/ (u \in Ctls /\ CtlCrash(u))
  PROVE  IInv'
<1>1. /\ Return(u)
      /\ torn' = (torn \/ pc[u] = "half")
      /\ UNCHANGED <<releaseVars, hubBin, ctlBin, running, self>>
      /\ faults' = faults + 1
  BY DEF Fail, CtlCrash
<1>2. torn' \in BOOLEAN
  BY <1>1
<1>3. TypeOK'
  BY <1>1, <1>2, LeaveTyped DEF Return, Pcs, releaseVars, IInv, TypeOK
<1>4. Checked(u)' /\ pc'[u] \notin Wanted
  BY <1>1, LeaveTyped DEF Return, Pcs, Checked, Holding, Wanted
<1> QED
  BY <1>1, <1>3, <1>4, LeaveTyped, LocalStep DEF Return, Pcs, releaseVars

LEMMA RestartFailKeeps ==
  ASSUME IInv, NEW u \in Updaters, RestartFail(u)
  PROVE  IInv'
<1>1. TypeOK'
  BY DEF RestartFail, releaseVars, installVars, fetchVars, IInv, TypeOK, Pcs
<1>2. Checked(u)' /\ pc'[u] \notin Wanted
  BY DEF RestartFail, IInv, TypeOK, Checked, Holding, Wanted
<1>3. torn \in BOOLEAN /\ torn' = torn /\ pc[u] # "half"
  BY DEF RestartFail, installVars, IInv, TypeOK
<1>4. torn' = (torn \/ pc[u] = "half")
  BY <1>3
<1>5. \A v \in Updaters \ {u} : pc'[v] = pc[v]
  BY DEF RestartFail, IInv, TypeOK
<1> QED
  BY <1>1, <1>2, <1>4, <1>5, LocalStep DEF RestartFail, installVars, fetchVars

\* The hub ends and starts, with u the updater that had it restarted, or the
\* hub's own.
LEMMA HubRestartsKeeps ==
  ASSUME IInv, NEW u \in Updaters, HubRestarts,
         u # Hub => pc[u] = "installed",
         pc' = [pc EXCEPT ![u] = "idle", ![Hub] = "idle"],
         UNCHANGED <<releaseVars, hubBin, ctlBin>>,
         faults' \in Nat
  PROVE  IInv'
<1>1. Hub \in Updaters /\ 1 \in Tags
  BY ParameterAssumption DEF Updaters, Tags
<1>2. TypeOK'
  <2>1. torn' \in BOOLEAN
    BY DEF HubRestarts
  <2>2. hubBin.tag \in Tags
    BY DEF IInv, TypeOK, Builds
  <2> QED
    BY <1>1, <2>1, <2>2, BuildsTyped DEF HubRestarts, releaseVars, IInv, TypeOK, Pcs
<1>3. OnlyVerified' /\ ManifestsSigned'
  BY DEF HubRestarts, releaseVars, IInv, OnlyVerified, ManifestsSigned, IsSigned
<1>4. pc'[Hub] = "idle" /\ pc'[u] = "idle"
  BY <1>1 DEF IInv, TypeOK
<1>5. ASSUME NEW v \in Updaters PROVE Checked(v)'
  <2>1. CASE v = u \/ v = Hub
    BY <1>4, <2>1 DEF Checked, Holding
  <2>2. CASE v # u /\ v # Hub
    <3>1. /\ pc'[v] = pc[v] /\ self'[v] = self[v] /\ target'[v] = target[v]
          /\ held'[v] = held[v] /\ payload'[v] = payload[v]
      BY <2>2 DEF HubRestarts, IInv, TypeOK
    <3> QED
      BY <2>2, <3>1, UpdaterAssumption
         DEF HubRestarts, releaseVars, IInv, Checked, IsSigned, Updaters
  <2> QED
    BY <2>1, <2>2
<1>6. Paired'
  <2>1. CASE torn'
    BY <2>1 DEF Paired
  <2>2. CASE ~torn'
    <3>1. ~torn /\ pc[Hub] # "half"
      BY <2>2 DEF HubRestarts
    <3>2. \A v \in Updaters : pc[v] = "half" => pc'[v] = "half"
      BY <1>1, <3>1 DEF IInv, TypeOK
    <3> QED
      BY <3>1, <3>2 DEF IInv, Paired
  <2> QED
    BY <2>1, <2>2
<1> QED
  BY <1>2, <1>3, <1>4, <1>5, <1>6 DEF IInv, Wanted, Holding

LEMMA RestartKeeps ==
  ASSUME IInv, (\E u \in Updaters : Restart(u)) \/ HubCrash
  PROVE  IInv'
<1>1. CASE \E u \in Updaters : Restart(u)
  BY <1>1, HubRestartsKeeps DEF Restart, IInv, TypeOK
<1>2. CASE HubCrash
  <2>1. [pc EXCEPT ![Hub] = "idle"] = [pc EXCEPT ![Hub] = "idle", ![Hub] = "idle"]
    BY DEF IInv, TypeOK
  <2>2. faults' \in Nat
    BY <1>2 DEF HubCrash, IInv, TypeOK
  <2> QED
    BY <1>2, <2>1, <2>2, HubRestartsKeeps DEF HubCrash, Updaters
<1> QED
  BY <1>1, <1>2

LEMMA NextHolds == IInv /\ [Next]_vars => IInv'
<1> SUFFICES ASSUME IInv, [Next]_vars PROVE IInv'
  OBVIOUS
<1>1. CASE \E u \in Updaters : Install(u) \/ Fail(u) \/ RestartFail(u)
  BY <1>1, FetchKeeps, ReplaceHubKeeps, ReplaceCtlKeeps, RestartKeeps, FailKeeps,
     RestartFailKeeps DEF Install
<1>2. CASE \E c \in Ctls : CtlCrash(c)
  BY <1>2, FailKeeps DEF Updaters
<1>3. CASE UNCHANGED vars
  <2> USE <1>3 DEF vars, releaseVars, installVars, fetchVars
  <2>1. TypeOK'
    BY DEF IInv, TypeOK
  <2>2. OnlyVerified' /\ ManifestsSigned' /\ Paired'
    BY DEF IInv, OnlyVerified, ManifestsSigned, Paired, IsSigned
  <2> QED
    BY <2>1, <2>2 DEF IInv, Checked, IsSigned, Cleared
<1> QED
  BY <1>1, <1>2, <1>3, ReleaseKeeps, StartKeeps, RestartKeeps DEF Next

LEMMA Invariance == SafeSpec => []IInv
BY InitHolds, NextHolds, PTL DEF SafeSpec

LEMMA SpecIsSafe == Spec => SafeSpec
BY DEF Spec

-----------------------------------------------------------------------------
(***************************************************************************)
(* The theorems.                                                           *)
(***************************************************************************)

\* Every variable keeps its type.
THEOREM TypeCorrect == Spec => []TypeOK
<1> IInv => TypeOK
  BY DEF IInv
<1> QED
  BY Invariance, SpecIsSafe, PTL

\* What is installed, and what runs, is a build the maintainer has signed.
THEOREM InstalledIsSigned == Spec => []OnlyVerified
<1> IInv => OnlyVerified
  BY DEF IInv
<1> QED
  BY Invariance, SpecIsSafe, PTL

\* The lock keeps two installations from mixing their renames: the binaries
\* match unless one was interrupted.
THEOREM BinariesMatch == Spec => []PairMatches
<1>1. IInv => PairMatches
  <2> SUFFICES ASSUME IInv, lock = NoOne, ~torn PROVE hubBin = ctlBin
    BY DEF PairMatches
  <2>1. \A u \in Updaters : pc[u] # "half"
    BY UpdaterAssumption DEF IInv, Checked, Holding, Updaters
  <2> QED
    BY <2>1 DEF IInv, Paired
<1> QED
  BY <1>1, Invariance, SpecIsSafe, PTL

\* Only this step replaces the hub's binary.
LEMMA HubBinChanges ==
  ASSUME IInv, Next, hubBin' # hubBin
  PROVE  \E u \in Updaters : ReplaceHub(u)
BY DEF Next, Install, Publish, PublishIrregular, Rebuild, Resign, Mature, Check,
       CtlStart, Compare, TakeLock, FetchManifest, Download, StepIf, ReplaceCtl,
       Restart, Fail, RestartFail, HubCrash, CtlCrash, installVars

\* What replaces the hub's binary is the release that was asked for, well
\* formed, and newer than the program that installs it.
THEOREM InstallsNewer == Spec => OnlyNewer
<1>1. IInv /\ [Next]_vars =>
        [hubBin' # hubBin =>
            \E u \in Updaters :
                /\ hubBin'.tag = target[u]
                /\ Newer(target[u], self[u])
                /\ IsWellFormed(VersionOf[target[u]])]_vars
  <2> SUFFICES ASSUME IInv, Next, hubBin' # hubBin
               PROVE  \E u \in Updaters :
                        /\ hubBin'.tag = target[u]
                        /\ Newer(target[u], self[u])
                        /\ IsWellFormed(VersionOf[target[u]])
    BY DEF vars, installVars
  <2>1. PICK u \in Updaters : ReplaceHub(u)
    BY HubBinChanges
  <2> QED
    BY <2>1 DEF ReplaceHub, IInv, Checked, Holding
<1> QED
  BY <1>1, Invariance, SpecIsSafe, PTL DEF OnlyNewer, SafeSpec

\* The goroutine's way between its renames.
LEMMA HubRenames ==
  ASSUME IInv, Next, pc[Hub] = "verified", pc'[Hub] = "half"
  PROVE  ReplaceHub(Hub)
<1> USE DEF IInv, TypeOK, Updaters
<1>1. CASE \E u \in Updaters : Install(u)
  <2> PICK u \in Updaters : Install(u)
    BY <1>1
  <2>1. CASE ReplaceHub(u)
    BY <2>1 DEF ReplaceHub
  <2>2. CASE ReplaceCtl(u)
    BY <2>2, LeaveTyped DEF ReplaceCtl, Pcs
  <2>3. CASE Restart(u)
    BY <2>3 DEF Restart
  <2>4. CASE Compare(u) \/ TakeLock(u) \/ FetchManifest(u) \/ Download(u)
    BY <2>4 DEF Compare, TakeLock, FetchManifest, Download, StepIf, Return, Leave
  <2> QED
    BY <2>1, <2>2, <2>3, <2>4 DEF Install
<1>2. CASE \E u \in Updaters : Fail(u) \/ RestartFail(u)
  BY <1>2 DEF Fail, RestartFail, Return, Leave
<1>3. CASE HubCrash
  BY <1>3 DEF HubCrash
<1>4. CASE \E c \in Ctls, t \in Tags : CtlStart(c, t) \/ CtlCrash(c)
  BY <1>4, UpdaterAssumption DEF CtlStart, CtlCrash, Return, Leave
<1>5. CASE UNCHANGED pc
  BY <1>5
<1>6. CASE Check
  BY <1>6 DEF Check
<1> QED
  BY <1>1, <1>2, <1>3, <1>4, <1>5, <1>6
     DEF Next, Publish, PublishIrregular, Rebuild, Resign, Mature, CtlCrash

\* The hub's goroutine replaces it only with a release that has been public for
\* the soak period or was signed as urgent.
THEOREM SoakIsHonoured == Spec => SoakHonoured
<1>1. IInv /\ [Next]_vars =>
        [pc[Hub] = "verified" /\ pc'[Hub] = "half"
          => \/ Soak = "none"
             \/ hubBin'.tag <= mature
             \/ \E m \in signed : m.urgent /\ m.tag = hubBin'.tag]_vars
  <2> SUFFICES ASSUME IInv, Next, pc[Hub] = "verified", pc'[Hub] = "half"
               PROVE  Cleared(hubBin'.tag)
    BY DEF Cleared
  <2>1. Hub \in Updaters
    BY DEF Updaters
  <2>2. ReplaceHub(Hub)
    BY HubRenames
  <2>3. hubBin'.tag = target[Hub] /\ Cleared(target[Hub])
    BY <2>1, <2>2 DEF ReplaceHub, IInv, Checked, Wanted, Holding
  <2> QED
    BY <2>3
<1> QED
  BY <1>1, Invariance, SpecIsSafe, PTL DEF SoakHonoured, SafeSpec

-----------------------------------------------------------------------------
(***************************************************************************)
(* The hub itself never goes back.  OnlyNewer compares what is installed   *)
(* with the program that installs it; for the goroutine that program is    *)
(* the running hub.  A command compares with its own version, which it has *)
(* read before it waits for its turn, so that only the goroutine keeps the *)
(* hub from an older release.                                              *)
(***************************************************************************)

\* The goroutine is compiled into the hub that runs.
SelfIsRunning == self[Hub] = running.tag

\* What the goroutine has installed waits for a restart, and is newer.
Ahead == hubBin = running \/ Newer(hubBin.tag, running.tag)

LEMMA SelfInit == Init => SelfIsRunning /\ Ahead
BY DEF Init, SelfIsRunning, Ahead, Updaters, First, Built

LEMMA RestartCases ==
  ASSUME Next
  PROVE  (HubRestarts /\ hubBin' = hubBin) \/ UNCHANGED running
BY DEF Next, Install, Publish, PublishIrregular, Rebuild, Resign, Mature, Check,
       CtlStart, Compare, TakeLock, FetchManifest, Download, StepIf, ReplaceHub,
       ReplaceCtl, Restart, Fail, RestartFail, HubCrash, CtlCrash, installVars

LEMMA SelfCases ==
  ASSUME Next
  PROVE  \/ HubRestarts
         \/ UNCHANGED self
         \/ \E c \in Ctls : self' = [self EXCEPT ![c] = ctlBin.tag]
BY DEF Next, Install, Publish, PublishIrregular, Rebuild, Resign, Mature, Check,
       CtlStart, Compare, TakeLock, FetchManifest, Download, StepIf, ReplaceHub,
       ReplaceCtl, Restart, Fail, RestartFail, HubCrash, CtlCrash, fetchVars

LEMMA SelfKept == IInv /\ SelfIsRunning /\ [Next]_vars => SelfIsRunning'
<1> SUFFICES ASSUME IInv, SelfIsRunning, [Next]_vars PROVE SelfIsRunning'
  OBVIOUS
<1>1. Hub \in Updaters /\ self \in [Updaters -> Tags]
  BY DEF IInv, TypeOK, Updaters
<1>2. CASE UNCHANGED vars
  BY <1>2 DEF vars, installVars, fetchVars, SelfIsRunning
<1>3. CASE HubRestarts
  BY <1>1, <1>3 DEF HubRestarts, SelfIsRunning
<1>4. CASE Next /\ ~HubRestarts
  <2>1. UNCHANGED running
    BY <1>4, RestartCases
  <2>2. self'[Hub] = self[Hub]
    BY <1>1, <1>4, SelfCases, UpdaterAssumption
  <2> QED
    BY <2>1, <2>2 DEF SelfIsRunning
<1> QED
  BY <1>2, <1>3, <1>4

LEMMA SelfInvariance == SafeSpec => [](IInv /\ SelfIsRunning)
BY InitHolds, NextHolds, SelfInit, SelfKept, PTL DEF SafeSpec

\* Whatever commands run beside it, and whatever was installed since it
\* started, the goroutine replaces the hub's binary only with a release that is
\* newer than the hub that runs (update.go:208, update.go:334).
THEOREM GoroutineGoesForward ==
  Spec => [][pc[Hub] = "verified" /\ pc'[Hub] = "half"
              => Newer(hubBin'.tag, running.tag)]_vars
<1>1. IInv /\ SelfIsRunning /\ [Next]_vars =>
        [pc[Hub] = "verified" /\ pc'[Hub] = "half"
            => Newer(hubBin'.tag, running.tag)]_vars
  <2> SUFFICES ASSUME IInv, SelfIsRunning, Next, pc[Hub] = "verified", pc'[Hub] = "half"
               PROVE  Newer(hubBin'.tag, running.tag)
    OBVIOUS
  <2>1. ReplaceHub(Hub) /\ Hub \in Updaters
    BY HubRenames DEF Updaters
  <2>2. hubBin'.tag = target[Hub] /\ Newer(target[Hub], self[Hub])
    BY <2>1 DEF ReplaceHub, IInv, Checked, Holding
  <2> QED
    BY <2>2 DEF SelfIsRunning
<1> QED
  BY <1>1, SelfInvariance, SpecIsSafe, PTL DEF SafeSpec

\* Where the goroutine is alone, what is installed is ahead of what runs.
LEMMA AheadKept ==
  ASSUME Ctls = {}
  PROVE  IInv /\ SelfIsRunning /\ Ahead /\ [Next]_vars => Ahead'
<1> SUFFICES ASSUME IInv, SelfIsRunning, Ahead, [Next]_vars PROVE Ahead'
  OBVIOUS
<1>1. CASE UNCHANGED vars
  BY <1>1 DEF vars, installVars, Ahead
<1>2. CASE Next /\ hubBin' # hubBin
  <2>1. ReplaceHub(Hub) /\ Hub \in Updaters
    BY <1>2, HubBinChanges DEF Updaters
  <2>2. hubBin'.tag = target[Hub] /\ Newer(target[Hub], self[Hub]) /\ running' = running
    BY <2>1 DEF ReplaceHub, IInv, Checked, Holding
  <2> QED
    BY <2>2 DEF SelfIsRunning, Ahead
<1>3. CASE Next /\ hubBin' = hubBin
  BY <1>3, RestartCases DEF HubRestarts, Ahead
<1> QED
  BY <1>1, <1>2, <1>3

LEMMA AheadInvariance ==
  ASSUME Ctls = {}
  PROVE  SafeSpec => [](IInv /\ SelfIsRunning /\ Ahead)
BY InitHolds, NextHolds, SelfInit, SelfKept, AheadKept, PTL DEF SafeSpec

\* A hub that only its goroutine updates never comes back as an older release,
\* whatever crashes, failures and irregular releases lie between: every change
\* of what runs is a step forward in the order of versions (update.go:208).
THEOREM NeverBack ==
  ASSUME Ctls = {}
  PROVE  Spec => [][running' # running => Newer(running'.tag, running.tag)]_vars
<1>1. Ahead /\ [Next]_vars =>
        [running' # running => Newer(running'.tag, running.tag)]_vars
  BY RestartCases DEF HubRestarts, Ahead
<1> QED
  BY <1>1, AheadInvariance, SpecIsSafe, PTL DEF SafeSpec
=============================================================================
