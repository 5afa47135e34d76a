-------------------------- MODULE HubConfigProofs --------------------------
(***************************************************************************)
(* Theorems about the configuration file, for any number of backends,      *)
(* users, commands and edits: what a hub runs is unambiguous and current,  *)
(* grants do not outlive their backends, commands that do not overlap lose *)
(* nothing, which commands leave a file that loads, and what the SSH front *)
(* makes of it.                                                            *)
(***************************************************************************)
EXTENDS HubConfig, TLAPS

GrantsOK(cfg) == \A u \in DOMAIN cfg.grants : cfg.grants[u] \subseteq cfg.backends

\* What a command was asked to do, and what it has read.
Asked(p) ==
    \/ op[p] = "add" /\ id[p] \in Ids /\ token[p] \in Tokens
    \/ op[p] = "remove" /\ id[p] \in Ids

Reading(p) ==
    /\ pc[p] # "idle" => Asked(p)
    /\ pc[p] = "read" => GrantsOK(snap[p]) /\ (~overlapped => snap[p] = file)

IInv ==
    /\ TypeOK
    /\ hubUp => Validate(running)
    /\ RunningIsCurrent
    /\ GrantsOK(file)
    /\ SoleCommandsKept
    /\ \A p \in Commands : Reading(p)

-----------------------------------------------------------------------------
(***************************************************************************)
(* What the commands and edits make of a configuration.                    *)
(***************************************************************************)

LEMMA ConfigFields ==
  ASSUME NEW cfg
  PROVE  cfg \in Config <=>
            /\ cfg = [backends |-> cfg.backends, token |-> cfg.token,
                      aliases |-> cfg.aliases, grants |-> cfg.grants,
                      routes |-> cfg.routes]
            /\ cfg.backends \subseteq Ids
            /\ cfg.token \in [Ids -> Tokens \cup {NoToken}]
            /\ cfg.aliases \in [Ids -> SUBSET Names]
            /\ DOMAIN cfg.grants \subseteq Users
            /\ cfg.grants \in [DOMAIN cfg.grants -> SUBSET Ids]
            /\ cfg.routes \subseteq Ids
<1>1. \A g : g \in UNION {[us -> SUBSET Ids] : us \in SUBSET Users}
        <=> DOMAIN g \subseteq Users /\ g \in [DOMAIN g -> SUBSET Ids]
  OBVIOUS
<1> QED
  BY <1>1 DEF Config

LEMMA AddedKeeps ==
  ASSUME NEW cfg \in Config, Listed(cfg), GrantsOK(cfg), NEW i \in Ids, NEW t \in Tokens
  PROVE  /\ Added(cfg, i, t) \in Config
         /\ Listed(Added(cfg, i, t))
         /\ GrantsOK(Added(cfg, i, t))
         /\ Added(cfg, i, t).backends = cfg.backends \cup {i}
<1> DEFINE new == Added(cfg, i, t)
<1>1. /\ new = [backends |-> cfg.backends \cup {i},
                token    |-> [cfg.token EXCEPT ![i] = t],
                aliases  |-> [cfg.aliases EXCEPT ![i] = {}],
                grants   |-> cfg.grants,
                routes   |-> cfg.routes]
  <2>1. new = [cfg EXCEPT !.backends = cfg.backends \cup {i},
                          !.token = [cfg.token EXCEPT ![i] = t],
                          !.aliases = [cfg.aliases EXCEPT ![i] = {}]]
    BY DEF Added
  <2> QED
    BY <2>1, ConfigFields
<1>2. new \in Config
  BY <1>1, ConfigFields
<1> QED
  BY <1>1, <1>2, ConfigFields DEF Listed, GrantsOK

LEMMA RemovedKeeps ==
  ASSUME NEW cfg \in Config, Listed(cfg), GrantsOK(cfg), NEW i \in Ids
  PROVE  /\ Removed(cfg, i) \in Config
         /\ Listed(Removed(cfg, i))
         /\ GrantsOK(Removed(cfg, i))
         /\ Removed(cfg, i).backends = cfg.backends \ {i}
<1> DEFINE new == Removed(cfg, i)
<1>1. /\ new = [backends |-> cfg.backends \ {i},
                token    |-> [cfg.token EXCEPT ![i] = NoToken],
                aliases  |-> [cfg.aliases EXCEPT ![i] = {}],
                grants   |-> [u \in DOMAIN cfg.grants |-> cfg.grants[u] \ {i}],
                routes   |-> cfg.routes]
  <2>1. new = [cfg EXCEPT !.backends = cfg.backends \ {i},
                          !.token = [cfg.token EXCEPT ![i] = NoToken],
                          !.aliases = [cfg.aliases EXCEPT ![i] = {}],
                          !.grants = [u \in DOMAIN cfg.grants |-> cfg.grants[u] \ {i}]]
    BY DEF Removed
  <2> QED
    BY <2>1, ConfigFields
<1>2. new \in Config
  BY <1>1, ConfigFields
<1> QED
  BY <1>1, <1>2, ConfigFields DEF Listed, GrantsOK

\* An edit replaces one of the fields the operator may change.
LEMMA EditTyped ==
  ASSUME NEW cfg \in Config, Listed(cfg)
  PROVE  /\ \A as \in [Ids -> SUBSET Names] :
              LET new == [cfg EXCEPT !.aliases = as]
              IN  (\A i \in Ids \ cfg.backends : as[i] = {})
                    => new \in Config /\ Listed(new) /\ new.backends = cfg.backends
         /\ \A rs \in SUBSET Ids :
              LET new == [cfg EXCEPT !.routes = rs]
              IN  new \in Config /\ Listed(new) /\ new.backends = cfg.backends
         /\ \A g : LET new == [cfg EXCEPT !.grants = g]
                  IN  DOMAIN g \subseteq Users /\ g \in [DOMAIN g -> SUBSET Ids]
                        => new \in Config /\ Listed(new) /\ new.backends = cfg.backends
  BY ConfigFields DEF Listed

\* Validate excludes every ambiguity.
LEMMA Unambiguous ==
  ASSUME NEW cfg \in Config, Validate(cfg)
  PROVE  /\ \A t \in Tokens : \A i, j \in TokenOwners(cfg, t) : i = j
         /\ \A n \in Names \cup Ids : \A i, j \in NameOwners(cfg, n) : i = j
         /\ GrantsOK(cfg)
<1>1. \A t \in Tokens : \A i, j \in TokenOwners(cfg, t) : i = j
  BY NamesAssumption DEF Validate, TokenOwners
<1>2. \A n \in Names \cup Ids : \A i, j \in NameOwners(cfg, n) : i = j
  BY DEF Validate, NameOwners
<1> QED
  BY <1>1, <1>2 DEF Validate, GrantsOK

-----------------------------------------------------------------------------
(***************************************************************************)
(* The invariant is inductive.                                             *)
(***************************************************************************)

LEMMA InitHolds == Init => IInv
<1> SUFFICES ASSUME Init PROVE IInv
  OBVIOUS
<1>1. Fresh \in Config /\ Listed(Fresh)
  BY ConfigFields DEF Fresh, Listed
<1>2. TypeOK
  <2>1. /\ hubUp \in BOOLEAN
        /\ IF hubUp THEN running \in Config ELSE running = NoConfig
        /\ overlapped \in BOOLEAN
        /\ skipped \in BOOLEAN
    BY DEF Init
  <2>2. commands \in 0..MaxCommands /\ edits \in 0..MaxEdits /\ faults \in 0..MaxFaults
    BY BoundsAssumption DEF Init
  <2>3. /\ file \in Config /\ Listed(file)
        /\ \A p \in Commands : pc[p] = "idle" /\ snap[p] = NoConfig
    BY <1>1 DEF Init
  <2>4. /\ pc \in [Commands -> Pcs]
        /\ op \in [Commands -> {"none", "add", "remove"}]
        /\ id \in [Commands -> Ids \cup {NoId}]
        /\ token \in [Commands -> Tokens \cup {NoToken}]
        /\ snap \in [Commands -> Config \cup {NoConfig}]
        /\ owed \subseteq Ids
    BY DEF Init, Pcs
  <2> QED
    BY <2>1, <2>2, <2>3, <2>4 DEF TypeOK
<1> QED
  BY <1>2 DEF Init, IInv, RunningIsCurrent, GrantsOK, SoleCommandsKept, Reading, Fresh

\* A command reads the file.
LEMMA ReadKeeps ==
  ASSUME IInv, NEW p \in Commands, NEW o \in {"add", "remove"}, NEW i \in Ids,
         NEW t \in Tokens \cup {NoToken}, ReadFile(p, o, i, t)
  PROVE  IInv'
<1>1. TypeOK'
  BY BoundsAssumption DEF IInv, TypeOK, ReadFile, Pcs, hubVars, history
<1>2. RunningIsCurrent'
  BY DEF IInv, TypeOK, RunningIsCurrent, ReadFile, hubVars, history
<1>3. \A q \in Commands : Reading(q)'
  BY DEF IInv, TypeOK, Reading, Asked, ReadFile, history
<1> QED
  BY <1>1, <1>2, <1>3 DEF IInv, ReadFile, hubVars, history, SoleCommandsKept

\* It replaces the file.  Whoever else has read that has overlapped.
LEMMA SaveKeeps ==
  ASSUME IInv, NEW p \in Commands, Save(p)
  PROVE  IInv'
<1>1. /\ pc[p] = "read" /\ Asked(p)
      /\ snap[p] \in Config /\ Listed(snap[p]) /\ GrantsOK(snap[p])
  BY DEF IInv, TypeOK, Save, Reading
<1>2. /\ file' \in Config /\ Listed(file') /\ GrantsOK(file')
      /\ op[p] = "add" => file'.backends = snap[p].backends \cup {id[p]}
      /\ op[p] # "add" => file'.backends = snap[p].backends \ {id[p]}
  BY <1>1, AddedKeeps, RemovedKeeps DEF Save, Outcome, Asked
<1>3. TypeOK'
  <2>1. owed' \subseteq Ids
    BY <1>1 DEF IInv, TypeOK, Save, Asked
  <2> QED
    BY <1>1, <1>2, <2>1 DEF IInv, TypeOK, Save, Pcs, hubVars, bounds
<1>4. RunningIsCurrent'
  BY DEF IInv, TypeOK, RunningIsCurrent, Save
<1>5. SoleCommandsKept'
  BY <1>1, <1>2 DEF IInv, SoleCommandsKept, Reading, Save
<1>6. \A q \in Commands : Reading(q)'
  BY DEF IInv, TypeOK, Reading, Asked, Save, InUse
<1> QED
  BY <1>2, <1>3, <1>4, <1>5, <1>6 DEF IInv, Save, hubVars, GrantsOK

\* It ends, in one of three ways.
LEMMA EndKeeps ==
  ASSUME IInv, NEW p \in Commands, SaveFail(p) \/ Restart(p) \/ SkipRestart(p)
  PROVE  IInv'
<1>1. Forget(p) /\ UNCHANGED <<file, owed, overlapped, commands, edits>>
  BY DEF SaveFail, Restart, SkipRestart, bounds, history
<1>2. /\ UNCHANGED <<hubUp, running>> \/ (hubUp' = FALSE /\ running' = NoConfig)
      /\ skipped' = skipped \/ skipped' = TRUE
  BY DEF SaveFail, Restart, SkipRestart, bounds, history, hubVars
<1>3. faults' \in 0..MaxFaults
  BY BoundsAssumption DEF IInv, TypeOK, SaveFail, Restart, SkipRestart, bounds, history
<1>4. TypeOK'
  <2>1. /\ hubUp' \in BOOLEAN
        /\ IF hubUp' THEN running' \in Config ELSE running' = NoConfig
        /\ overlapped' \in BOOLEAN
        /\ skipped' \in BOOLEAN
    <3>1. /\ hubUp \in BOOLEAN
          /\ IF hubUp THEN running \in Config ELSE running = NoConfig
          /\ overlapped \in BOOLEAN
          /\ skipped \in BOOLEAN
      BY DEF IInv, TypeOK
    <3>2. CASE UNCHANGED <<hubUp, running>>
      BY <1>1, <1>2, <3>1, <3>2
    <3>3. CASE hubUp' = FALSE /\ running' = NoConfig
      BY <1>1, <1>2, <3>1, <3>3
    <3> QED
      BY <1>2, <3>2, <3>3
  <2>2. /\ pc' \in [Commands -> Pcs]
        /\ op' \in [Commands -> {"none", "add", "remove"}]
        /\ id' \in [Commands -> Ids \cup {NoId}]
        /\ token' \in [Commands -> Tokens \cup {NoToken}]
        /\ snap' \in [Commands -> Config \cup {NoConfig}]
    BY <1>1 DEF IInv, TypeOK, Forget, Pcs
  <2>3. \A q \in Commands :
            IF pc'[q] = "idle" THEN snap'[q] = NoConfig
                               ELSE snap'[q] \in Config /\ Listed(snap'[q])
    BY <1>1 DEF IInv, TypeOK, Forget
  <2>4. file' \in Config /\ Listed(file') /\ owed' \subseteq Ids
    BY <1>1 DEF IInv, TypeOK, Listed
  <2>5. commands' \in 0..MaxCommands /\ edits' \in 0..MaxEdits
    BY <1>1 DEF IInv, TypeOK
  <2> QED
    BY <1>3, <2>1, <2>2, <2>3, <2>4, <2>5 DEF TypeOK
<1>5. RunningIsCurrent'
  <2>1. CASE SaveFail(p)
    BY <2>1 DEF IInv, TypeOK, RunningIsCurrent, SaveFail, Forget, hubVars, history
  <2>2. CASE Restart(p) \/ SkipRestart(p)
    BY <2>2 DEF RunningIsCurrent, Restart, SkipRestart
  <2> QED
    BY <2>1, <2>2
<1>6. \A q \in Commands : Reading(q)'
  BY <1>1 DEF IInv, TypeOK, Reading, Asked, Forget
<1> QED
  BY <1>1, <1>2, <1>4, <1>5, <1>6 DEF IInv, SoleCommandsKept, hubVars

\* The operator replaces the file.
LEMMA EditKeeps ==
  ASSUME IInv, EditGrant \/ EditAlias \/ EditRoute
  PROVE  IInv'
<1>1. PICK cfg : /\ Edit(cfg)
                 /\ cfg \in Config /\ Listed(cfg) /\ cfg.backends = file.backends
  <2>1. file \in Config /\ Listed(file)
    BY DEF IInv, TypeOK
  <2>2. CASE EditGrant
    <3>1. PICK u \in Users, i \in file.backends :
            Edit([file EXCEPT !.grants =
                    [v \in DOMAIN @ \cup {u} |->
                        (IF v \in DOMAIN @ THEN @[v] ELSE {})
                            \cup (IF v = u THEN {i} ELSE {})]])
      BY <2>2 DEF EditGrant
    <3> DEFINE g == [v \in DOMAIN file.grants \cup {u} |->
                        (IF v \in DOMAIN file.grants THEN file.grants[v] ELSE {})
                            \cup (IF v = u THEN {i} ELSE {})]
    <3>2. DOMAIN g \subseteq Users /\ g \in [DOMAIN g -> SUBSET Ids]
      BY <2>1, ConfigFields
    <3>3. Edit([file EXCEPT !.grants = g])
      BY <3>1
    <3> HIDE DEF g
    <3> QED
      BY <2>1, <3>2, <3>3, EditTyped
  <2>3. CASE EditAlias
    <3>1. PICK i \in file.backends, n \in Names :
            Edit([file EXCEPT !.aliases[i] = @ \cup {n}])
      BY <2>3 DEF EditAlias
    <3> DEFINE as == [file.aliases EXCEPT ![i] = @ \cup {n}]
    <3>2. as \in [Ids -> SUBSET Names] /\ \A j \in Ids \ file.backends : as[j] = {}
      BY <2>1, ConfigFields DEF Listed
    <3>3. Edit([file EXCEPT !.aliases = as])
      BY <3>1
    <3> HIDE DEF as
    <3> QED
      BY <2>1, <3>2, <3>3, EditTyped
  <2>4. CASE EditRoute
    <3>1. PICK i \in file.backends : Edit([file EXCEPT !.routes = @ \cup {i}])
      BY <2>4 DEF EditRoute
    <3>2. file.routes \cup {i} \in SUBSET Ids
      BY <2>1, ConfigFields
    <3> QED
      BY <2>1, <3>1, <3>2, EditTyped
  <2> QED
    BY <2>2, <2>3, <2>4
<1>2. TypeOK'
  BY <1>1, BoundsAssumption DEF IInv, TypeOK, Edit, hubVars, commandVars
<1>3. GrantsOK(file')
  BY <1>1, Unambiguous DEF Edit
<1>4. overlapped' \in BOOLEAN /\ (~overlapped' => \A p \in Commands : pc[p] # "read")
  BY <1>1 DEF Edit, IInv, TypeOK
<1>5. SoleCommandsKept'
  BY <1>1 DEF IInv, TypeOK, SoleCommandsKept, Edit
<1>6. \A p \in Commands : Reading(p)'
  BY <1>1, <1>4 DEF IInv, Reading, Asked, Edit, commandVars
<1> QED
  BY <1>1, <1>2, <1>3, <1>5, <1>6
     DEF IInv, Edit, RunningIsCurrent, GrantsOK, hubVars
\* The hub starts or stops.
LEMMA HubKeeps ==
  ASSUME IInv, HubStart \/ HubStop
  PROVE  IInv'
<1>1. UNCHANGED <<file, commandVars, owed, overlapped, commands, edits>>
  BY DEF HubStart, HubStop, bounds, history
<1>2. faults' \in 0..MaxFaults
  BY BoundsAssumption DEF IInv, TypeOK, HubStart, HubStop, bounds
<1>3. /\ hubUp' \in BOOLEAN
      /\ IF hubUp' THEN running' \in Config ELSE running' = NoConfig
      /\ skipped' \in BOOLEAN
  BY DEF IInv, TypeOK, HubStart, HubStop, history
<1>4. TypeOK'
  <2>1. file' \in Config /\ Listed(file')
    BY <1>1 DEF IInv, TypeOK, Listed
  <2>2. \A p \in Commands :
            IF pc'[p] = "idle" THEN snap'[p] = NoConfig
                               ELSE snap'[p] \in Config /\ Listed(snap'[p])
    BY <1>1 DEF IInv, TypeOK, commandVars
  <2> QED
    BY <1>1, <1>2, <1>3, <2>1, <2>2 DEF IInv, TypeOK, commandVars
<1>5. hubUp' => Validate(running') /\ running' = file'
  BY DEF HubStart, HubStop
<1>6. \A p \in Commands : Reading(p)'
  BY <1>1 DEF IInv, Reading, Asked, commandVars
<1> QED
  BY <1>1, <1>4, <1>5, <1>6 DEF IInv, RunningIsCurrent, SoleCommandsKept, GrantsOK

LEMMA NextHolds == IInv /\ [Next]_vars => IInv'
<1> SUFFICES ASSUME IInv, [Next]_vars PROVE IInv'
  OBVIOUS
<1>1. CASE \E p \in Commands : Command(p)
  BY <1>1, ReadKeeps, SaveKeeps, EndKeeps DEF Command
<1>2. CASE EditGrant \/ EditAlias \/ EditRoute
  BY <1>2, EditKeeps
<1>3. CASE HubStart \/ HubStop
  BY <1>3, HubKeeps
<1>4. CASE UNCHANGED vars
  <2> USE <1>4 DEF vars, hubVars, commandVars, bounds, history
  <2>1. TypeOK'
    BY DEF IInv, TypeOK, Listed
  <2>2. RunningIsCurrent' /\ GrantsOK(file') /\ SoleCommandsKept'
    BY DEF IInv, RunningIsCurrent, GrantsOK, SoleCommandsKept
  <2> QED
    BY <2>1, <2>2 DEF IInv, Reading, Asked, Validate
<1> QED
  BY <1>1, <1>2, <1>3, <1>4 DEF Next

LEMMA Invariance == Spec => []IInv
<1> QED
  BY InitHolds, NextHolds, PTL DEF Spec, SafeSpec

-----------------------------------------------------------------------------
(***************************************************************************)
(* The theorems.                                                           *)
(***************************************************************************)

\* Every variable keeps its type, and the file is always one that a command
\* can read: Save replaces it whole.
THEOREM TypeCorrect == Spec => []TypeOK
<1> IInv => TypeOK
  BY DEF IInv
<1> QED
  BY Invariance, PTL

\* Whatever commands and edits made the file, a hub that runs resolves every
\* token and every name to one backend at most.
THEOREM HubUnambiguous == Spec => []RunningUnambiguous
<1>1. IInv => RunningUnambiguous
  <2> SUFFICES ASSUME IInv, hubUp PROVE RunningUnambiguous
    BY DEF RunningUnambiguous
  <2>1. running \in Config /\ Validate(running)
    BY DEF IInv, TypeOK
  <2> QED
    BY <2>1, Unambiguous DEF RunningUnambiguous, GrantsOK
<1> QED
  BY <1>1, Invariance, PTL

\* A hub runs an old configuration only until a restart that is under way, or
\* after one that was skipped.
THEOREM HubCurrent == Spec => []RunningIsCurrent
<1> IInv => RunningIsCurrent
  BY DEF IInv
<1> QED
  BY Invariance, PTL

\* No grant in the file outlives its backend, also when commands overlap.
THEOREM NoDanglingGrants == Spec => []GrantsConfigured
<1> IInv => GrantsConfigured
  BY DEF IInv, GrantsOK, GrantsConfigured
<1> QED
  BY Invariance, PTL

\* Commands that do not overlap lose nothing.
THEOREM NothingLost == Spec => []SoleCommandsKept
<1> IInv => SoleCommandsKept
  BY DEF IInv
<1> QED
  BY Invariance, PTL

-----------------------------------------------------------------------------
(***************************************************************************)
(* What a command can do to a file that loads.  Neither command validates  *)
(* what it writes, so the hub may refuse the result when it starts next.   *)
(***************************************************************************)

\* AddBackend makes of a file that loads one that does, unless the token given
\* with --token is in use or the new id is somebody's alias: those two and no
\* others keep the hub from starting (manage.go:26, config.go:220).
THEOREM AddedLoads ==
  ASSUME NEW cfg \in Config, Validate(cfg),
         NEW i \in Ids, i \notin cfg.backends, NEW t \in Tokens
  PROVE  Validate(Added(cfg, i, t)) <=> Unclaimed(cfg, i, t)
<1> DEFINE new == Added(cfg, i, t)
<1>1. /\ new.backends = cfg.backends \cup {i}
      /\ new.token = [cfg.token EXCEPT ![i] = t]
      /\ new.aliases = [cfg.aliases EXCEPT ![i] = {}]
      /\ new.grants = cfg.grants
      /\ new.routes = cfg.routes
  <2>1. new = [cfg EXCEPT !.backends = cfg.backends \cup {i},
                          !.token = [cfg.token EXCEPT ![i] = t],
                          !.aliases = [cfg.aliases EXCEPT ![i] = {}]]
    BY DEF Added
  <2> QED
    BY <2>1, ConfigFields
<1>2. /\ cfg.backends \subseteq Ids
      /\ cfg.token \in [Ids -> Tokens \cup {NoToken}]
      /\ cfg.aliases \in [Ids -> SUBSET Names]
  BY ConfigFields
<1>3. /\ new.token[i] = t /\ new.aliases[i] = {}
      /\ \A j \in cfg.backends :
            new.token[j] = cfg.token[j] /\ new.aliases[j] = cfg.aliases[j]
  BY <1>1, <1>2
<1> HIDE DEF new
<1>4. ASSUME Validate(new) PROVE Unclaimed(cfg, i, t)
  BY <1>1, <1>3, <1>4, NamesAssumption DEF Validate, Unclaimed
<1>5. ASSUME Unclaimed(cfg, i, t) PROVE Validate(new)
  <2>1. \A u \in DOMAIN new.grants :
            new.grants[u] # {} /\ new.grants[u] \subseteq new.backends
    BY <1>1 DEF Validate
  <2>2. new.routes \subseteq new.backends
    BY <1>1 DEF Validate
  <2>3. \A a, b \in new.backends : b \notin new.aliases[a]
    BY <1>1, <1>3, <1>5 DEF Validate, Unclaimed
  <2>4. \A a, b \in new.backends :
            a # b => /\ new.token[a] = NoToken \/ new.token[a] # new.token[b]
                     /\ new.aliases[a] \cap new.aliases[b] = {}
    BY <1>1, <1>3, <1>5 DEF Validate, Unclaimed
  <2> QED
    BY <2>1, <2>2, <2>3, <2>4 DEF Validate
<1> QED
  BY <1>4, <1>5 DEF new

\* RemoveBackend makes of a file that loads one that does, unless a route still
\* leads to the backend or a user is left with no backend: those two and no
\* others (manage.go:74, config.go:220).
THEOREM RemovedLoads ==
  ASSUME NEW cfg \in Config, Validate(cfg), NEW i \in Ids
  PROVE  Validate(Removed(cfg, i)) <=> Unneeded(cfg, i)
<1> DEFINE new == Removed(cfg, i)
<1>1. /\ new.backends = cfg.backends \ {i}
      /\ new.token = [cfg.token EXCEPT ![i] = NoToken]
      /\ new.aliases = [cfg.aliases EXCEPT ![i] = {}]
      /\ new.grants = [u \in DOMAIN cfg.grants |-> cfg.grants[u] \ {i}]
      /\ new.routes = cfg.routes
  <2>1. new = [cfg EXCEPT !.backends = cfg.backends \ {i},
                          !.token = [cfg.token EXCEPT ![i] = NoToken],
                          !.aliases = [cfg.aliases EXCEPT ![i] = {}],
                          !.grants = [u \in DOMAIN cfg.grants |-> cfg.grants[u] \ {i}]]
    BY DEF Removed
  <2> QED
    BY <2>1, ConfigFields
<1>2. /\ cfg.backends \subseteq Ids
      /\ cfg.token \in [Ids -> Tokens \cup {NoToken}]
      /\ cfg.aliases \in [Ids -> SUBSET Names]
  BY ConfigFields
<1>3. \A j \in new.backends :
        /\ j \in cfg.backends
        /\ new.token[j] = cfg.token[j] /\ new.aliases[j] = cfg.aliases[j]
  BY <1>1, <1>2
<1>4. /\ DOMAIN new.grants = DOMAIN cfg.grants
      /\ \A u \in DOMAIN cfg.grants : new.grants[u] = cfg.grants[u] \ {i}
  BY <1>1
<1> HIDE DEF new
<1>5. ASSUME Validate(new) PROVE Unneeded(cfg, i)
  BY <1>1, <1>4, <1>5 DEF Validate, Unneeded
<1>6. ASSUME Unneeded(cfg, i) PROVE Validate(new)
  <2>1. \A u \in DOMAIN new.grants :
            new.grants[u] # {} /\ new.grants[u] \subseteq new.backends
    BY <1>1, <1>4, <1>6 DEF Validate, Unneeded
  <2>2. new.routes \subseteq new.backends
    BY <1>1, <1>6 DEF Validate, Unneeded
  <2>3. \A a, b \in new.backends :
            /\ b \notin new.aliases[a]
            /\ a # b => /\ new.token[a] = NoToken \/ new.token[a] # new.token[b]
                        /\ new.aliases[a] \cap new.aliases[b] = {}
    BY <1>3 DEF Validate
  <2> QED
    BY <2>1, <2>2, <2>3 DEF Validate
<1> QED
  BY <1>5, <1>6 DEF new

\* A command that holds a reading was right to go on with it.
Resolved(p) ==
    pc[p] = "read" => /\ op[p] = "add" => id[p] \notin snap[p].backends
                      /\ op[p] \in {"add", "remove"}

LEMMA ResolvedKept ==
  ASSUME IInv, \A p \in Commands : Resolved(p), [Next]_vars
  PROVE  \A p \in Commands : Resolved(p)'
<1> SUFFICES ASSUME NEW p \in Commands PROVE Resolved(p)'
  OBVIOUS
<1>1. Resolved(p)
  OBVIOUS
<1>2. CASE UNCHANGED commandVars
  BY <1>1, <1>2 DEF Resolved, commandVars
<1>3. ASSUME NEW q \in Commands, NEW o \in {"add", "remove"}, NEW i \in Ids,
             NEW t \in Tokens \cup {NoToken}, ReadFile(q, o, i, t)
      PROVE  Resolved(p)'
  BY <1>1, <1>3 DEF IInv, TypeOK, ReadFile, Resolved
<1>4. ASSUME NEW q \in Commands, Save(q) PROVE Resolved(p)'
  BY <1>1, <1>4 DEF IInv, TypeOK, Save, Resolved
<1>5. ASSUME NEW q \in Commands, Forget(q) PROVE Resolved(p)'
  BY <1>1, <1>5 DEF IInv, TypeOK, Forget, Resolved
<1>6. ASSUME NEW q \in Commands, Command(q) PROVE Resolved(p)'
  BY <1>3, <1>4, <1>5, <1>6 DEF Command, SaveFail, Restart, SkipRestart
<1> QED
  BY <1>2, <1>6 DEF Next, EditGrant, EditAlias, EditRoute, Edit, HubStart, HubStop, vars

\* What Save writes loads when the command is careful and its reading did.
LEMMA CarefulSave ==
  ASSUME IInv, NEW p \in Commands, Resolved(p), Save(p), Validate(snap[p])
  PROVE  Validate(file') <=> Careful(p)
<1>1. /\ pc[p] = "read" /\ snap[p] \in Config /\ Asked(p)
      /\ file' = Outcome(p)
  BY DEF IInv, TypeOK, Reading, Save
<1>2. CASE op[p] = "add"
  <2>1. id[p] \in Ids /\ token[p] \in Tokens /\ id[p] \notin snap[p].backends
    BY <1>1, <1>2 DEF Asked, Resolved
  <2>2. file' = Added(snap[p], id[p], token[p])
    BY <1>1, <1>2 DEF Outcome
  <2> QED
    BY <1>1, <1>2, <2>1, <2>2, AddedLoads DEF Careful
<1>3. CASE op[p] # "add"
  <2>1. id[p] \in Ids /\ file' = Removed(snap[p], id[p])
    BY <1>1, <1>3 DEF Asked, Outcome
  <2> QED
    BY <1>1, <1>3, <2>1, RemovedLoads DEF Careful
<1> QED
  BY <1>2, <1>3

\* A file that loads is made one that does not by a command alone, and only by
\* one whose change does not suit what it read, or that read a file which did
\* not load and brings it back over one that does (manage.go:58, 98).
THEOREM WhatBreaksTheFile == Spec => OnlyCarelessBreaks
<1> DEFINE Broken == \E p \in Commands : Save(p) /\ (Validate(snap[p]) => ~Careful(p))
           All == \A p \in Commands : Resolved(p)
<1>1. Init => All
  BY DEF Init, Resolved
<1>2. IInv /\ All /\ [Next]_vars => All'
  BY ResolvedKept
<1>3. IInv /\ All /\ [Next]_vars => [Validate(file) /\ ~Validate(file') => Broken]_vars
  <2> SUFFICES ASSUME IInv, All, Next, Validate(file), ~Validate(file') PROVE Broken
    OBVIOUS
  <2>1. \A p \in Commands : Save(p) => Broken
    BY CarefulSave
  <2>2. UNCHANGED file => FALSE
    OBVIOUS
  <2>3. ASSUME NEW p \in Commands, Command(p) PROVE Broken
    <3>1. Save(p) \/ UNCHANGED file
      BY <2>3 DEF Command, ReadFile, SaveFail, Restart, SkipRestart
    <3> QED
      BY <2>1, <2>2, <3>1
  <2>4. ~ (EditGrant \/ EditAlias \/ EditRoute)
    BY DEF EditGrant, EditAlias, EditRoute, Edit
  <2>5. ~ (HubStart \/ HubStop)
    BY <2>2 DEF HubStart, HubStop
  <2> QED
    BY <2>3, <2>4, <2>5 DEF Next
<1> HIDE DEF All, Broken
<1>4. Spec => []All
  BY <1>1, <1>2, Invariance, PTL DEF Spec, SafeSpec
<1>5. Spec => [][Validate(file) /\ ~Validate(file') => Broken]_vars
  BY <1>3, <1>4, Invariance, PTL DEF Spec, SafeSpec
<1> QED
  BY <1>5 DEF Broken, OnlyCarelessBreaks

\* As long as what commands write suits what they read, every file loads, so
\* that the hub comes back from every restart: however commands overlap, fail
\* and undo each other, and whatever the operator edits in between.
THEOREM CarefulCommandsLoad ==
    Spec /\ [][\A p \in Commands : Save(p) => Careful(p)]_vars => []Validate(file)
<1> DEFINE All == \A p \in Commands : Resolved(p)
           Discipline == \A p \in Commands : Save(p) => Careful(p)
           Loads == /\ Validate(file)
                    /\ \A p \in Commands : pc[p] = "read" => Validate(snap[p])
<1>1. Init => All /\ Loads
  BY DEF Init, Resolved, Validate, Fresh
<1>2. IInv /\ All /\ [Next]_vars => All'
  BY ResolvedKept
<1>3. IInv /\ All /\ Loads /\ [Next]_vars /\ [Discipline]_vars => Loads'
  <2> SUFFICES ASSUME IInv, All, Loads, [Next]_vars, [Discipline]_vars PROVE Loads'
    OBVIOUS
  <2>1. CASE UNCHANGED vars
    BY <2>1 DEF vars, commandVars, Validate
  <2>2. ASSUME NEW p \in Commands, Save(p) PROVE Loads'
    <3>1. Validate(file')
      <4>1. pc[p] = "read" /\ ~ UNCHANGED vars
        BY <2>2 DEF Save, IInv, TypeOK, vars, commandVars
      <4> QED
        BY <2>2, <4>1, CarefulSave
    <3>2. \A q \in Commands : pc'[q] = "read" => Validate(snap'[q])
      BY <2>2 DEF Save, IInv, TypeOK
    <3> QED
      BY <3>1, <3>2
  <2>3. ASSUME NEW p \in Commands, Command(p), ~Save(p) PROVE Loads'
    <3>1. ASSUME NEW o \in {"add", "remove"}, NEW i \in Ids,
                 NEW t \in Tokens \cup {NoToken}, ReadFile(p, o, i, t)
          PROVE  Loads'
      BY <3>1 DEF ReadFile, IInv, TypeOK
    <3>2. ASSUME Forget(p), UNCHANGED file PROVE Loads'
      BY <3>2 DEF Forget, IInv, TypeOK
    <3> QED
      BY <2>3, <3>1, <3>2 DEF Command, SaveFail, Restart, SkipRestart
  <2>4. CASE EditGrant \/ EditAlias \/ EditRoute
    <3>1. PICK cfg : Edit(cfg)
      BY <2>4 DEF EditGrant, EditAlias, EditRoute
    <3> QED
      BY <3>1 DEF Edit, commandVars
  <2>5. CASE HubStart \/ HubStop
    BY <2>5 DEF HubStart, HubStop, commandVars
  <2> QED
    BY <2>1, <2>2, <2>3, <2>4, <2>5 DEF Next
<1>4. Loads => Validate(file)
  OBVIOUS
<1> HIDE DEF All, Loads, Discipline
<1>5. Spec /\ [][Discipline]_vars => []Validate(file)
  BY <1>1, <1>2, <1>3, <1>4, Invariance, PTL DEF Spec, SafeSpec
<1> QED
  BY <1>5 DEF Discipline

-----------------------------------------------------------------------------
(***************************************************************************)
(* What the SSH front makes of the configuration the hub has loaded:       *)
(* JumpAccess starts from assumptions that hold of it.                     *)
(***************************************************************************)

\* The destinations of a configuration, with the names clients may ask for.
Front(cfg) ==
    INSTANCE Destinations
        WITH Backends  <- cfg.backends,
             Aliases   <- [i \in cfg.backends |-> cfg.aliases[i]],
             JumpUsers <- DOMAIN cfg.grants,
             GrantsOf  <- cfg.grants,
             Names     <- Names \cup Ids,
             NoBackend <- NoId

\* Validate establishes all that the front takes for granted.
LEMMA ValidIsWellFormed ==
  ASSUME NEW cfg \in Config, Validate(cfg)
  PROVE  Front(cfg)!WellFormed
<1>1. /\ cfg.backends \subseteq Ids
      /\ cfg.aliases \in [Ids -> SUBSET Names]
      /\ cfg.grants \in [DOMAIN cfg.grants -> SUBSET Ids]
  BY ConfigFields
<1>2. [i \in cfg.backends |-> cfg.aliases[i]] \in [cfg.backends -> SUBSET (Names \cup Ids)]
  BY <1>1
<1>3. \A b, d \in cfg.backends :
        /\ d \notin [i \in cfg.backends |-> cfg.aliases[i]][b]
        /\ b # d => [i \in cfg.backends |-> cfg.aliases[i]][b]
                        \cap [i \in cfg.backends |-> cfg.aliases[i]][d] = {}
  BY DEF Validate
<1>4. cfg.grants \in [DOMAIN cfg.grants -> SUBSET cfg.backends]
  BY <1>1 DEF Validate
<1> QED
  BY <1>1, <1>2, <1>3, <1>4, NamesAssumption DEF Front!WellFormed

\* BackendByName looks through the ids and then through the aliases and takes
\* the first that fits; in a configuration that validates no other would fit,
\* so that the order of the backends in the file does not matter
\* (config.go:425).
THEOREM ResolvesToOwner ==
  ASSUME NEW cfg \in Config, Validate(cfg), NEW n
  PROVE  NameOwners(cfg, n) =
            IF Front(cfg)!BackendByName(n) = NoId THEN {}
            ELSE {Front(cfg)!BackendByName(n)}
<1> DEFINE b == Front(cfg)!BackendByName(n)
<1>1. cfg.backends \subseteq Ids /\ NoId \notin cfg.backends
  BY ConfigFields, NamesAssumption
<1>2. CASE n \in cfg.backends
  <2>1. b = n /\ b # NoId
    BY <1>1, <1>2 DEF Front!BackendByName
  <2>2. NameOwners(cfg, n) = {n}
    BY <1>2 DEF NameOwners, Validate
  <2> QED
    BY <2>1, <2>2
<1>3. CASE n \notin cfg.backends /\ \E i \in cfg.backends : n \in cfg.aliases[i]
  <2>1. b \in cfg.backends /\ n \in cfg.aliases[b]
    BY <1>3 DEF Front!BackendByName
  <2>2. \A i \in cfg.backends : n \in cfg.aliases[i] => i = b
    <3> HIDE DEF b
    <3> QED
      BY <2>1 DEF Validate
  <2> HIDE DEF b
  <2>3. NameOwners(cfg, n) = {b}
    BY <1>3, <2>1, <2>2 DEF NameOwners
  <2> QED
    BY <1>1, <2>1, <2>3 DEF b
<1>4. CASE n \notin cfg.backends /\ ~\E i \in cfg.backends : n \in cfg.aliases[i]
  <2>1. b = NoId
    BY <1>4 DEF Front!BackendByName
  <2>2. NameOwners(cfg, n) = {}
    BY <1>4 DEF NameOwners
  <2> QED
    BY <2>1, <2>2
<1> QED
  BY <1>2, <1>3, <1>4

\* A hub that runs has a configuration of which JumpAccess's assumption on
\* names and grants holds, whatever commands, edits and crashes made its file
\* (config.go:219).
THEOREM FrontIsWellFormed == Spec => [](hubUp => Front(running)!WellFormed)
<1>1. IInv => (hubUp => Front(running)!WellFormed)
  <2> SUFFICES ASSUME IInv, hubUp PROVE Front(running)!WellFormed
    OBVIOUS
  <2>1. running \in Config /\ Validate(running)
    BY DEF IInv, TypeOK
  <2> QED
    BY <2>1, ValidIsWellFormed
<1> QED
  BY <1>1, Invariance, PTL

\* The hub runs, every command has been followed by its restart, and none was
\* overtaken by another.
Settled ==
    hubUp /\ ~overlapped /\ ~skipped /\ \A p \in Commands : pc[p] # "saved"

\* What a settled hub lets a jump user ask for is a backend that was added and
\* not removed since, and so is the owner of a token that registers: a removal
\* takes the grants, names and token of its backend with it (manage.go:74,
\* main.go:184, config.go:425, 449).
THEOREM OnlyOwedReached ==
    Spec => [](Settled =>
        /\ \A u \in Users, n \in Names \cup Ids :
              Front(running)!Granted(u, n) => Front(running)!BackendByName(n) \in owed
        /\ \A t \in Tokens : TokenOwners(running, t) \subseteq owed)
<1>1. IInv => (Settled =>
        /\ \A u \in Users, n \in Names \cup Ids :
              Front(running)!Granted(u, n) => Front(running)!BackendByName(n) \in owed
        /\ \A t \in Tokens : TokenOwners(running, t) \subseteq owed)
  <2> SUFFICES ASSUME IInv, Settled
               PROVE  /\ \A u \in Users, n \in Names \cup Ids :
                            Front(running)!Granted(u, n)
                                => Front(running)!BackendByName(n) \in owed
                      /\ \A t \in Tokens : TokenOwners(running, t) \subseteq owed
    OBVIOUS
  <2>1. running.backends = owed
    BY DEF IInv, Settled, RunningIsCurrent, SoleCommandsKept
  <2>2. Validate(running)
    BY DEF IInv, Settled
  <2>3. ASSUME NEW u \in Users, NEW n \in Names \cup Ids, Front(running)!Granted(u, n)
        PROVE  Front(running)!BackendByName(n) \in owed
    BY <2>1, <2>2, <2>3 DEF Front!Granted, Validate
  <2> QED
    BY <2>1, <2>3 DEF TokenOwners
<1> QED
  BY <1>1, Invariance, PTL
=============================================================================
