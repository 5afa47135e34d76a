------------------------------ MODULE HubConfig ------------------------------
(***************************************************************************)
(* The hub's configuration file: sshhub-ctl commands that read, change and *)
(* replace it, an operator who edits it, and the hub that loads it when it *)
(* starts and at no other time.                                            *)
(*                                                                         *)
(*   internal/config/manage.go   AddBackend, RemoveBackend, Save           *)
(*   internal/config/config.go   Load, Validate                            *)
(*   cmd/sshhub-ctl/main.go      add and remove, with their restart        *)
(*   cmd/sshhub/main.go          loading at the start                      *)
(*                                                                         *)
(* No lock is held between a command's read and its rename, so commands    *)
(* may overlap with each other and with the editor.                        *)
(***************************************************************************)
EXTENDS Naturals, FiniteSets

CONSTANTS
    Ids,            \* backend ids
    Tokens,         \* registration tokens
    Names,          \* names used as aliases; some may also be ids
    Users,          \* jump users the operator may configure
    Commands,       \* sshhub-ctl processes
    NoToken, NoId, NoConfig,
    MaxCommands,    \* bound: commands started
    MaxEdits,       \* bound: edits by the operator
    MaxFaults       \* bound: crashes and failing writes

ASSUME NamesAssumption == NoToken \notin Tokens /\ NoId \notin Ids

ASSUME BoundsAssumption ==
    /\ MaxCommands \in Nat
    /\ MaxEdits \in Nat
    /\ MaxFaults \in Nat

\* What a configuration file says, as far as it can go wrong here.  A jump
\* user is in the file when the grants have an entry for it.
Config == [backends : SUBSET Ids,
           token    : [Ids -> Tokens \cup {NoToken}],
           aliases  : [Ids -> SUBSET Names],
           grants   : UNION {[us -> SUBSET Ids] : us \in SUBSET Users},
           routes   : SUBSET Ids]

\* Only a backend that is listed has a token and aliases.
Listed(cfg) ==
    \A i \in Ids \ cfg.backends : cfg.token[i] = NoToken /\ cfg.aliases[i] = {}

\* The file the installer writes.
Fresh == [backends |-> {},
          token    |-> [i \in Ids |-> NoToken],
          aliases  |-> [i \in Ids |-> {}],
          grants   |-> [u \in {} |-> {}],
          routes   |-> {}]

VARIABLES
    file,       \* the configuration file
    hubUp,      \* the hub runs
    running,    \* the configuration it has loaded
    pc,         \* where a command is
    op, id, token,      \* what it was asked to do
    snap,       \* what it has read
    commands, edits, faults,    \* counters of the bounds

    \* History, read by no action of the program.
    owed,       \* backends that commands have added, and not removed since
    overlapped, \* a command held a reading while the file was replaced
    skipped     \* a change was saved with no restart after it

hubVars     == <<hubUp, running>>
commandVars == <<pc, op, id, token, snap>>
bounds      == <<commands, edits, faults>>
history     == <<owed, overlapped, skipped>>
vars == <<file, hubVars, commandVars, bounds, history>>

Pcs == {"idle", "read", "saved"}

TypeOK ==
    /\ file \in Config /\ Listed(file)
    /\ hubUp \in BOOLEAN
    /\ IF hubUp THEN running \in Config ELSE running = NoConfig
    /\ pc \in [Commands -> Pcs]
    /\ op \in [Commands -> {"none", "add", "remove"}]
    /\ id \in [Commands -> Ids \cup {NoId}]
    /\ token \in [Commands -> Tokens \cup {NoToken}]
    /\ snap \in [Commands -> Config \cup {NoConfig}]
    /\ \A p \in Commands :
        IF pc[p] = "idle" THEN snap[p] = NoConfig ELSE snap[p] \in Config /\ Listed(snap[p])
    /\ commands \in 0..MaxCommands
    /\ edits \in 0..MaxEdits
    /\ faults \in 0..MaxFaults
    /\ owed \subseteq Ids
    /\ overlapped \in BOOLEAN
    /\ skipped \in BOOLEAN

Init ==
    /\ file = Fresh
    /\ hubUp = FALSE
    /\ running = NoConfig
    /\ pc = [p \in Commands |-> "idle"]
    /\ op = [p \in Commands |-> "none"]
    /\ id = [p \in Commands |-> NoId]
    /\ token = [p \in Commands |-> NoToken]
    /\ snap = [p \in Commands |-> NoConfig]
    /\ commands = 0
    /\ edits = 0
    /\ faults = 0
    /\ owed = {}
    /\ overlapped = FALSE
    /\ skipped = FALSE

-----------------------------------------------------------------------------
(***************************************************************************)
(* Reading a configuration.                                                *)
(***************************************************************************)

\* The backends a token or a name can resolve to.
TokenOwners(cfg, t) == {i \in cfg.backends : cfg.token[i] = t}
NameOwners(cfg, n)  == {i \in cfg.backends : i = n \/ n \in cfg.aliases[i]}

\* Mutant of Validate: names are compared with other aliases only.
Validate_AliasesOnly(cfg) ==
    /\ \A u \in DOMAIN cfg.grants :
        cfg.grants[u] # {} /\ cfg.grants[u] \subseteq cfg.backends
    /\ \A i, j \in cfg.backends :
        i # j => /\ cfg.token[i] = NoToken \/ cfg.token[i] # cfg.token[j]
                 /\ cfg.aliases[i] \cap cfg.aliases[j] = {}
    /\ cfg.routes \subseteq cfg.backends

\* Config.Validate, which Load applies: grants, tokens, aliases, routes.
Validate(cfg) ==
    /\ \A u \in DOMAIN cfg.grants :
        cfg.grants[u] # {} /\ cfg.grants[u] \subseteq cfg.backends
    /\ \A i, j \in cfg.backends :
        i # j => /\ cfg.token[i] = NoToken \/ cfg.token[i] # cfg.token[j]
                 /\ cfg.aliases[i] \cap cfg.aliases[j] = {}
    /\ \A i, j \in cfg.backends : j \notin cfg.aliases[i]
    /\ cfg.routes \subseteq cfg.backends

-----------------------------------------------------------------------------
(***************************************************************************)
(* sshhub-ctl.                                                             *)
(***************************************************************************)

\* What AddBackend makes of a file.  The grants are the operator's business.
Added(cfg, i, t) ==
    [cfg EXCEPT !.backends = @ \cup {i}, !.token[i] = t, !.aliases[i] = {}]

\* Mutant of Removed: the jump users keep their grant.
Removed_KeepsGrants(cfg, i) ==
    [cfg EXCEPT !.backends = @ \ {i}, !.token[i] = NoToken, !.aliases[i] = {}]

\* What RemoveBackend makes of a file.  Routes are left alone.
Removed(cfg, i) ==
    [cfg EXCEPT !.backends = @ \ {i}, !.token[i] = NoToken, !.aliases[i] = {},
                !.grants = [u \in DOMAIN @ |-> @[u] \ {i}]]

\* The command reads the file, parses it without validating, and looks for
\* its backend.  Nothing is changed when that is there already, or missing.
\* A token given with --token may be in use; a generated one never is.
ReadFile(p, o, i, t) ==
    /\ pc[p] = "idle"
    /\ commands < MaxCommands
    /\ commands' = commands + 1
    /\ \/ o = "add" /\ i \notin file.backends /\ t # NoToken
       \/ o = "remove" /\ i \in file.backends /\ t = NoToken
    /\ pc' = [pc EXCEPT ![p] = "read"]
    /\ op' = [op EXCEPT ![p] = o]
    /\ id' = [id EXCEPT ![p] = i]
    /\ token' = [token EXCEPT ![p] = t]
    /\ snap' = [snap EXCEPT ![p] = file]
    /\ UNCHANGED <<file, hubVars, edits, faults, history>>

\* Another command has read the file and not yet replaced it.
InUse(p) == \E q \in Commands \ {p} : pc[q] = "read"

\* Mutant of Outcome: the change is made to the file as it is by then, which
\* is not the one that was looked through.
Outcome_OnCurrent(p) ==
    IF op[p] = "add" THEN Added(file, id[p], token[p]) ELSE Removed(file, id[p])

\* The whole file a command writes: what it has read, and its change.
Outcome(p) ==
    IF op[p] = "add" THEN Added(snap[p], id[p], token[p]) ELSE Removed(snap[p], id[p])

\* Save: the temporary file is renamed over the configuration file.
Save(p) ==
    /\ pc[p] = "read"
    /\ file' = Outcome(p)
    /\ pc' = [pc EXCEPT ![p] = "saved"]
    /\ owed' = IF op[p] = "add" THEN owed \cup {id[p]} ELSE owed \ {id[p]}
    /\ overlapped' = (overlapped \/ InUse(p))
    /\ UNCHANGED <<hubVars, op, id, token, snap, bounds, skipped>>

\* A command is over and forgets what it had.
Forget(p) ==
    /\ pc' = [pc EXCEPT ![p] = "idle"]
    /\ op' = [op EXCEPT ![p] = "none"]
    /\ id' = [id EXCEPT ![p] = NoId]
    /\ token' = [token EXCEPT ![p] = NoToken]
    /\ snap' = [snap EXCEPT ![p] = NoConfig]

\* Mutant of SaveFail: the file is truncated and written in place.
SaveFail_InPlace(p) ==
    /\ pc[p] = "read"
    /\ faults < MaxFaults
    /\ faults' = faults + 1
    /\ file' = Fresh
    /\ Forget(p)
    /\ UNCHANGED <<hubVars, commands, edits, history>>

\* The write fails, or the process ends, before the rename.
SaveFail(p) ==
    /\ pc[p] = "read"
    /\ faults < MaxFaults
    /\ faults' = faults + 1
    /\ Forget(p)
    /\ UNCHANGED <<file, hubVars, commands, edits, history>>

\* Mutant of Restart: the running hub is told to go on.
Restart_Reloads(p) ==
    /\ pc[p] = "saved"
    /\ Forget(p)
    /\ UNCHANGED <<file, hubVars, bounds, history>>

\* systemctl try-restart: a hub that runs is stopped and will start again, one
\* that does not run is left to systemd.
Restart(p) ==
    /\ pc[p] = "saved"
    /\ Forget(p)
    /\ hubUp' = FALSE
    /\ running' = NoConfig
    /\ UNCHANGED <<file, bounds, history>>

\* --no-restart, or the process ends between the rename and the restart, or
\* systemctl fails, which the command ignores.
SkipRestart(p) ==
    /\ pc[p] = "saved"
    /\ Forget(p)
    /\ skipped' = TRUE
    /\ UNCHANGED <<file, hubVars, bounds, owed, overlapped>>

-----------------------------------------------------------------------------
(***************************************************************************)
(* The operator, and the hub.                                              *)
(***************************************************************************)

\* The operator grants a backend to a user, names one or routes to one, and
\* takes care that the file stays valid.
Edit(cfg) ==
    /\ edits < MaxEdits
    /\ edits' = edits + 1
    /\ Validate(cfg)
    /\ file' = cfg
    /\ overlapped' = (overlapped \/ \E p \in Commands : pc[p] = "read")
    /\ skipped' = TRUE
    /\ UNCHANGED <<hubVars, commandVars, commands, faults, owed>>

EditGrant ==
    \E u \in Users, i \in file.backends :
        Edit([file EXCEPT !.grants =
                [v \in DOMAIN @ \cup {u} |->
                    (IF v \in DOMAIN @ THEN @[v] ELSE {}) \cup (IF v = u THEN {i} ELSE {})]])

EditAlias ==
    \E i \in file.backends, n \in Names : Edit([file EXCEPT !.aliases[i] = @ \cup {n}])

EditRoute ==
    \E i \in file.backends : Edit([file EXCEPT !.routes = @ \cup {i}])

\* Mutant of HubStart: systemd starts the hub only once.
HubStart_Once ==
    /\ ~ hubUp
    /\ commands = 0
    /\ Validate(file)
    /\ hubUp' = TRUE
    /\ running' = file
    /\ skipped' = FALSE
    /\ UNCHANGED <<file, commandVars, bounds, owed, overlapped>>

\* Load at the start.  A hub that cannot load its file ends with log.Fatalf
\* and is started again by systemd, which changes nothing here.
HubStart ==
    /\ ~ hubUp
    /\ Validate(file)
    /\ hubUp' = TRUE
    /\ running' = file
    /\ skipped' = FALSE
    /\ UNCHANGED <<file, commandVars, bounds, owed, overlapped>>

HubStop ==
    /\ hubUp
    /\ faults < MaxFaults
    /\ faults' = faults + 1
    /\ hubUp' = FALSE
    /\ running' = NoConfig
    /\ UNCHANGED <<file, commandVars, commands, edits, history>>

-----------------------------------------------------------------------------
Command(p) ==
    \/ \E o \in {"add", "remove"}, i \in Ids, t \in Tokens \cup {NoToken} :
        ReadFile(p, o, i, t)
    \/ Save(p) \/ SaveFail(p) \/ Restart(p) \/ SkipRestart(p)

Next ==
    \/ \E p \in Commands : Command(p)
    \/ EditGrant \/ EditAlias \/ EditRoute
    \/ HubStart \/ HubStop

\* systemd starts the hub, again and again; a command runs to its end.
Fairness ==
    /\ WF_vars(HubStart)
    /\ \A p \in Commands : WF_vars(Save(p)) /\ WF_vars(Restart(p) \/ SkipRestart(p))

SafeSpec == Init /\ [][Next]_vars
Spec == SafeSpec /\ Fairness
-----------------------------------------------------------------------------
(***************************************************************************)
(* Properties.                                                             *)
(***************************************************************************)

\* A hub that runs resolves a token and a name to one backend at most, and
\* grants nothing that is not configured, whatever the commands and edits that
\* made its file (config.go Validate; BackendByToken and BackendByName take
\* the first match).
RunningUnambiguous ==
    hubUp =>
        /\ \A t \in Tokens : \A i, j \in TokenOwners(running, t) : i = j
        /\ \A n \in Names \cup Ids : \A i, j \in NameOwners(running, n) : i = j
        /\ \A u \in DOMAIN running.grants : running.grants[u] \subseteq running.backends

\* A hub that runs an old configuration is one that a command is about to
\* restart, or that nobody restarted after a change (sshhub-ctl main.go:91,
\* 184).
RunningIsCurrent ==
    hubUp /\ running # file => skipped \/ \E p \in Commands : pc[p] = "saved"

\* No grant outlives its backend in the file, also when commands overlap and
\* one brings back what another has removed (manage.go RemoveBackend).
GrantsConfigured ==
    \A u \in DOMAIN file.grants : file.grants[u] \subseteq file.backends

\* Commands that do not overlap lose nothing, whichever of them fail or die on
\* the way: the file has the backends that were added and not removed
\* (manage.go Save).
SoleCommandsKept == ~ overlapped => file.backends = owed

\* What a command saved is soon what the hub runs, unless the file is one that
\* Load refuses or the restart was skipped (sshhub-ctl main.go:91, 184).
ChangeTakesEffect ==
    \A p \in Commands :
        pc[p] = "saved" ~> \/ hubUp /\ running = file
                          \/ ~ Validate(file)
                          \/ skipped

\* What neither command asks before it saves.  The token is nobody's, and no
\* backend has the id for an alias:
Unclaimed(cfg, i, t) ==
    \A j \in cfg.backends : cfg.token[j] # t /\ i \notin cfg.aliases[j]

\* no route leads to the backend, and no user is granted it alone.
Unneeded(cfg, i) ==
    i \notin cfg.routes /\ \A u \in DOMAIN cfg.grants : cfg.grants[u] # {i}

\* What a command is about to write suits what it has read.
Careful(p) ==
    IF op[p] = "add" THEN Unclaimed(snap[p], id[p], token[p])
                     ELSE Unneeded(snap[p], id[p])

\* A file that the hub comes back from is made one that Load refuses by these
\* omissions alone, or by a command that had read such a file and brings it
\* back over one that loads: whatever overlaps and fails, two changes that
\* each suit what was read never spoil the file between them (AddBackend and
\* RemoveBackend, manage.go:58, 98, which validate nothing).
OnlyCarelessBreaks ==
    [][Validate(file) /\ ~Validate(file')
           => \E p \in Commands : Save(p) /\ (Validate(snap[p]) => ~Careful(p))]_vars

\* manage.go:73, "RemoveBackend removes a backend and its associated routes
\* from the config file."
RoutesFollowBackend ==
    \A p \in Commands : pc[p] = "saved" /\ op[p] = "remove" => id[p] \notin file.routes
=============================================================================
