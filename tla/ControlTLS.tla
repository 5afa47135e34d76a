----------------------------- MODULE ControlTLS -----------------------------
(***************************************************************************)
(* The TLS identity of the control plane: the key pair the hub loads or    *)
(* generates when it starts, the pin sshhub-ctl reads off the certificate, *)
(* and the agents that are installed with it.                              *)
(*                                                                         *)
(*   internal/hubtls/hubtls.go   LoadOrCreate, ClientConfig                *)
(*   cmd/sshhub/main.go          controlTLS                                *)
(*   cmd/sshhub-ctl/main.go      controlPlanePin                           *)
(*                                                                         *)
(* An identity is a number: a key, the certificate made with it, and its   *)
(* pin.  os.WriteFile truncates before it writes, so that a crash leaves a *)
(* file that is there and not readable.                                    *)
(***************************************************************************)
EXTENDS Naturals

CONSTANTS
    Agents,
    Settings,       \* what tls_cert and tls_key may name: sets of parts
    NoId, Partial,
    MaxIds,         \* bound: identities ever generated
    MaxFaults       \* bound: crashes and lost files

Parts  == {"cert", "key"}
Places == {"default", "own"}

\* The pair an operator brings along.
OwnId == 0

Ids == 0..MaxIds

ASSUME Assumption ==
    /\ Settings \subseteq SUBSET Parts
    /\ MaxIds \in Nat
    /\ MaxFaults \in Nat
    /\ NoId \notin Ids
    /\ Partial \notin Ids
    /\ NoId # Partial

VARIABLES
    configured, \* which of tls_cert and tls_key the configuration names
    file,       \* file[place][part]
    hub,        \* where the hub process is
    identity,   \* the pair it holds in memory
    refusal,    \* the file its last refusal named, or "none"
    pin,        \* the --hub-pin an agent was installed with
    lost,       \* identities of which a file was lost
    givenUp,    \* those of them that have none left, but by the hub's doing
    made, faults

history == <<lost, givenUp>>
vars == <<configured, file, hub, identity, refusal, pin, history, made, faults>>

\* Generating: each write truncates first.
HubPcs == {"down", "key", "keyFill", "cert", "certFill", "serving"}

TypeOK ==
    /\ configured \in Settings
    /\ file \in [Places -> [Parts -> Ids \cup {NoId, Partial}]]
    /\ hub \in HubPcs
    /\ identity \in Ids \cup {NoId}
    /\ refusal \in Parts \cup {"none"}
    /\ pin \in [Agents -> Ids \cup {NoId}]
    /\ lost \subseteq Ids
    /\ givenUp \subseteq lost
    /\ made \in Nat
    /\ faults \in Nat

\* An operator with a pair of their own has put both files in place.
Init ==
    /\ configured \in Settings
    /\ file \in {[w \in Places |-> [p \in Parts |-> IF w = "own" THEN id ELSE NoId]]
                    : id \in {OwnId, NoId}}
    /\ hub = "down"
    /\ identity = NoId
    /\ refusal = "none"
    /\ pin = [a \in Agents |-> NoId]
    /\ lost = {}
    /\ givenUp = {}
    /\ made = 0
    /\ faults = 0

\* controlTLS: the configured pair if both parts are named.
HubPlace == IF configured = Parts THEN "own" ELSE "default"

\* controlPlanePin: the configured certificate if there is one (the
\* configuration is one that loads).
CtlPlace == IF "cert" \in configured THEN "own" ELSE "default"

Exists(p) == file[HubPlace][p] # NoId

\* A part of the hub's pair gets other contents.
Write(p, content) ==
    file' = [file EXCEPT ![HubPlace][p] = content]

-----------------------------------------------------------------------------
(***************************************************************************)
(* The hub starts: LoadOrCreate.                                           *)
(***************************************************************************)

Load ==
    /\ hub = "down"
    /\ \A p \in Parts : Exists(p)
    /\ file[HubPlace]["cert"] = file[HubPlace]["key"]
    /\ file[HubPlace]["cert"] # Partial
    /\ hub' = "serving"
    /\ identity' = file[HubPlace]["cert"]
    /\ refusal' = "none"
    /\ UNCHANGED <<configured, file, pin, history, made, faults>>

\* LoadX509KeyPair fails, which names no remedy.
LoadFails ==
    /\ hub = "down"
    /\ \A p \in Parts : Exists(p)
    /\ \/ file[HubPlace]["cert"] # file[HubPlace]["key"]
       \/ file[HubPlace]["cert"] = Partial
    /\ refusal' = "none"
    /\ UNCHANGED <<configured, file, hub, identity, pin, history, made, faults>>

\* Mutant of RefuseHalf: a half-present pair is loaded, which fails.
RefuseHalf_Load ==
    /\ hub = "down"
    /\ \E p, q \in Parts : Exists(p) /\ ~Exists(q)
    /\ refusal' = "none"
    /\ UNCHANGED <<configured, file, hub, identity, pin, history, made, faults>>

\* Exactly one file: "remove it to regenerate".
RefuseHalf ==
    /\ hub = "down"
    /\ \E p, q \in Parts : Exists(p) /\ ~Exists(q) /\ refusal' = p
    /\ UNCHANGED <<configured, file, hub, identity, pin, history, made, faults>>

\* Mutant of Generate: over a half-present pair as well.
Generate_OverHalf ==
    /\ hub = "down"
    /\ \E p \in Parts : ~Exists(p)
    /\ made < MaxIds
    /\ made' = made + 1
    /\ identity' = made'
    /\ hub' = "key"
    /\ refusal' = "none"
    /\ UNCHANGED <<configured, file, pin, history, faults>>

Generate ==
    /\ hub = "down"
    /\ \A p \in Parts : ~Exists(p)
    /\ made < MaxIds
    /\ made' = made + 1
    /\ identity' = made'
    /\ hub' = "key"
    /\ refusal' = "none"
    /\ UNCHANGED <<configured, file, pin, history, faults>>

WriteStep(pc, p, content, next) ==
    /\ hub = pc
    /\ Write(p, content)
    /\ hub' = next
    /\ UNCHANGED <<configured, identity, refusal, pin, history, made, faults>>

\* Mutant of WritePair: the certificate comes first.
WritePair_CertFirst ==
    \/ WriteStep("key", "cert", Partial, "keyFill")
    \/ WriteStep("keyFill", "cert", identity, "cert")
    \/ WriteStep("cert", "key", Partial, "certFill")
    \/ WriteStep("certFill", "key", identity, "serving")

\* The key, then the certificate; the pair in memory is then served.
WritePair ==
    \/ WriteStep("key", "key", Partial, "keyFill")
    \/ WriteStep("keyFill", "key", identity, "cert")
    \/ WriteStep("cert", "cert", Partial, "certFill")
    \/ WriteStep("certFill", "cert", identity, "serving")

\* At any point, and when a write fails.
Crash ==
    /\ hub # "down"
    /\ faults < MaxFaults
    /\ faults' = faults + 1
    /\ hub' = "down"
    /\ identity' = NoId
    /\ UNCHANGED <<configured, file, refusal, pin, history, made>>
-----------------------------------------------------------------------------
(***************************************************************************)
(* The operator and the agents.                                            *)
(***************************************************************************)

\* A loss, or a removal, may leave no file of an identity.
GivesUp(losses) ==
    /\ lost' = lost \cup losses
    /\ givenUp' = givenUp \cup
        {id \in lost' : \A w \in Places, p \in Parts : file'[w][p] # id}

\* The operator does what the refusal says.
RemoveNamed ==
    /\ hub = "down"
    /\ refusal # "none"
    /\ Write(refusal, NoId)
    /\ refusal' = "none"
    /\ GivesUp({})
    /\ UNCHANGED <<configured, hub, identity, pin, made, faults>>

\* The operator finds out on their own what a pair that does not load needs.
RemoveDamaged ==
    /\ hub = "down"
    /\ \A p \in Parts : Exists(p)
    /\ \E p \in Parts : file[HubPlace][p] = Partial
    /\ file' = [file EXCEPT ![HubPlace] = [p \in Parts |-> NoId]]
    /\ GivesUp({})
    /\ UNCHANGED <<configured, hub, identity, refusal, pin, made, faults>>

\* Removed by mistake, or torn by a power cut: nothing is synced to the disk.
LoseFile(p, left) ==
    /\ hub \in {"down", "serving"}
    /\ Exists(p)
    /\ faults < MaxFaults
    /\ faults' = faults + 1
    /\ Write(p, left)
    /\ GivesUp({file[HubPlace][p]} \cap Ids)
    /\ UNCHANGED <<configured, hub, identity, refusal, pin, made>>

\* An agent is installed with the pin sshhub-ctl prints, if it prints one.
InstallAgent(a) ==
    /\ file[CtlPlace]["cert"] \in Ids
    /\ pin' = [pin EXCEPT ![a] = file[CtlPlace]["cert"]]
    /\ UNCHANGED <<configured, file, hub, identity, refusal, history, made, faults>>

Start == Load \/ LoadFails \/ RefuseHalf \/ Generate

Next ==
    \/ Start \/ WritePair \/ Crash
    \/ RemoveNamed \/ RemoveDamaged
    \/ \E p \in Parts, left \in {NoId, Partial} : LoseFile(p, left)
    \/ \E a \in Agents : InstallAgent(a)

\* systemd restarts the hub, and the operator does what it is told.
Fairness ==
    /\ WF_vars(Start)
    /\ WF_vars(WritePair)
    /\ WF_vars(RemoveNamed)

Spec == Init /\ [][Next]_vars /\ Fairness
-----------------------------------------------------------------------------
(***************************************************************************)
(* Properties.                                                             *)
(***************************************************************************)

\* ClientConfig: the leaf's key is compared with the pin.
Accepts(a) == hub = "serving" /\ identity = pin[a]

\* A pin that was given out is the hub's for good: no crash while the pair is
\* written and no restart makes it serve another key, nor does a lost file
\* while the other is left (LoadOrCreate's order and refusals, and
\* controlPlanePin, "the hub's control-plane public key pin").
PinsHold ==
    \A a \in Agents :
        (hub = "serving" /\ pin[a] \notin givenUp \cup {NoId}) => Accepts(a)

\* Both files are there and one of them was not written to its end.
Damaged ==
    /\ \A p \in Parts : Exists(p)
    /\ \E p \in Parts : file[HubPlace][p] = Partial

\* Whatever a crash leaves, the hub serves again when the operator does what
\* its refusals say, but for a torn file in a whole pair, from which no
\* refusal leads out (LoadOrCreate).
ComesUp == <>[](hub = "serving" \/ Damaged)
=============================================================================
