---------------------------- MODULE ControlPlane ----------------------------
(***************************************************************************)
(* The control plane of sshhub: agents behind NAT dial the hub, register   *)
(* with their token and keep a yamux session open; the hub runs one        *)
(* handler goroutine per connection and keeps the registry that tells the  *)
(* SSH front which session reaches which backend.                          *)
(*                                                                         *)
(*   internal/control/server.go    the accept loop and the handlers        *)
(*   internal/control/registry.go  registerConn, unregister, Open          *)
(*   internal/control/client.go    the agent's side of a registration      *)
(*   cmd/sshhub-agent/main.go      the agent's reconnection loop           *)
(*                                                                         *)
(* A session identity stands for one TCP connection and the yamux session  *)
(* on top of it.  Each end learns on its own that the connection is gone,  *)
(* so a session can be dead for the agent and still alive for the hub.     *)
(* Time is abstract: a sleep is a state, a deadline or a keepalive is a    *)
(* step that may be taken once what it waits for has happened.             *)
(***************************************************************************)
EXTENDS Naturals, FiniteSets

CONSTANTS
    Agents,         \* agent processes, and other programs dialling the port
    Mute,           \* the ones that may connect and never send a request
    Backends,       \* configured backend ids
    Assigned,       \* the backend the agent's token resolves to, or NoBackend
    Requested,      \* the backend name the agent asks for
    Sessions,       \* identities of connections, reused when nobody holds one
    Clients,        \* goroutines of the SSH front that open streams
    NoSession, NoBackend, NoAgent,
    ControlSlots,   \* capacity of the accept loop's slots channel (256)
    MinBackoff, MaxBackoff,
    MaxFaults       \* bound: cut links, slow peers, crashes and stops

ASSUME NamesAssumption ==
    /\ NoSession \notin Sessions
    /\ NoBackend \notin Backends
    /\ NoAgent \notin Agents
    /\ Mute \subseteq Agents
    /\ Assigned \in [Agents -> Backends \cup {NoBackend}]
    /\ Requested \in [Agents -> Backends]

ASSUME BoundsAssumption ==
    /\ IsFiniteSet(Sessions)
    /\ ControlSlots \in Nat
    /\ MaxFaults \in Nat
    /\ MinBackoff \in Nat \ {0}
    /\ MaxBackoff \in Nat
    /\ MinBackoff <= MaxBackoff

VARIABLES
    hubUp,      \* the hub process is running
    conns,      \* Registry.conns: backend id -> session
    handler,    \* where the goroutine serving a session is
    claim,      \* the backend id register() returned to that goroutine
    slots,      \* entries in the accept loop's slots channel
    hubOpen,    \* sessions the hub's end has not closed
    linkUp,     \* sessions whose TCP connection still carries data
    dialler,    \* the agent that dialled a session
    request,    \* the register request reached the hub's end
    reply,      \* the register response, as the agent can read it
    agent,      \* where an agent's run loop is
    cur,        \* the session that loop holds
    backoff,    \* its backoff variable
    opener,     \* where a stream opener is
    target,     \* the backend id it was given
    held,       \* the session it read from the registry
    faults      \* faults so far

hubVars    == <<hubUp, conns, handler, claim, slots, hubOpen>>
netVars    == <<linkUp, dialler, request, reply>>
agentVars  == <<agent, cur, backoff>>
openerVars == <<opener, target, held>>
vars == <<hubVars, netVars, agentVars, openerVars, faults>>

HandlerPcs == {"none", "backlog", "register", "answered", "serving",
               "refused", "return"}
AgentPcs   == {"stopped", "dialing", "awaiting", "serving", "backingoff", "pausing"}
OpenerPcs  == {"idle", "looked", "streaming"}

\* The pcs at which a handler goroutine exists and owns a slot.
Running == {"register", "answered", "serving", "refused", "return"}

TypeOK ==
    /\ hubUp \in BOOLEAN
    /\ conns \in [Backends -> Sessions \cup {NoSession}]
    /\ handler \in [Sessions -> HandlerPcs]
    /\ claim \in [Sessions -> Backends \cup {NoBackend}]
    /\ slots \in 0..ControlSlots
    /\ hubOpen \subseteq Sessions
    /\ linkUp \subseteq Sessions
    /\ dialler \in [Sessions -> Agents \cup {NoAgent}]
    /\ request \in [Sessions -> BOOLEAN]
    /\ reply \in [Sessions -> {"none", "ok", "refused"}]
    /\ agent \in [Agents -> AgentPcs]
    /\ cur \in [Agents -> Sessions \cup {NoSession}]
    /\ backoff \in [Agents -> MinBackoff..MaxBackoff]
    /\ opener \in [Clients -> OpenerPcs]
    /\ target \in [Clients -> Backends \cup {NoBackend}]
    /\ held \in [Clients -> Sessions \cup {NoSession}]
    /\ faults \in 0..MaxFaults

Init ==
    /\ hubUp = FALSE
    /\ conns = [b \in Backends |-> NoSession]
    /\ handler = [s \in Sessions |-> "none"]
    /\ claim = [s \in Sessions |-> NoBackend]
    /\ slots = 0
    /\ hubOpen = {}
    /\ linkUp = {}
    /\ dialler = [s \in Sessions |-> NoAgent]
    /\ request = [s \in Sessions |-> FALSE]
    /\ reply = [s \in Sessions |-> "none"]
    /\ agent = [a \in Agents |-> "stopped"]
    /\ cur = [a \in Agents |-> NoSession]
    /\ backoff = [a \in Agents |-> MinBackoff]
    /\ opener = [c \in Clients |-> "idle"]
    /\ target = [c \in Clients |-> NoBackend]
    /\ held = [c \in Clients |-> NoSession]
    /\ faults = 0

-----------------------------------------------------------------------------
(***************************************************************************)
(* The hub.                                                                *)
(***************************************************************************)

HubStart ==
    /\ ~ hubUp
    /\ hubUp' = TRUE
    /\ UNCHANGED <<conns, handler, claim, slots, hubOpen,
                   netVars, agentVars, openerVars, faults>>

\* The process ends: a signal, a restart by sshhub-ctl or log.Fatalf.  The
\* registry and every goroutine are gone and the kernel closes the sockets.
HubStop ==
    /\ hubUp
    /\ faults < MaxFaults
    /\ faults' = faults + 1
    /\ hubUp' = FALSE
    /\ conns' = [b \in Backends |-> NoSession]
    /\ handler' = [s \in Sessions |-> "none"]
    /\ claim' = [s \in Sessions |-> NoBackend]
    /\ slots' = 0
    /\ hubOpen' = {}
    /\ linkUp' = {}
    /\ opener' = [c \in Clients |-> "idle"]
    /\ target' = [c \in Clients |-> NoBackend]
    /\ held' = [c \in Clients |-> NoSession]
    /\ UNCHANGED <<dialler, request, reply, agentVars>>

\* The accept loop takes a connection: a slot and a goroutine, or conn.Close.
Accept(s) ==
    /\ handler[s] = "backlog"
    /\ \/ /\ slots < ControlSlots
          /\ slots' = slots + 1
          /\ handler' = [handler EXCEPT ![s] = "register"]
          /\ hubOpen' = hubOpen \cup {s}
          /\ UNCHANGED linkUp
       \/ /\ slots >= ControlSlots
          /\ handler' = [handler EXCEPT ![s] = "none"]
          /\ linkUp' = linkUp \ {s}
          /\ UNCHANGED <<slots, hubOpen>>
    /\ UNCHANGED <<hubUp, conns, claim, dialler, request, reply,
                   agentVars, openerVars, faults>>

\* session.Close() on the hub's side: the session and its connection.
CloseAtHub(s) ==
    /\ hubOpen' = hubOpen \ {s}
    /\ linkUp' = linkUp \ {s}

\* resolveToken: the token decides.  The requested name is used by nothing,
\* because Config.Validate refuses a configuration with control_tokens.
\* Mutant of resolveToken: the requested name is believed.
ResolveToken_Requested(a) ==
    IF Assigned[a] = NoBackend THEN NoBackend ELSE Requested[a]

ResolveToken(a) == Assigned[a]

\* register() fails: no stream or no request before the session died.
RegisterFail(s) ==
    /\ handler[s] = "register"
    /\ s \notin hubOpen
    /\ handler' = [handler EXCEPT ![s] = "return"]
    /\ CloseAtHub(s)
    /\ UNCHANGED <<hubUp, conns, claim, slots, dialler, request, reply,
                   agentVars, openerVars, faults>>

\* register() reads a request whose token resolves to nothing.
RegisterRefuse(s) ==
    /\ handler[s] = "register"
    /\ s \in hubOpen
    /\ request[s]
    /\ ResolveToken(dialler[s]) = NoBackend
    /\ reply' = [reply EXCEPT ![s] = "refused"]
    /\ handler' = [handler EXCEPT ![s] = "refused"]
    /\ CloseAtHub(s)
    /\ UNCHANGED <<hubUp, conns, claim, slots, dialler, request,
                   agentVars, openerVars, faults>>

\* register() resolves the token and writes the OK response.  Over a dead
\* link the write may be lost without an error, or fail.
RegisterAnswer(s) ==
    /\ handler[s] = "register"
    /\ s \in hubOpen
    /\ request[s]
    /\ ResolveToken(dialler[s]) # NoBackend
    /\ \/ /\ s \in linkUp
          /\ reply' = [reply EXCEPT ![s] = "ok"]
          /\ handler' = [handler EXCEPT ![s] = "answered"]
          /\ claim' = [claim EXCEPT ![s] = ResolveToken(dialler[s])]
          /\ UNCHANGED hubOpen
       \/ /\ s \notin linkUp
          /\ handler' = [handler EXCEPT ![s] = "answered"]
          /\ claim' = [claim EXCEPT ![s] = ResolveToken(dialler[s])]
          /\ UNCHANGED <<reply, hubOpen>>
       \/ /\ s \notin linkUp
          /\ handler' = [handler EXCEPT ![s] = "return"]
          /\ hubOpen' = hubOpen \ {s}
          /\ UNCHANGED <<reply, claim>>
    /\ UNCHANGED <<hubUp, conns, slots, linkUp, dialler, request,
                   agentVars, openerVars, faults>>

\* Mutant of RegisterConn: the newest registration wins.
RegisterConn_Displaces(s) ==
    /\ handler[s] = "answered"
    /\ conns' = [conns EXCEPT ![claim[s]] = s]
    /\ handler' = [handler EXCEPT ![s] = "serving"]
    /\ UNCHANGED <<hubUp, claim, slots, hubOpen, netVars,
                   agentVars, openerVars, faults>>

\* registerConn, and handleConn's reaction to its error.
RegisterConn(s) ==
    /\ handler[s] = "answered"
    /\ \/ /\ conns[claim[s]] = NoSession
          /\ conns' = [conns EXCEPT ![claim[s]] = s]
          /\ handler' = [handler EXCEPT ![s] = "serving"]
          /\ UNCHANGED <<hubOpen, linkUp>>
       \/ /\ conns[claim[s]] # NoSession
          /\ handler' = [handler EXCEPT ![s] = "refused"]
          /\ CloseAtHub(s)
          /\ UNCHANGED conns
    /\ UNCHANGED <<hubUp, claim, slots, dialler, request, reply,
                   agentVars, openerVars, faults>>

\* Mutant of Unregister: the handler returns without unregistering.
Unregister_Forgets(s) ==
    /\ handler[s] = "serving"
    /\ s \notin hubOpen
    /\ handler' = [handler EXCEPT ![s] = "return"]
    /\ UNCHANGED <<hubUp, conns, claim, slots, hubOpen, netVars,
                   agentVars, openerVars, faults>>

\* CloseChan fires and the handler unregisters its session.
Unregister(s) ==
    /\ handler[s] = "serving"
    /\ s \notin hubOpen
    /\ conns' = IF conns[claim[s]] = s
                THEN [conns EXCEPT ![claim[s]] = NoSession] ELSE conns
    /\ handler' = [handler EXCEPT ![s] = "return"]
    /\ UNCHANGED <<hubUp, claim, slots, hubOpen, netVars,
                   agentVars, openerVars, faults>>

\* Mutant of Return: an error path that keeps its slot.
Return_KeepsSlot(s) ==
    /\ handler[s] \in {"refused", "return"}
    /\ handler' = [handler EXCEPT ![s] = "none"]
    /\ claim' = [claim EXCEPT ![s] = NoBackend]
    /\ slots' = IF handler[s] = "refused" THEN slots ELSE slots - 1
    /\ UNCHANGED <<hubUp, conns, hubOpen, netVars, agentVars, openerVars, faults>>

\* The goroutine ends and its deferred receive frees the slot.
Return(s) ==
    /\ handler[s] \in {"refused", "return"}
    /\ handler' = [handler EXCEPT ![s] = "none"]
    /\ claim' = [claim EXCEPT ![s] = NoBackend]
    /\ slots' = slots - 1
    /\ UNCHANGED <<hubUp, conns, hubOpen, netVars, agentVars, openerVars, faults>>

\* The hub's end finds the connection dead: EOF, a reset or the keepalive.
HubNotice(s) ==
    /\ s \in hubOpen
    /\ s \notin linkUp
    /\ hubOpen' = hubOpen \ {s}
    /\ UNCHANGED <<hubUp, conns, handler, claim, slots,
                   netVars, agentVars, openerVars, faults>>

\* Mutant of HubDeadline: no deadline is set on an accepted connection.
HubDeadline_Unset(s) == FALSE /\ UNCHANGED vars

\* The deadline of handleConn runs out before a request has come.  The peer
\* is mute, or so slow that it counts as a fault.
HubDeadline(s) ==
    /\ handler[s] = "register"
    /\ s \in hubOpen
    /\ ~ request[s]
    /\ \/ /\ dialler[s] \in Mute
          /\ UNCHANGED faults
       \/ /\ dialler[s] \notin Mute
          /\ faults < MaxFaults
          /\ faults' = faults + 1
    /\ CloseAtHub(s)
    /\ UNCHANGED <<hubUp, conns, handler, claim, slots, dialler, request, reply,
                   agentVars, openerVars>>

-----------------------------------------------------------------------------
(***************************************************************************)
(* The network.                                                            *)
(***************************************************************************)

\* A connection stops carrying data; neither end knows yet.
CutLink(s) ==
    /\ s \in linkUp
    /\ faults < MaxFaults
    /\ faults' = faults + 1
    /\ linkUp' = linkUp \ {s}
    /\ UNCHANGED <<hubVars, dialler, request, reply, agentVars, openerVars>>

-----------------------------------------------------------------------------
(***************************************************************************)
(* The agent.                                                              *)
(***************************************************************************)

\* Nobody holds the identity any more, so it can name a new connection.
Free(s) ==
    /\ handler[s] = "none"
    /\ \A a \in Agents : cur[a] # s
    /\ \A c \in Clients : held[c] # s

AgentStart(a) ==
    /\ agent[a] = "stopped"
    /\ agent' = [agent EXCEPT ![a] = "dialing"]
    /\ backoff' = [backoff EXCEPT ![a] = MinBackoff]
    /\ UNCHANGED <<cur, hubVars, netVars, openerVars, faults>>

\* The agent process ends, by a signal or a crash.
AgentStop(a) ==
    /\ agent[a] # "stopped"
    /\ faults < MaxFaults
    /\ faults' = faults + 1
    /\ agent' = [agent EXCEPT ![a] = "stopped"]
    /\ cur' = [cur EXCEPT ![a] = NoSession]
    /\ linkUp' = linkUp \ {cur[a]}
    /\ UNCHANGED <<backoff, hubVars, dialler, request, reply, openerVars>>

\* DialContext reaches a listening hub; the connection waits to be accepted.
Dial(a) ==
    /\ agent[a] = "dialing"
    /\ hubUp
    /\ \E s \in Sessions :
        /\ Free(s)
        /\ handler' = [handler EXCEPT ![s] = "backlog"]
        /\ linkUp' = linkUp \cup {s}
        /\ dialler' = [dialler EXCEPT ![s] = a]
        /\ request' = [request EXCEPT ![s] = FALSE]
        /\ reply' = [reply EXCEPT ![s] = "none"]
        /\ cur' = [cur EXCEPT ![a] = s]
    /\ agent' = [agent EXCEPT ![a] = "awaiting"]
    /\ UNCHANGED <<hubUp, conns, claim, slots, hubOpen, backoff, openerVars, faults>>

DialFail(a) ==
    /\ agent[a] = "dialing"
    /\ ~ hubUp
    /\ agent' = [agent EXCEPT ![a] = "backingoff"]
    /\ UNCHANGED <<cur, backoff, hubVars, netVars, openerVars, faults>>

\* WriteRegister, once the TLS handshake with the handler is possible.
SendRegister(a) ==
    /\ agent[a] = "awaiting"
    /\ cur[a] \in linkUp
    /\ handler[cur[a]] = "register"
    /\ ~ request[cur[a]]
    /\ request' = [request EXCEPT ![cur[a]] = TRUE]
    /\ UNCHANGED <<linkUp, dialler, reply, hubVars, agentVars, openerVars, faults>>

\* session.Close() in the agent: it lets go of the session and the link.
CloseAtAgent(a) ==
    /\ cur' = [cur EXCEPT ![a] = NoSession]
    /\ linkUp' = linkUp \ {cur[a]}

\* The OK response arrives, perhaps over a session that has since died:
\* what yamux has buffered can still be read.
ReadOk(a) ==
    /\ agent[a] = "awaiting"
    /\ reply[cur[a]] = "ok"
    /\ agent' = [agent EXCEPT ![a] = "serving"]
    /\ backoff' = [backoff EXCEPT ![a] = MinBackoff]
    /\ UNCHANGED <<cur, hubVars, netVars, openerVars, faults>>

\* ConnectWithHostKey fails: a refusal was read or the session died first, its
\* own deadline included (CutLink, then this).
ConnectFail(a) ==
    /\ agent[a] = "awaiting"
    /\ reply[cur[a]] = "refused" \/ cur[a] \notin linkUp
    /\ agent' = [agent EXCEPT ![a] = "backingoff"]
    /\ CloseAtAgent(a)
    /\ UNCHANGED <<backoff, dialler, request, reply, hubVars, openerVars, faults>>

\* Mutant of WakeBackoff: a failed connection ends the loop.
WakeBackoff_Exits(a) == FALSE /\ UNCHANGED vars

\* sleepCtx(backoff) is over and the backoff doubles, up to its maximum.
WakeBackoff(a) ==
    /\ agent[a] = "backingoff"
    /\ agent' = [agent EXCEPT ![a] = "dialing"]
    /\ backoff' = [backoff EXCEPT ![a] =
                    IF 2 * backoff[a] > MaxBackoff THEN MaxBackoff ELSE 2 * backoff[a]]
    /\ UNCHANGED <<cur, hubVars, netVars, openerVars, faults>>

\* Serve returns because AcceptStream failed.
ServeEnd(a) ==
    /\ agent[a] = "serving"
    /\ cur[a] \notin linkUp
    /\ agent' = [agent EXCEPT ![a] = "pausing"]
    /\ CloseAtAgent(a)
    /\ UNCHANGED <<backoff, dialler, request, reply, hubVars, openerVars, faults>>

\* sleepCtx(minBackoff) after a lost tunnel.
WakePause(a) ==
    /\ agent[a] = "pausing"
    /\ agent' = [agent EXCEPT ![a] = "dialing"]
    /\ UNCHANGED <<cur, backoff, hubVars, netVars, openerVars, faults>>

-----------------------------------------------------------------------------
(***************************************************************************)
(* Registry.Open, as the SSH front calls it.                               *)
(***************************************************************************)

\* Under the read lock: find the session.  A missing one is an error.
Lookup(c, b) ==
    /\ opener[c] = "idle"
    /\ conns[b] # NoSession
    /\ opener' = [opener EXCEPT ![c] = "looked"]
    /\ target' = [target EXCEPT ![c] = b]
    /\ held' = [held EXCEPT ![c] = conns[b]]
    /\ UNCHANGED <<hubVars, netVars, agentVars, faults>>

\* After the unlock: OpenStream, which fails on a closed session.
OpenStream(c) ==
    /\ opener[c] = "looked"
    /\ held[c] \in hubOpen
    /\ opener' = [opener EXCEPT ![c] = "streaming"]
    /\ UNCHANGED <<target, held, hubVars, netVars, agentVars, faults>>

\* The open failed or the stream is over.
LetGo(c) ==
    /\ \/ opener[c] = "looked" /\ held[c] \notin hubOpen
       \/ opener[c] = "streaming"
    /\ opener' = [opener EXCEPT ![c] = "idle"]
    /\ target' = [target EXCEPT ![c] = NoBackend]
    /\ held' = [held EXCEPT ![c] = NoSession]
    /\ UNCHANGED <<hubVars, netVars, agentVars, faults>>

-----------------------------------------------------------------------------
HandlerStep(s) ==
    \/ Accept(s) \/ RegisterFail(s) \/ RegisterRefuse(s) \/ RegisterAnswer(s)
    \/ RegisterConn(s) \/ Unregister(s) \/ Return(s)

AgentStep(a) ==
    \/ AgentStart(a) \/ Dial(a) \/ DialFail(a) \/ ReadOk(a) \/ ConnectFail(a)
    \/ WakeBackoff(a) \/ ServeEnd(a) \/ WakePause(a)

Next ==
    \/ HubStart \/ HubStop
    \/ \E s \in Sessions : HandlerStep(s) \/ HubNotice(s) \/ HubDeadline(s) \/ CutLink(s)
    \/ \E a \in Agents : AgentStep(a) \/ SendRegister(a) \/ AgentStop(a)
    \/ \E c \in Clients :
        \/ \E b \in Backends : Lookup(c, b)
        \/ OpenStream(c) \/ LetGo(c)

\* The supervisor restarts both programs, goroutines that can run do run, and
\* keepalives and deadlines expire.  Faults are owed nothing.  Dialling waits
\* for nobody in the program; strong fairness keeps the bounded supply of
\* session identities from delaying one agent for ever.
Fairness ==
    /\ WF_vars(HubStart)
    /\ \A s \in Sessions :
        /\ WF_vars(HandlerStep(s))
        /\ WF_vars(HubNotice(s))
        /\ WF_vars(dialler[s] \in Mute /\ HubDeadline(s))
    /\ \A a \in Agents : WF_vars(AgentStep(a)) /\ SF_vars(Dial(a))
    /\ \A a \in Agents \ Mute : WF_vars(SendRegister(a))
    /\ \A c \in Clients :
        /\ WF_vars(opener[c] = "looked" /\ (OpenStream(c) \/ LetGo(c)))
        /\ WF_vars(held[c] \notin hubOpen /\ LetGo(c))

SafeSpec == Init /\ [][Next]_vars
Spec == SafeSpec /\ Fairness

-----------------------------------------------------------------------------
(***************************************************************************)
(* Safety.                                                                 *)
(***************************************************************************)

\* The registry and the handlers agree, whatever order they ran in: a backend
\* is bound to a session exactly while that session's handler waits on its
\* CloseChan for that backend (registry.go registerConn, unregister).
RegistryMatchesHandlers ==
    \A b \in Backends, s \in Sessions :
        conns[b] = s <=> handler[s] = "serving" /\ claim[s] = b

\* Every way out of a handler returns its slot, and only once
\* (server.go ListenAndServe).
SlotsMatchHandlers ==
    slots = Cardinality({s \in Sessions : handler[s] \in Running})

\* Registry.Open reads a session under the lock and uses it after the unlock.
\* As long as the hub's end is open it is still the registered one: what was
\* read is never out of date without OpenStream failing.
HeldIsBound ==
    \A c \in Clients :
        opener[c] # "idle" /\ held[c] \in hubOpen => conns[target[c]] = held[c]

\* A stream opened for a backend runs to an agent that presented that
\* backend's token, however sessions were replaced in between.
StreamReachesOwner ==
    \A c \in Clients :
        opener[c] # "idle" => Assigned[dialler[held[c]]] = target[c]

Directory == INSTANCE BackendDirectory WITH bound <- conns, live <- hubOpen

\* The control plane's steps are steps of the directory it promises to be.
DirectorySafety == Directory!SafeSpec

-----------------------------------------------------------------------------
(***************************************************************************)
(* Liveness.                                                               *)
(***************************************************************************)

\* With its fairness: a binding whose session has died is dropped.
RefinesDirectory == Directory!Spec

\* Once faults stop, a backend that some agent has the token of ends up
\* registered for good, and by an agent that serves it.
EventuallyServed ==
    \A b \in Backends :
        (\E a \in Agents \ Mute : Assigned[a] = b)
        => <>[](/\ conns[b] \in hubOpen \cap linkUp
                /\ \E a \in Agents : agent[a] = "serving" /\ cur[a] = conns[b])

\* A connection cannot hold a handler, and with it a slot, by staying mute.
RegistrationEnds ==
    \A s \in Sessions : handler[s] = "register" ~> handler[s] # "register"
=============================================================================
